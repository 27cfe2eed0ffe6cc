---------------------------- MODULE CustodyProofs ----------------------------
(***************************************************************************)
(* A receipt or a durability event is never ahead of its evidence, a       *)
(* protected request keeps its place, one mutation at most is unsettled,   *)
(* and what the broker has written it accepts again: proofs about Custody  *)
(* for any number of operations, artifacts, calls, restarts and faults.    *)
(***************************************************************************)
EXTENDS Custody, FiniteSetTheorems, TLAPS

Settled(o) == object[ArtifactOf(o)] = "settled"
Durable == "custody_object_durable"

\* A call in progress has what it is about to write down: the publication
\* has settled its object, staged access has found the operation started.
CallInv ==
    \A c \in Calls : call[c].at # "idle" =>
        /\ call[c].op \in Ops
        /\ call[c].stage = Publish => Settled(call[c].op)
        /\ call[c].stage = Open => Started(call[c].op)

\* So has every request on disk.
RequestInv ==
    \A o \in Ops :
        /\ support[o][Publish]["request"] > 0 => Settled(o)
        /\ support[o][Open]["request"] > 0 => Started(o)

\* What the broker has validated before its first record stays true.
EvidenceInv ==
    \A o \in Ops :
        /\ receipt[o].level > 0 => SevenRecords(o)
        /\ event[o][Durable].level > 0 => Finalized(o)

IInv == TypeOK /\ CallInv /\ RequestInv /\ EvidenceInv

-----------------------------------------------------------------------------
(* Types *)

LEMMA EnteredType ==
    ASSUME NEW v \in Versions, NEW l \in 0 .. 3
    PROVE  /\ Entered(v, l) \in Exchange
           /\ Entered(v, l).level = l
           /\ l > 0 => Entered(v, l).version = v
           /\ l = 0 <=> Entered(v, l).version = 0
  BY DEF Entered, Exchange, Versions

LEMMA OutcomeType ==
    ASSUME NEW l \in 0 .. 3, NEW w \in Outcomes(l)
    PROVE  w.level \in l .. 3 /\ w.level \in 0 .. 3 /\ w.stuck \in BOOLEAN
  BY DEF Outcomes, Outcome

LEMMA ConstantTypes ==
    /\ Open = 1 /\ Prepare = 2 /\ Verify = 3 /\ Publish = 4
    /\ Stages = 1 .. 4
    /\ Idle \in CallState
  BY DEF Open, Prepare, Verify, Publish, Stages, Idle, CallState

LEMMA InitTypes == Init => TypeOK
<1> SUFFICES ASSUME Init PROVE TypeOK
  OBVIOUS
<1> USE ConstantTypes DEF Init
<1>1. NoExchange \in Exchange /\ (NoExchange.level = 0 <=> NoExchange.version = 0)
  BY DEF NoExchange, Exchange
<1>2. /\ event \in [Ops -> [Events -> Exchange]]
      /\ receipt \in [Ops -> Exchange]
      /\ \A o \in Ops : \A x \in {receipt[o]} \cup {event[o][e] : e \in Events} :
           x.level = 0 <=> x.version = 0
  <2>1. \A o \in Ops : receipt[o] = NoExchange /\ \A e \in Events : event[o][e] = NoExchange
    OBVIOUS
  <2> QED
    BY <1>1, <2>1
<1>3. /\ support \in [Ops -> [Stages -> [Kinds -> 0 .. 3]]]
      /\ late \in [Ops -> SUBSET Stages]
      /\ object \in [Artifacts -> {"none", "linked", "settled"}]
      /\ temporary \in [Ops -> BOOLEAN]
      /\ lapsed \in [Ops -> SUBSET Grounds]
  OBVIOUS
<1>4. {stuck, up, store, cas, inFlight} \subseteq BOOLEAN
  OBVIOUS
<1>6. /\ stream \in [Ops -> 0 .. Publish]
      /\ source \in [Ops -> Calls \cup {None}]
      /\ done \in [Ops -> SUBSET Stages]
  OBVIOUS
<1>5. call \in [Calls -> CallState]
  OBVIOUS
<1> QED
  BY <1>2, <1>3, <1>4, <1>5, <1>6 DEF TypeOK

LEMMA BrokerTypes ==
    ASSUME TypeOK, NEW o \in Ops, NEW v \in Versions,
           (\E e \in Events : AppendSemantic(o, e, v)) \/ PersistPrimaryReceipt(o, v)
    PROVE  TypeOK'
<1> USE ConstantTypes
<1>1. ASSUME NEW e \in Events, AppendSemantic(o, e, v)
      PROVE  TypeOK'
  <2>1. event[o][e].level \in 0 .. 3
    BY DEF TypeOK, Exchange
  <2>2. PICK w \in Outcomes(event[o][e].level) :
           event' = [event EXCEPT ![o][e] = Entered(v, w.level)] /\ Leaves(w)
    BY <1>1 DEF AppendSemantic
  <2>3. w.level \in 0 .. 3 /\ w.stuck \in BOOLEAN
    BY <2>1, OutcomeType
  <2>4. Entered(v, w.level) \in Exchange
        /\ (Entered(v, w.level).level = 0 <=> Entered(v, w.level).version = 0)
    BY <2>3, EnteredType
  <2>5. event' \in [Ops -> [Events -> Exchange]]
    BY <2>2, <2>4 DEF TypeOK
  <2>6. \A p \in Ops : \A f \in Events : event'[p][f].level = 0 <=> event'[p][f].version = 0
    BY <2>2, <2>4 DEF TypeOK
  <2>7. stuck' \in BOOLEAN /\ store' \in BOOLEAN
    BY <2>2, <2>3 DEF TypeOK, Leaves
  <2> QED
    BY <1>1, <2>5, <2>6, <2>7 DEF AppendSemantic, TypeOK
<1>2. ASSUME PersistPrimaryReceipt(o, v)
      PROVE  TypeOK'
  <2>1. receipt[o].level \in 0 .. 3
    BY DEF TypeOK, Exchange
  <2>2. PICK w \in Outcomes(receipt[o].level) :
           receipt' = [receipt EXCEPT ![o] = Entered(v, w.level)] /\ Leaves(w)
    BY <1>2 DEF PersistPrimaryReceipt
  <2>3. w.level \in 0 .. 3 /\ w.stuck \in BOOLEAN
    BY <2>1, OutcomeType
  <2>4. Entered(v, w.level) \in Exchange
        /\ (Entered(v, w.level).level = 0 <=> Entered(v, w.level).version = 0)
    BY <2>3, EnteredType
  <2>5. receipt' \in [Ops -> Exchange]
        /\ \A p \in Ops : receipt'[p].level = 0 <=> receipt'[p].version = 0
    BY <2>2, <2>4 DEF TypeOK
  <2>6. stuck' \in BOOLEAN /\ store' \in BOOLEAN
    BY <2>2, <2>3 DEF TypeOK, Leaves
  <2> QED
    BY <1>2, <2>5, <2>6 DEF PersistPrimaryReceipt, TypeOK
<1> QED
  BY <1>1, <1>2

LEMMA CallUpdates ==
    ASSUME TypeOK, NEW c \in Calls
    PROVE  /\ Throws(c) => call' \in [Calls -> CallState]
           /\ \A at \in {"request", "receipt", "response", "finish"} :
                Moves(c, at) => call' \in [Calls -> CallState]
           /\ \A o \in Ops : \A i \in Stages :
                Awaits(c, o, i) => call' \in [Calls -> CallState]
<1> call \in [Calls -> CallState]
  BY DEF TypeOK
<1>1. Throws(c) => call' \in [Calls -> CallState]
  BY ConstantTypes DEF Throws
<1>2. ASSUME NEW at \in {"request", "receipt", "response", "finish"}, Moves(c, at)
      PROVE  call' \in [Calls -> CallState]
  <2>1. [call[c] EXCEPT !.at = at] \in CallState
    BY DEF CallState
  <2> QED
    BY <1>2, <2>1 DEF Moves
<1>3. ASSUME NEW o \in Ops, NEW i \in Stages, Awaits(c, o, i)
      PROVE  call' \in [Calls -> CallState]
  BY <1>3 DEF Awaits, CallState
<1> QED
  BY <1>1, <1>2, <1>3

LEMMA StageTypes ==
    ASSUME TypeOK, NEW c \in Calls, NEW o \in Ops,
           OpenStaged(c, o) \/ PrepareStage(c, o) \/ VerifyStage(c, o) \/ PublishStage(c, o)
    PROVE  TypeOK'
<1> USE ConstantTypes, CallUpdates
<1>1. ASSUME NEW i \in Stages, Performs(o, i)
      PROVE  done' \in [Ops -> SUBSET Stages]
  BY <1>1 DEF Performs, TypeOK
<1>2. CASE OpenStaged(c, o)
  BY <1>2 DEF OpenStaged, TypeOK, durable
<1>3. CASE PrepareStage(c, o)
  <2>1. temporary' \in [Ops -> BOOLEAN]
    BY <1>3 DEF PrepareStage, TypeOK
  <2>2. {stuck, up, store, cas, inFlight}' \subseteq BOOLEAN
    BY <1>3 DEF PrepareStage, TypeOK
  <2>3. call' \in [Calls -> CallState]
    BY <1>3 DEF PrepareStage, TypeOK
  <2>4. done' \in [Ops -> SUBSET Stages]
    BY <1>1, <1>3 DEF PrepareStage, TypeOK
  <2> QED
    BY <1>3, <2>1, <2>2, <2>3, <2>4 DEF PrepareStage, TypeOK
<1>4. CASE VerifyStage(c, o)
  <2>1. {stuck, up, store, cas, inFlight}' \subseteq BOOLEAN
    BY <1>4 DEF VerifyStage, TypeOK, durable
  <2>2. call' \in [Calls -> CallState]
    BY <1>4 DEF VerifyStage, TypeOK
  <2>3. done' \in [Ops -> SUBSET Stages]
    BY <1>1, <1>4 DEF VerifyStage, TypeOK
  <2> QED
    BY <1>4, <2>1, <2>2, <2>3 DEF VerifyStage, TypeOK, durable
<1>5. CASE PublishStage(c, o)
  <2>1. \E r \in {"none", "linked", "settled"} \X BOOLEAN : Publishes(o, r)
    <3>1. ArtifactOf(o) \in Artifacts /\ object[ArtifactOf(o)] \in {"none", "linked", "settled"}
      BY CustodyAssumption DEF TypeOK
    <3> QED
      BY <1>5, <3>1 DEF PublishStage, CutPublications
  <2>2. object' \in [Artifacts -> {"none", "linked", "settled"}] /\ temporary' \in [Ops -> BOOLEAN]
    BY <2>1 DEF Publishes, TypeOK
  <2>3. done' \in [Ops -> SUBSET Stages]
    BY <1>1, <2>1 DEF Publishes
  <2>4. {stuck, up, store, cas, inFlight}' \subseteq BOOLEAN
    <3>1. inFlight' \in {TRUE, inFlight} /\ cas' \in {FALSE, cas} /\ UNCHANGED <<stuck, up, store>>
      BY <1>5 DEF PublishStage
    <3> QED
      BY <3>1 DEF TypeOK
  <2>5. call' \in [Calls -> CallState]
    <3>1. Awaits(c, o, Publish) \/ call' = call
      BY <1>5 DEF PublishStage
    <3> QED
      BY <3>1 DEF TypeOK
  <2> QED
    BY <1>5, <2>2, <2>3, <2>4, <2>5 DEF PublishStage, TypeOK
<1> QED
  BY <1>2, <1>3, <1>4, <1>5

LEMMA HandleTypes ==
    ASSUME TypeOK, NEW c \in Calls,
           (\E k \in Kinds : PersistMessage(c, k)) \/ PersistReceipt(c) \/ Finish(c)
    PROVE  TypeOK'
<1> USE ConstantTypes, CallUpdates
<1> call[c] \in CallState
  BY DEF TypeOK
<1>1. ASSUME NEW k \in Kinds, PersistMessage(c, k)
      PROVE  TypeOK'
  <2> DEFINE o == call[c].op
             i == call[c].stage
  <2>1. /\ support' \in [Ops -> [Stages -> [Kinds -> 0 .. 3]]]
        /\ late' \in [Ops -> SUBSET Stages]
        /\ stuck' \in BOOLEAN /\ store' \in BOOLEAN
    <3>1. CASE Persists(o, i, k)
      <4>1. PICK w \in Outcomes(support[o][i][k]) :
              /\ support' = [support EXCEPT ![o][i][k] = w.level]
              /\ late' = IF k = "request" /\ w.level = 3 /\ Outlived(o, i)
                         THEN [late EXCEPT ![o] = @ \cup {i}] ELSE late
              /\ Leaves(w)
        BY <1>1, <3>1 DEF PersistMessage
      <4>2. w.level \in 0 .. 3 /\ w.stuck \in BOOLEAN
        BY <3>1, OutcomeType DEF Persists
      <4>3. support' \in [Ops -> [Stages -> [Kinds -> 0 .. 3]]]
        <5>1. ASSUME NEW m \in Ops
              PROVE  [support[m] EXCEPT ![i][k] = w.level] \in [Stages -> [Kinds -> 0 .. 3]]
          <6>1. support[m] \in [Stages -> [Kinds -> 0 .. 3]]
            BY DEF TypeOK
          <6>2. ASSUME NEW j \in Stages
                PROVE  [support[m][j] EXCEPT ![k] = w.level] \in [Kinds -> 0 .. 3]
            BY <4>2, <6>1
          <6> QED
            BY <6>1, <6>2
        <5>2. support' = [support EXCEPT ![o] = [support[o] EXCEPT ![i][k] = w.level]]
          BY <4>1
        <5> QED
          BY <5>1, <5>2 DEF TypeOK
      <4>4. late' \in [Ops -> SUBSET Stages]
        BY <4>1 DEF TypeOK, CallState
      <4> QED
        BY <4>1, <4>2, <4>3, <4>4 DEF Leaves, TypeOK
    <3> QED
      BY <1>1, <3>1 DEF PersistMessage, TypeOK
  <2>2. call' \in [Calls -> CallState]
    <3>1. After(i, k) \in {"request", "receipt", "response", "finish"}
      BY <1>1 DEF After, Kinds
    <3> QED
      BY <1>1, <3>1 DEF PersistMessage
  <2>3. UNCHANGED <<event, receipt, object, temporary, lapsed, up, cas, inFlight, stream, source, done>>
    BY <1>1 DEF PersistMessage
  <2> QED
    BY <2>1, <2>2, <2>3 DEF TypeOK
<1>2. CASE PersistReceipt(c)
  <2> DEFINE o == call[c].op
  <2>1. /\ receipt' \in [Ops -> Exchange]
        /\ \A p \in Ops : receipt'[p].level = 0 <=> receipt'[p].version = 0
        /\ stuck' \in BOOLEAN /\ store' \in BOOLEAN
    <3>1. CASE Working /\ SevenRecords(o) /\ receipt[o].level = 0
      <4>1. PICK w \in Outcomes(0) : receipt' = [receipt EXCEPT ![o] = Entered(1, w.level)] /\ Leaves(w)
        BY <1>2, <3>1 DEF PersistReceipt
      <4>2. w.level \in 0 .. 3 /\ w.stuck \in BOOLEAN
        BY OutcomeType
      <4>3. 1 \in Versions
        BY DEF Versions
      <4>4. Entered(1, w.level) \in Exchange
            /\ (Entered(1, w.level).level = 0 <=> Entered(1, w.level).version = 0)
        BY <4>2, <4>3, EnteredType
      <4> QED
        BY <4>1, <4>2, <4>4 DEF Leaves, TypeOK
    <3> QED
      BY <1>2, <3>1 DEF PersistReceipt, TypeOK
  <2>2. call' \in [Calls -> CallState]
    BY <1>2 DEF PersistReceipt
  <2> QED
    BY <1>2, <2>1, <2>2 DEF PersistReceipt, TypeOK
<1>3. CASE Finish(c)
  <2>1. stream' \in [Ops -> 0 .. Publish] /\ source' \in [Ops -> Calls \cup {None}]
    <3>1. call[c].stage \in 0 .. Publish
      BY DEF CallState
    <3>2. stream' \in [Ops -> 0 .. Publish]
      BY <1>3, <3>1 DEF Finish, TypeOK
    <3>3. source' \in [Ops -> Calls \cup {None}]
      BY <1>3 DEF Finish, TypeOK
    <3> QED
      BY <3>2, <3>3
  <2>2. inFlight' \in BOOLEAN
    BY <1>3 DEF Finish, TypeOK
  <2>3. call' \in [Calls -> CallState]
    BY <1>3 DEF Finish
  <2> QED
    BY <1>3, <2>1, <2>2, <2>3 DEF Finish, TypeOK, durable
<1> QED
  BY <1>1, <1>2, <1>3

LEMMA ProcessTypes ==
    ASSUME TypeOK, (\E o \in Ops : Expire(o) \/ Lapse(o)) \/ Die \/ Restart
    PROVE  TypeOK'
<1> USE ConstantTypes
<1>1. CASE \E o \in Ops : Expire(o)
  BY <1>1 DEF Expire, TypeOK, durable
<1>2. CASE Die
  <2>1. {stuck, up, store, cas, inFlight}' \subseteq BOOLEAN
    BY <1>2 DEF Die, Forget, TypeOK, durable
  <2>2. /\ stream' \in [Ops -> 0 .. Publish]
        /\ source' \in [Ops -> Calls \cup {None}]
        /\ done' \in [Ops -> SUBSET Stages]
    BY <1>2 DEF Die, Forget
  <2>3. call' \in [Calls -> CallState]
    BY <1>2 DEF Die, Forget
  <2> QED
    BY <1>2, <2>1, <2>2, <2>3 DEF Die, TypeOK, durable
<1>3. CASE Restart
  BY <1>3 DEF Restart, TypeOK
<1>4. ASSUME NEW o \in Ops, Lapse(o)
      PROVE  TypeOK'
  <2>1. PICK x \in Grounds : lapsed' = [lapsed EXCEPT ![o] = @ \cup {x}]
    BY <1>4 DEF Lapse, Asked, Grounds
  <2>2. lapsed' \in [Ops -> SUBSET Grounds]
    BY <2>1 DEF TypeOK
  <2> QED
    BY <1>4, <2>2 DEF Lapse, TypeOK, memory
<1> QED
  BY <1>1, <1>2, <1>3, <1>4

LEMMA NextTypes == TypeOK /\ [Next]_vars => TypeOK'
<1> SUFFICES ASSUME TypeOK, [Next]_vars
             PROVE  TypeOK'
  OBVIOUS
<1>1. CASE UNCHANGED vars
  BY <1>1 DEF vars, durable, memory, TypeOK
<1>2. CASE Next
  BY <1>2, BrokerTypes, StageTypes, HandleTypes, ProcessTypes DEF Next, Handle, Client
<1> QED
  BY <1>1, <1>2

\* Every reachable state is well typed.
THEOREM TypeCorrect == Spec => []TypeOK
  BY InitTypes, NextTypes, PTL DEF Spec

-----------------------------------------------------------------------------
(* Which steps write which records, and that records only accumulate *)

LEMMA Writers ==
    ASSUME [Next]_vars
    PROVE  /\ event' # event =>
                \E o \in Ops, e \in Events, v \in Versions : AppendSemantic(o, e, v)
           /\ receipt' # receipt =>
                \/ \E c \in Calls : PersistReceipt(c)
                \/ \E o \in Ops, v \in Versions : PersistPrimaryReceipt(o, v)
           /\ support' # support => \E c \in Calls, k \in Kinds : PersistMessage(c, k)
           /\ object' # object => Restart \/ \E c \in Calls, o \in Ops : PublishStage(c, o)
<1>1. CASE UNCHANGED vars
  BY <1>1 DEF vars, durable
<1>2. ASSUME NEW o \in Ops, NEW v \in Versions, NEW e \in Events, AppendSemantic(o, e, v)
      PROVE  UNCHANGED <<receipt, support, object>>
  BY <1>2 DEF AppendSemantic
<1>3. ASSUME NEW o \in Ops, NEW v \in Versions, PersistPrimaryReceipt(o, v)
      PROVE  UNCHANGED <<event, support, object>>
  BY <1>3 DEF PersistPrimaryReceipt
<1>4. ASSUME NEW c \in Calls, NEW o \in Ops, OpenStaged(c, o) \/ PrepareStage(c, o) \/ VerifyStage(c, o)
      PROVE  UNCHANGED <<event, receipt, support, object>>
  BY <1>4 DEF OpenStaged, PrepareStage, VerifyStage, durable
<1>5. ASSUME NEW c \in Calls, NEW o \in Ops, PublishStage(c, o)
      PROVE  UNCHANGED <<event, receipt, support>>
  BY <1>5 DEF PublishStage
<1>6. ASSUME NEW c \in Calls, NEW k \in Kinds, PersistMessage(c, k)
      PROVE  UNCHANGED <<event, receipt, object>>
  BY <1>6 DEF PersistMessage
<1>7. ASSUME NEW c \in Calls, PersistReceipt(c)
      PROVE  UNCHANGED <<event, support, object>>
  BY <1>7 DEF PersistReceipt
<1>8. ASSUME (\E c \in Calls : Finish(c)) \/ (\E o \in Ops : Expire(o) \/ Lapse(o)) \/ Die
      PROVE  UNCHANGED <<event, receipt, support, object>>
  BY <1>8 DEF Finish, Expire, Lapse, Die, durable
<1>9. CASE Restart
  BY <1>9 DEF Restart
<1> QED
  BY <1>1, <1>2, <1>3, <1>4, <1>5, <1>6, <1>7, <1>8, <1>9 DEF Next, Handle, Client

LEMMA EventsAccumulate ==
    ASSUME TypeOK, [Next]_vars, NEW o \in Ops
    PROVE  Started(o) => Started(o)'
<1>1. CASE event' = event
  BY <1>1 DEF Started
<1>2. ASSUME NEW p \in Ops, NEW e \in Events, NEW v \in Versions, AppendSemantic(p, e, v)
      PROVE  Started(o) => Started(o)'
  <2>1. event[p][e].level \in 0 .. 3
    BY DEF TypeOK, Exchange
  <2>2. PICK w \in Outcomes(event[p][e].level) :
          event' = [event EXCEPT ![p][e] = Entered(v, w.level)]
    BY <1>2 DEF AppendSemantic
  <2>3. Entered(v, w.level).level \in event[p][e].level .. 3
    BY <2>1, OutcomeType, EnteredType
  <2>4. "operation_started" \in Events
    BY DEF Events
  <2>5. event'[o]["operation_started"].level >= event[o]["operation_started"].level
    <3>1. CASE p = o /\ e = "operation_started"
      <4>1. event'[o]["operation_started"] = Entered(v, w.level)
        BY <2>2, <2>4, <3>1 DEF TypeOK
      <4> QED
        BY <2>1, <2>3, <3>1, <4>1
    <3>2. CASE ~(p = o /\ e = "operation_started")
      <4>1. event'[o]["operation_started"] = event[o]["operation_started"]
        BY <2>2, <2>4, <3>2 DEF TypeOK
      <4>2. event[o]["operation_started"].level \in 0 .. 3
        BY <2>4 DEF TypeOK, Exchange
      <4> QED
        BY <4>1, <4>2
    <3> QED
      BY <3>1, <3>2
  <2>6. event'[o]["operation_started"].level \in 0 .. 3 /\ event[o]["operation_started"].level \in 0 .. 3
    BY <2>4, NextTypes DEF TypeOK, Exchange
  <2> QED
    BY <2>5, <2>6 DEF Started
<1> QED
  BY <1>1, <1>2, Writers

LEMMA MessagesAccumulate ==
    ASSUME TypeOK, [Next]_vars, NEW o \in Ops, NEW i \in Stages, NEW k \in Kinds
    PROVE  Complete(o, i, k) => Complete(o, i, k)'
<1>1. CASE support' = support
  BY <1>1 DEF Complete
<1>2. ASSUME NEW c \in Calls, NEW m \in Kinds, PersistMessage(c, m)
      PROVE  Complete(o, i, k) => Complete(o, i, k)'
  <2> DEFINE p == call[c].op
             j == call[c].stage
  <2>1. \/ support' = support
        \/ support[p][j][m] = 0 /\ \E l : support' = [support EXCEPT ![p][j][m] = l]
    BY <1>2 DEF PersistMessage, Persists
  <2>2. CASE support' = support
    BY <2>2 DEF Complete
  <2>3. ASSUME support[p][j][m] = 0, NEW l, support' = [support EXCEPT ![p][j][m] = l],
               support[o][i][k] = 3
        PROVE  support'[o][i][k] = 3
    <3>1. ~(p = o /\ j = i /\ m = k)
      BY <2>3
    <3>2. support \in [Ops -> [Stages -> [Kinds -> 0 .. 3]]]
      BY DEF TypeOK
    <3>3. support'[o][i][k] = support[o][i][k]
      BY <2>3, <3>1, <3>2
    <3> QED
      BY <2>3, <3>3
  <2> QED
    BY <2>1, <2>2, <2>3 DEF Complete
<1> QED
  BY <1>1, <1>2, Writers

LEMMA ReceiptsAccumulate ==
    ASSUME TypeOK, [Next]_vars, NEW o \in Ops
    PROVE  receipt[o].level = 3 => receipt'[o].level = 3
<1>1. ASSUME NEW c \in Calls, PersistReceipt(c)
      PROVE  receipt[o].level = 3 => receipt'[o].level = 3
  <2> DEFINE p == call[c].op
  <2>1. \/ receipt' = receipt
        \/ receipt[p].level = 0 /\ \E x : receipt' = [receipt EXCEPT ![p] = x]
    BY <1>1 DEF PersistReceipt
  <2>2. ASSUME receipt[p].level = 0, NEW x, receipt' = [receipt EXCEPT ![p] = x],
               receipt[o].level = 3
        PROVE  receipt'[o].level = 3
    BY <2>2 DEF TypeOK
  <2> QED
    BY <2>1, <2>2
<1>2. ASSUME NEW p \in Ops, NEW v \in Versions, PersistPrimaryReceipt(p, v)
      PROVE  receipt[o].level = 3 => receipt'[o].level = 3
  <2>1. receipt[p].level < 3 /\ \E x : receipt' = [receipt EXCEPT ![p] = x]
    BY <1>2 DEF PersistPrimaryReceipt
  <2> QED
    BY <2>1 DEF TypeOK
<1> QED
  BY <1>1, <1>2, Writers

\* An object whose link was synchronized stays, whatever other operations
\* of the same artifact do and whatever a restart drops.
LEMMA ObjectsStay ==
    ASSUME TypeOK, [Next]_vars, NEW o \in Ops
    PROVE  Settled(o) => Settled(o)'
<1> ArtifactOf(o) \in Artifacts
  BY CustodyAssumption
<1>1. CASE Restart
  BY <1>1 DEF Restart, Settled
<1>2. ASSUME NEW c \in Calls, NEW p \in Ops, PublishStage(c, p)
      PROVE  Settled(o) => Settled(o)'
  <2>1. ArtifactOf(p) \in Artifacts
    BY CustodyAssumption
  <2>2. PICK r \in CutPublications(p) : object' = [object EXCEPT ![ArtifactOf(p)] = r[1]]
    BY <1>2 DEF PublishStage, Publishes, CutPublications
  <2>3. Settled(p) => r[1] = "settled"
    <3>1. \/ r = <<object[ArtifactOf(p)], TRUE>>
          \/ r = <<"settled", FALSE>>
          \/ r = <<"linked", TRUE>> /\ object[ArtifactOf(p)] = "none"
      BY <2>2 DEF CutPublications
    <3>2. Settled(p) => object[ArtifactOf(p)] = "settled" /\ object[ArtifactOf(p)] # "none"
      BY DEF Settled
    <3>3. CASE r = <<object[ArtifactOf(p)], TRUE>>
      BY <3>2, <3>3
    <3>4. CASE r = <<"settled", FALSE>>
      BY <3>4
    <3> QED
      BY <3>1, <3>2, <3>3, <3>4
  <2> QED
    BY <2>1, <2>2, <2>3 DEF Settled, TypeOK
<1> QED
  BY <1>1, <1>2, Writers DEF Settled

LEMMA EvidenceStays ==
    ASSUME TypeOK, [Next]_vars, NEW o \in Ops
    PROVE  /\ SevenRecords(o) => SevenRecords(o)'
           /\ Finalized(o) => Finalized(o)'
  BY ConstantTypes, EventsAccumulate, MessagesAccumulate, ReceiptsAccumulate
     DEF SevenRecords, Finalized, Kinds

-----------------------------------------------------------------------------
(* The invariant *)

LEMMA InitInvariant == Init => IInv
  BY InitTypes, ConstantTypes
     DEF Init, IInv, CallInv, RequestInv, EvidenceInv, Idle, NoExchange, Kinds, Events, Durable

\* A call in progress goes on, ends, or is a new one of the stage admitted.
LEMMA CallSteps ==
    ASSUME TypeOK, [Next]_vars, NEW c \in Calls, call'[c].at # "idle"
    PROVE  \/ /\ call[c].at # "idle"
              /\ call'[c].op = call[c].op /\ call'[c].stage = call[c].stage
           \/ \E o \in Ops :
                /\ call'[c].op = o
                /\ \/ OpenStaged(c, o) /\ call'[c].stage = Open
                   \/ PrepareStage(c, o) /\ call'[c].stage = Prepare
                   \/ VerifyStage(c, o) /\ call'[c].stage = Verify
                   \/ PublishStage(c, o) /\ call'[c].stage = Publish /\ Awaits(c, o, Publish)
<1> DEFINE Kept == /\ call[c].at # "idle"
                   /\ call'[c].op = call[c].op /\ call'[c].stage = call[c].stage
<1> call \in [Calls -> CallState]
  BY DEF TypeOK
<1>1. ASSUME call' = call PROVE Kept
  BY <1>1
<1>2. ASSUME NEW d \in Calls, Throws(d) PROVE Kept
  BY <1>2 DEF Throws, Idle
<1>3. ASSUME NEW d \in Calls, NEW at, Moves(d, at), call[d].at # "idle" PROVE Kept
  BY <1>3 DEF Moves, CallState
<1>4. ASSUME NEW d \in Calls, NEW o \in Ops, NEW i \in Stages, Awaits(d, o, i)
      PROVE  Kept \/ (c = d /\ call'[c].op = o /\ call'[c].stage = i)
  BY <1>4 DEF Awaits
<1>5. CASE UNCHANGED vars
  BY <1>1, <1>5 DEF vars, memory
<1>6. ASSUME NEW o \in Ops, Client(o) \/ Expire(o) \/ Lapse(o)
      PROVE  Kept
  <2>1. ASSUME NEW v \in Versions, NEW e \in Events, AppendSemantic(o, e, v) PROVE call' = call
    BY <2>1 DEF AppendSemantic
  <2>2. ASSUME NEW v \in Versions, PersistPrimaryReceipt(o, v) PROVE call' = call
    BY <2>2 DEF PersistPrimaryReceipt
  <2>3. ASSUME Expire(o) \/ Lapse(o) PROVE call' = call
    BY <2>3 DEF Expire, Lapse, memory
  <2> QED
    BY <1>1, <1>6, <2>1, <2>2, <2>3 DEF Client
<1>7. ASSUME NEW d \in Calls, \/ \E k \in Kinds : PersistMessage(d, k)
                              \/ PersistReceipt(d) \/ Finish(d)
      PROVE  Kept
  <2>1. ASSUME NEW k \in Kinds, PersistMessage(d, k) PROVE Kept
    <3>1. call[d].at # "idle"
      BY <2>1 DEF PersistMessage, Kinds
    <3>2. Throws(d) \/ \E at : Moves(d, at)
      BY <2>1 DEF PersistMessage
    <3> QED
      BY <3>1, <3>2, <1>2, <1>3
  <2>2. ASSUME PersistReceipt(d) PROVE Kept
    <3>1. call[d].at # "idle"
      BY <2>2 DEF PersistReceipt
    <3>2. Throws(d) \/ \E at : Moves(d, at)
      BY <2>2 DEF PersistReceipt
    <3> QED
      BY <3>1, <3>2, <1>2, <1>3
  <2>3. ASSUME Finish(d) PROVE Kept
    BY <2>3, <1>2 DEF Finish
  <2> QED
    BY <1>7, <2>1, <2>2, <2>3
<1>8. ASSUME Die \/ Restart
      PROVE  Kept
  <2>1. CASE Die
    BY <1>1, <2>1 DEF Die, Forget, Idle
  <2>2. CASE Restart
    BY <1>1, <2>2 DEF Restart
  <2> QED
    BY <1>8, <2>1, <2>2
<1>9. ASSUME NEW d \in Calls, NEW o \in Ops,
             OpenStaged(d, o) \/ PrepareStage(d, o) \/ VerifyStage(d, o) \/ PublishStage(d, o)
      PROVE  \/ Kept
             \/ /\ call'[c].op = o
                /\ \/ OpenStaged(c, o) /\ call'[c].stage = Open
                   \/ PrepareStage(c, o) /\ call'[c].stage = Prepare
                   \/ VerifyStage(c, o) /\ call'[c].stage = Verify
                   \/ PublishStage(c, o) /\ call'[c].stage = Publish /\ Awaits(c, o, Publish)
  <2>1. CASE OpenStaged(d, o)
    BY <1>4, <2>1, ConstantTypes DEF OpenStaged
  <2>2. CASE PrepareStage(d, o)
    BY <1>1, <1>4, <2>2, ConstantTypes DEF PrepareStage
  <2>3. CASE VerifyStage(d, o)
    BY <1>1, <1>4, <2>3, ConstantTypes DEF VerifyStage
  <2>4. CASE PublishStage(d, o)
    <3>1. Awaits(d, o, Publish) \/ call' = call
      BY <2>4 DEF PublishStage
    <3>2. Publish \in Stages
      BY ConstantTypes
    <3> QED
      BY <1>1, <1>4, <2>4, <3>1, <3>2
  <2> QED
    BY <1>9, <2>1, <2>2, <2>3, <2>4
<1> QED
  BY <1>5, <1>6, <1>7, <1>8, <1>9 DEF Next, Handle

LEMMA CallPreserved == ASSUME IInv, [Next]_vars PROVE CallInv'
<1> USE ConstantTypes
<1> TypeOK /\ CallInv
  BY DEF IInv
<1> SUFFICES ASSUME NEW c \in Calls, call'[c].at # "idle"
             PROVE  \E o \in Ops : /\ call'[c].op = o
                                   /\ call'[c].stage = Publish => Settled(o)'
                                   /\ call'[c].stage = Open => Started(o)'
  BY DEF CallInv, Settled, Started
<1>1. CASE /\ call[c].at # "idle"
           /\ call'[c].op = call[c].op /\ call'[c].stage = call[c].stage
  <2>1. PICK o \in Ops : /\ call[c].op = o
                         /\ call[c].stage = Publish => Settled(o)
                         /\ call[c].stage = Open => Started(o)
    BY <1>1 DEF CallInv
  <2>2. (Settled(o) => Settled(o)') /\ (Started(o) => Started(o)')
    BY ObjectsStay, EventsAccumulate
  <2> QED
    BY <1>1, <2>1, <2>2
<1>2. ASSUME NEW o \in Ops, OpenStaged(c, o)
      PROVE  Started(o)'
  BY <1>2, EventsAccumulate DEF OpenStaged
<1>3. ASSUME NEW o \in Ops, PublishStage(c, o), Awaits(c, o, Publish)
      PROVE  Settled(o)'
  <2>1. call' # call
    <3>1. call[c].at = "idle"
      BY <1>3 DEF PublishStage, Admits, Idle
    <3>2. call'[c].at = "request"
      BY <1>3 DEF Awaits, TypeOK
    <3> QED
      BY <3>1, <3>2
  <2>2. Publishes(o, <<"settled", FALSE>>)
    BY <1>3, <2>1 DEF PublishStage
  <2>3. ArtifactOf(o) \in Artifacts
    BY CustodyAssumption
  <2>4. object' = [object EXCEPT ![ArtifactOf(o)] = "settled"]
    BY <2>2 DEF Publishes
  <2> QED
    BY <2>3, <2>4 DEF Settled, TypeOK
<1> QED
  BY <1>1, <1>2, <1>3, CallSteps

LEMMA RequestPreserved == ASSUME IInv, [Next]_vars PROVE RequestInv'
<1> USE ConstantTypes
<1> TypeOK /\ CallInv /\ RequestInv
  BY DEF IInv
<1> SUFFICES ASSUME NEW o \in Ops
             PROVE  /\ support'[o][Publish]["request"] > 0 => Settled(o)'
                    /\ support'[o][Open]["request"] > 0 => Started(o)'
  BY DEF RequestInv
<1>1. Settled(o) => Settled(o)'
  BY ObjectsStay
<1>2. Started(o) => Started(o)'
  BY EventsAccumulate
<1>3. ASSUME NEW i \in Stages, support'[o][i]["request"] # support[o][i]["request"]
      PROVE  \E c \in Calls : call[c].at # "idle" /\ call[c].op = o /\ call[c].stage = i
  <2>1. PICK c \in Calls, k \in Kinds : PersistMessage(c, k)
    BY <1>3, Writers
  <2>2. \E l : support' = [support EXCEPT ![call[c].op][call[c].stage][k] = l]
    BY <1>3, <2>1 DEF PersistMessage
  <2>3. support \in [Ops -> [Stages -> [Kinds -> 0 .. 3]]]
    BY DEF TypeOK
  <2>4. call[c].op = o /\ call[c].stage = i
    <3>1. PICK l : support' = [support EXCEPT ![call[c].op][call[c].stage][k] = l]
      BY <2>2
    <3>2. call[c].op # o => support'[o] = support[o]
      BY <2>3, <3>1
    <3>3. call[c].stage # i => support'[o][i] = support[o][i]
      BY <2>3, <3>1
    <3> QED
      BY <1>3, <3>2, <3>3
  <2>5. call[c].at # "idle"
    BY <2>1 DEF PersistMessage, Kinds
  <2> QED
    BY <2>4, <2>5
<1>4. support'[o][Publish]["request"] > 0 => Settled(o)
  BY <1>3 DEF CallInv, RequestInv
<1>5. support'[o][Open]["request"] > 0 => Started(o)
  BY <1>3 DEF CallInv, RequestInv
<1> QED
  BY <1>1, <1>2, <1>4, <1>5

LEMMA EvidencePreserved == ASSUME IInv, [Next]_vars PROVE EvidenceInv'
<1> USE ConstantTypes
<1> TypeOK /\ EvidenceInv
  BY DEF IInv
<1> SUFFICES ASSUME NEW o \in Ops
             PROVE  /\ receipt'[o].level > 0 => SevenRecords(o)'
                    /\ event'[o][Durable].level > 0 => Finalized(o)'
  BY DEF EvidenceInv
<1>1. receipt'[o] # receipt[o] => SevenRecords(o)
  <2>1. ASSUME NEW c \in Calls, PersistReceipt(c), receipt'[o] # receipt[o]
        PROVE  SevenRecords(o)
    BY <2>1 DEF PersistReceipt, TypeOK
  <2>2. ASSUME NEW p \in Ops, NEW v \in Versions, PersistPrimaryReceipt(p, v),
               receipt'[o] # receipt[o]
        PROVE  SevenRecords(o)
    BY <2>2 DEF PersistPrimaryReceipt, TypeOK
  <2> QED
    BY <2>1, <2>2, Writers
<1>2. event'[o][Durable] # event[o][Durable] => Finalized(o)
  <2>1. ASSUME NEW p \in Ops, NEW e \in Events, NEW v \in Versions, AppendSemantic(p, e, v),
               event'[o][Durable] # event[o][Durable]
        PROVE  Finalized(o)
    <3>1. \E x : event' = [event EXCEPT ![p][e] = x]
      BY <2>1 DEF AppendSemantic
    <3>2. event \in [Ops -> [Events -> Exchange]] /\ Durable \in Events
      BY DEF TypeOK, Events, Durable
    <3>3. p = o /\ e = Durable
      BY <2>1, <3>1, <3>2
    <3> QED
      BY <2>1, <3>3 DEF AppendSemantic, Durable
  <2> QED
    BY <2>1, Writers
<1>3. (SevenRecords(o) => SevenRecords(o)') /\ (Finalized(o) => Finalized(o)')
  BY EvidenceStays
<1> QED
  BY <1>1, <1>2, <1>3 DEF EvidenceInv

LEMMA NextInvariant == IInv /\ [Next]_vars => IInv'
<1> SUFFICES ASSUME IInv, [Next]_vars PROVE IInv'
  OBVIOUS
<1>1. TypeOK'
  BY NextTypes DEF IInv
<1> QED
  BY <1>1, CallPreserved, RequestPreserved, EvidencePreserved DEF IInv

\* The invariant holds in every reachable state.
THEOREM Invariance == Spec => []IInv
  BY InitInvariant, NextInvariant, PTL DEF Spec

\* A receipt names a settled object and rests on the seven records before it
\* and on the started operation; a durability event rests on all of it.
THEOREM ReceiptsAreFounded == Spec => []ReceiptFounded
<1>1. IInv => ReceiptFounded
  <2> SUFFICES ASSUME IInv, NEW o \in Ops
               PROVE  /\ receipt[o].level >= 2 =>
                           Settled(o) /\ SevenRecords(o) /\ Started(o)
                      /\ event[o][Durable].level >= 2 => Finalized(o)
    BY DEF ReceiptFounded, Settled, Durable
  <2>1. receipt[o].level \in 0 .. 3 /\ event[o][Durable].level \in 0 .. 3
    BY DEF IInv, TypeOK, Exchange, Events, Durable
  <2>2. SevenRecords(o) => support[o][Publish]["request"] = 3 /\ support[o][Open]["request"] = 3
    BY ConstantTypes DEF SevenRecords, Complete, Kinds
  <2> QED
    BY <2>1, <2>2 DEF IInv, RequestInv, EvidenceInv
<1> QED
  BY <1>1, Invariance, PTL

\* No request ever takes the place of one that is protected: not before its
\* effect, not after it, not in another process over the same root.
THEOREM ReservationsHold == Spec => ReservationHolds
<1> DEFINE Kept == \A o \in Ops :
                     /\ receipt[o].level > 0 => receipt'[o].version = receipt[o].version
                     /\ \A e \in Events :
                          event[o][e].level > 0 => event'[o][e].version = event[o][e].version
<1>1. TypeOK /\ [Next]_vars => Kept
  <2> SUFFICES ASSUME TypeOK, [Next]_vars, NEW o \in Ops
               PROVE  /\ receipt[o].level > 0 => receipt'[o].version = receipt[o].version
                      /\ \A e \in Events :
                           event[o][e].level > 0 => event'[o][e].version = event[o][e].version
    OBVIOUS
  <2>1. ASSUME NEW x \in Exchange, NEW v \in Versions, ~Reserved(x, v), x.level > 0,
               NEW w \in Outcomes(x.level)
        PROVE  Entered(v, w.level).version = x.version
    <3>1. x.level \in 1 .. 3 /\ x.version = v
      BY <2>1 DEF Reserved, Exchange
    <3>2. w.level \in 1 .. 3
      BY <3>1, OutcomeType
    <3> QED
      BY <3>1, <3>2, EnteredType
  <2>2. ASSUME receipt[o].level > 0, receipt'[o] # receipt[o]
        PROVE  receipt'[o].version = receipt[o].version
    <3>1. ASSUME NEW c \in Calls, PersistReceipt(c)
          PROVE  FALSE
      BY <2>2, <3>1 DEF PersistReceipt, TypeOK
    <3>2. PICK p \in Ops, v \in Versions : PersistPrimaryReceipt(p, v)
      BY <2>2, <3>1, Writers
    <3>3. PICK w \in Outcomes(receipt[p].level) : receipt' = [receipt EXCEPT ![p] = Entered(v, w.level)]
      BY <3>2 DEF PersistPrimaryReceipt
    <3>4. p = o /\ receipt'[o] = Entered(v, w.level) /\ receipt[o] \in Exchange
      BY <2>2, <3>3 DEF TypeOK
    <3> QED
      BY <2>1, <2>2, <3>2, <3>4 DEF PersistPrimaryReceipt
  <2>3. ASSUME NEW e \in Events, event[o][e].level > 0, event'[o][e] # event[o][e]
        PROVE  event'[o][e].version = event[o][e].version
    <3>1. PICK p \in Ops, f \in Events, v \in Versions : AppendSemantic(p, f, v)
      BY <2>3, Writers
    <3>2. PICK w \in Outcomes(event[p][f].level) : event' = [event EXCEPT ![p][f] = Entered(v, w.level)]
      BY <3>1 DEF AppendSemantic
    <3>3. event \in [Ops -> [Events -> Exchange]]
      BY DEF TypeOK
    <3>4. p = o /\ f = e
      BY <2>3, <3>2, <3>3
    <3>5. event'[o][e] = Entered(v, w.level) /\ event[o][e] \in Exchange
      BY <3>2, <3>3, <3>4
    <3> QED
      BY <2>1, <2>3, <3>1, <3>4, <3>5 DEF AppendSemantic
  <2> QED
    BY <2>2, <2>3
<1>2. Spec => [][Kept]_vars
  BY <1>1, TypeCorrect, PTL DEF Spec
<1> QED
  BY <1>2 DEF ReservationHolds
-----------------------------------------------------------------------------
(* The custody stream: what a process that has begun a mutation knows *)

Busy(c) == call[c].at # "idle"

\* A call whose effect has begun, and a staged access whose request is
\* protected.
Acting(c) == Busy(c) /\ call[c].stage # Open
Opening(c) == Busy(c) /\ call[c].stage = Open /\ call[c].at # "request"

\* The mutations this process has begun and not finished.
Unfinished == {m \in Ops \X Stages : m[2] \in done[m[1]] /\ stream[m[1]] < m[2]}

\* There is one at most: the flag is up or the CAS is latched, and the call
\* that goes on is the one that began it.
MutationInv ==
    /\ \A m, n \in Unfinished : m = n
    /\ Unfinished # {} => inFlight \/ ~cas
    /\ ~up => \A o \in Ops : done[o] = {}
    /\ \A c \in Calls : Acting(c) =>
         /\ inFlight
         /\ call[c].stage \in done[call[c].op]
         /\ stream[call[c].op] = call[c].stage - 1
    /\ \A c, d \in Calls : Acting(c) /\ Acting(d) => c = d

\* One call opens the stream of an operation.
OpeningInv ==
    \A c \in Calls : Opening(c) =>
        /\ stream[call[c].op] = 0
        /\ \A d \in Calls : Opening(d) /\ call[d].op = call[c].op => d = c

\* The messages a call has behind it are acknowledged, and so are those of
\* every finished stage.
MessageInv ==
    /\ \A c \in Calls : Busy(c) =>
         /\ call[c].at # "request" => Complete(call[c].op, call[c].stage, "request")
         /\ call[c].at = "finish" => Complete(call[c].op, call[c].stage, "response")
         /\ call[c].at \in {"response", "finish"} /\ call[c].stage = Publish =>
              receipt[call[c].op].level = 3
    /\ \A o \in Ops : \A i \in Stages : i <= stream[o] =>
         Complete(o, i, "request") /\ Complete(o, i, "response")

\* The records on disk are in the order of the stream.
OrderInv ==
    \A o \in Ops : \A i \in Stages :
        /\ support[o][i]["response"] > 0 => Complete(o, i, "request")
        /\ support[o][i]["request"] > 0 => \A j \in Stages : j < i => Complete(o, j, "response")
        /\ support[o][i]["response"] > 0 /\ i = Publish => receipt[o].level = 3

\* An effect is begun by the process that protects the staged access, and no
\* other ever gets past it.
OnceInv ==
    /\ performed \in [Ops -> [Stages -> 0 .. 1]]
    /\ \A o \in Ops : \A i \in Stages : performed[o][i] > 0 =>
         /\ support[o][Open]["request"] > 0
         /\ stream[o] > 0 \/ (\E c \in Calls : Opening(c) /\ call[c].op = o) => i \in done[o]

StreamInv == MutationInv /\ OpeningInv /\ MessageInv /\ OrderInv /\ OnceInv

\* Types of what the proofs below read of a call and of a stream.
LEMMA CallFacts ==
    ASSUME IInv, NEW c \in Calls
    PROVE  /\ call[c].stage \in 1 .. 4 /\ (Busy(c) => call[c].op \in Ops)
           /\ call[c] = Idle => ~Busy(c)
  BY ConstantTypes DEF IInv, TypeOK, CallInv, Busy, CallState, Idle

LEMMA StreamFacts ==
    ASSUME IInv, NEW o \in Ops, NEW i \in Stages, NEW k \in Kinds
    PROVE  stream[o] \in 0 .. 4 /\ support[o][i][k] \in 0 .. 3 /\ done[o] \subseteq 1 .. 4
  BY ConstantTypes DEF IInv, TypeOK

\* Nothing is begun in the first state.
LEMMA StreamInit == Init => StreamInv
  BY ConstantTypes DEF Init, StreamInv, MutationInv, OpeningInv, MessageInv, OrderInv, OnceInv, Busy,
    Acting, Opening, Unfinished, Idle, Kinds

\* Steps that leave the stream alone: events, receipts a client asks for,
\* expirations.
LEMMA ReceiptKeeps ==
    ASSUME IInv, StreamInv, UNCHANGED <<support, call, stream, done, performed, up, inFlight, cas>>,
           \A o \in Ops : receipt[o].level = 3 => receipt'[o].level = 3
    PROVE  StreamInv'
<1> USE ConstantTypes DEF StreamInv, Busy, Acting, Opening, Complete
<1>1. MutationInv'
  BY DEF MutationInv, Unfinished
<1>2. OpeningInv'
  BY DEF OpeningInv
<1>3. MessageInv'
  BY CallFacts DEF MessageInv
<1>4. OrderInv'
  BY DEF OrderInv
<1>5. OnceInv'
  BY DEF OnceInv
<1> QED
  BY <1>1, <1>2, <1>3, <1>4, <1>5

\* A staged access is requested: nothing is begun by it.
LEMMA OpenKeeps ==
    ASSUME IInv, StreamInv, NEW c \in Calls, NEW o \in Ops, OpenStaged(c, o)
    PROVE  StreamInv'
<1> USE ConstantTypes DEF StreamInv, Busy, Acting, Opening, Complete
<1>1. /\ UNCHANGED <<support, receipt, stream, done, performed, up, inFlight, cas>>
      /\ call'[c] = [op |-> o, stage |-> Open, at |-> "request"]
      /\ \A d \in Calls : d # c => call'[d] = call[d]
  BY DEF OpenStaged, Awaits, IInv, TypeOK, durable
<1>2. MutationInv'
  BY <1>1 DEF MutationInv, Unfinished
<1>3. OpeningInv'
  BY <1>1 DEF OpeningInv
<1>4. MessageInv'
  BY <1>1 DEF MessageInv
<1>5. OrderInv'
  BY <1>1 DEF OrderInv
<1>6. OnceInv'
  BY <1>1 DEF OnceInv
<1> QED
  BY <1>2, <1>3, <1>4, <1>5, <1>6

\* An effect begins: no other is unfinished, and it has not begun before.
LEMMA BeginKeeps ==
    ASSUME IInv, StreamInv, NEW c \in Calls, NEW o \in Ops, NEW i \in {Prepare, Verify, Publish},
           Admits(c, o, i), cas, Performs(o, i), UNCHANGED <<support, receipt, stream, up>>,
           \/ Awaits(c, o, i) /\ inFlight' = TRUE
           \/ call' = call /\ cas' = FALSE
    PROVE  StreamInv'
<1> USE ConstantTypes DEF StreamInv, Busy, Acting, Opening, Complete
<1>1. /\ up /\ ~inFlight /\ call[c].at = "idle" /\ stream[o] = i - 1 /\ i \in 2 .. 4
      /\ Unfinished = {} /\ \A d \in Calls : ~Acting(d)
  BY DEF Admits, MutationInv, Idle
<1>2. /\ done'[o] = done[o] \cup {i} /\ \A p \in Ops : p # o => done'[p] = done[p]
      /\ performed'[o][i] = performed[o][i] + 1
      /\ \A p \in Ops, j \in Stages : ~(p = o /\ j = i) => performed'[p][j] = performed[p][j]
      /\ performed' = [performed EXCEPT ![o][i] = @ + 1]
  BY DEF Performs, IInv, TypeOK, OnceInv
<1>3. Unfinished' = {<<o, i>>}
  BY <1>1, <1>2 DEF Unfinished
<1>4. \A d \in Calls : \/ call'[d] = call[d]
                       \/ /\ d = c /\ call'[d] = [op |-> o, stage |-> i, at |-> "request"]
                          /\ inFlight' = TRUE
  BY DEF Awaits, IInv, TypeOK
<1>5. \A d \in Calls : Acting(d)' => d = c /\ call'[c].op = o /\ call'[c].stage = i /\ inFlight'
  BY <1>1, <1>4
<1>6. \A d \in Calls : Opening(d)' => Opening(d) /\ call'[d] = call[d]
  BY <1>1, <1>4
<1>7. MutationInv'
  <2>1. inFlight' = TRUE \/ cas' = FALSE
    OBVIOUS
  <2>2. /\ \A m, n \in Unfinished' : m = n
        /\ Unfinished' # {} => inFlight' \/ ~cas'
    BY <1>3, <2>1
  <2>3. ~up' => \A p \in Ops : done'[p] = {}
    BY <1>1
  <2>4. \A d \in Calls : Acting(d)' =>
          /\ inFlight'
          /\ call'[d].stage \in done'[call'[d].op]
          /\ stream'[call'[d].op] = call'[d].stage - 1
    BY <1>1, <1>2, <1>5
  <2>5. \A d, e \in Calls : Acting(d)' /\ Acting(e)' => d = e
    BY <1>5
  <2> QED
    BY <2>2, <2>3, <2>4, <2>5 DEF MutationInv
<1>8. OpeningInv'
  BY <1>6 DEF OpeningInv
<1>9. MessageInv'
  BY <1>4 DEF MessageInv
<1>10. OrderInv'
  BY DEF OrderInv
<1>11. OnceInv'
  <2>1. performed[o][i] = 0
    <3>1. i \notin done[o]
      <4>1. <<o, i>> \in Ops \X Stages /\ stream[o] < i
        BY <1>1, StreamFacts
      <4> QED
        BY <1>1, <4>1 DEF Unfinished
    <3>2. ~(performed[o][i] > 0)
      BY <1>1, <3>1 DEF OnceInv
    <3> QED
      BY <1>1, <3>2 DEF OnceInv
  <2>2. performed' \in [Ops -> [Stages -> 0 .. 1]]
    BY <1>2, <2>1 DEF OnceInv
  <2>3. support[o][Open]["request"] = 3
    BY <1>1 DEF MessageInv
  <2>4. ASSUME NEW p \in Ops, NEW j \in Stages, performed'[p][j] > 0
        PROVE  /\ support[p][Open]["request"] > 0
               /\ stream[p] > 0 \/ (\E d \in Calls : Opening(d)' /\ call'[d].op = p) => j \in done'[p]
    <3>1. CASE p = o /\ j = i
      BY <1>2, <2>3, <3>1
    <3>2. CASE ~(p = o /\ j = i)
      BY <1>2, <1>6, <2>4, <3>2 DEF OnceInv
    <3> QED
      BY <3>1, <3>2
  <2> QED
    BY <2>2, <2>4 DEF OnceInv
<1> QED
  BY <1>7, <1>8, <1>9, <1>10, <1>11

\* A mutation fails before its effect: the flag may go up, the CAS latch.
LEMMA FailKeeps ==
    ASSUME IInv, StreamInv, UNCHANGED <<support, receipt, stream, call, done, performed, up>>,
           inFlight => inFlight', cas' => cas
    PROVE  StreamInv'
<1> USE ConstantTypes DEF StreamInv, Busy, Acting, Opening, Complete
<1>1. MutationInv'
  BY DEF MutationInv, Unfinished
<1>2. OpeningInv' /\ MessageInv'
  BY DEF OpeningInv, MessageInv
<1>3. OrderInv'
  BY DEF OrderInv
<1>4. OnceInv'
  BY DEF OnceInv
<1> QED
  BY <1>1, <1>2, <1>3, <1>4

LEMMA StageKeeps ==
    ASSUME IInv, StreamInv, NEW c \in Calls, NEW o \in Ops,
           PrepareStage(c, o) \/ VerifyStage(c, o) \/ PublishStage(c, o)
    PROVE  StreamInv'
<1>1. cas \in BOOLEAN /\ inFlight \in BOOLEAN
  BY DEF IInv, TypeOK
<1>2. CASE PrepareStage(c, o)
  <2>1. UNCHANGED <<support, receipt, stream, up>> /\ Admits(c, o, Prepare) /\ inFlight' = TRUE
    BY <1>2 DEF PrepareStage
  <2>2. CASE /\ cas /\ Performs(o, Prepare)
             /\ Awaits(c, o, Prepare) \/ (cas' = FALSE /\ call' = call)
    BY <2>1, <2>2, BeginKeeps
  <2>3. CASE UNCHANGED <<cas, call, done, performed>>
    BY <2>1, <2>3, FailKeeps
  <2> QED
    BY <1>2, <2>2, <2>3 DEF PrepareStage
<1>3. CASE VerifyStage(c, o)
  <2>1. UNCHANGED <<support, receipt, stream, up>> /\ Admits(c, o, Verify) /\ inFlight' = TRUE
    BY <1>3 DEF VerifyStage, durable
  <2>2. CASE cas /\ Performs(o, Verify) /\ Awaits(c, o, Verify)
    BY <2>1, <2>2, BeginKeeps
  <2>3. CASE ~(cas /\ Performs(o, Verify) /\ Awaits(c, o, Verify))
    <3>1. UNCHANGED <<call, done, performed>> /\ (cas' => cas)
      BY <1>1, <1>3, <2>3 DEF VerifyStage
    <3> QED
      BY <2>1, <3>1, FailKeeps
  <2> QED
    BY <2>2, <2>3
<1>4. CASE PublishStage(c, o)
  <2>1. UNCHANGED <<support, receipt, stream, up>> /\ Admits(c, o, Publish) /\ cas
    BY <1>4 DEF PublishStage
  <2>2. Performs(o, Publish)
    BY <1>4 DEF PublishStage, Publishes
  <2>3. (Awaits(c, o, Publish) /\ inFlight' = TRUE) \/ (cas' = FALSE /\ call' = call)
    BY <1>4 DEF PublishStage
  <2> QED
    BY <2>1, <2>2, <2>3, BeginKeeps
<1> QED
  BY <1>2, <1>3, <1>4

\* A message is protected by the call whose turn it is, after the messages
\* before it; only the first staged access of an operation gets further.
LEMMA MessageKeeps ==
    ASSUME IInv, StreamInv, NEW c \in Calls, NEW k \in Kinds, PersistMessage(c, k)
    PROVE  StreamInv'
<1> DEFINE o == call[c].op
           i == call[c].stage
<1> USE ConstantTypes DEF StreamInv, Busy, Acting, Opening
<1>1. /\ UNCHANGED <<receipt, stream, done, performed, up, inFlight, cas>>
      /\ call[c].at = k /\ o \in Ops /\ i \in Stages
  BY CallFacts DEF PersistMessage, Kinds
<1>2. \/ /\ support[o][i][k] = 0
         /\ \E l \in 0 .. 3 : /\ support' = [support EXCEPT ![o][i][k] = l]
                              /\ Throws(c) \/ (l = 3 /\ Moves(c, After(i, k)))
      \/ support' = support /\ Throws(c)
  <2>1. support[o][i][k] \in 0 .. 3
    BY <1>1, StreamFacts
  <2>2. \A w \in Outcomes(support[o][i][k]) : w.level \in 0 .. 3 /\ (w.how = "done" => w.level = 3)
    BY <2>1, OutcomeType DEF Outcomes
  <2> QED
    BY <2>2 DEF PersistMessage, Persists
<1>3. /\ \A d \in Calls : d # c => call'[d] = call[d]
      /\ Throws(c) => call'[c] = Idle
      /\ Moves(c, After(i, k)) => call'[c] = [call[c] EXCEPT !.at = After(i, k)]
      /\ Throws(c) \/ Moves(c, After(i, k))
  BY <1>2 DEF Throws, Moves, IInv, TypeOK
<1>4. \A d \in Calls : Busy(d)' => Busy(d) /\ call'[d].op = call[d].op /\ call'[d].stage = call[d].stage
  <2>1. call[c] \in CallState
    BY DEF IInv, TypeOK
  <2> QED
    BY <1>1, <1>3, <2>1 DEF Idle, CallState, Kinds
<1>5. \/ support' = support /\ Throws(c)
      \/ /\ support[o][i][k] = 0
         /\ Throws(c) \/ (support'[o][i][k] = 3 /\ Moves(c, After(i, k)))
         /\ \A p \in Ops, j \in Stages, m \in Kinds :
              ~(p = o /\ j = i /\ m = k) => support'[p][j][m] = support[p][j][m]
  <2>1. ASSUME NEW l, support' = [support EXCEPT ![o][i][k] = l]
        PROVE  /\ support'[o][i][k] = l
               /\ \A p \in Ops, j \in Stages, m \in Kinds :
                    ~(p = o /\ j = i /\ m = k) => support'[p][j][m] = support[p][j][m]
    <3> HIDE DEF o, i
    <3> QED
      BY <1>1, <2>1 DEF IInv, TypeOK
  <2> QED
    BY <1>2, <2>1
<1>6. \A p \in Ops, j \in Stages, m \in Kinds :
        \/ support'[p][j][m] = support[p][j][m]
        \/ p = o /\ j = i /\ m = k /\ support[p][j][m] = 0
  BY <1>5
<1>7. \A p \in Ops, j \in Stages, m \in Kinds : Complete(p, j, m) => Complete(p, j, m)'
  BY <1>6 DEF Complete
<1>8. Busy(c)' => /\ call'[c].at = After(i, k) /\ support[o][i][k] = 0 /\ support'[o][i][k] = 3
  <2>1. call[c] \in CallState
    BY DEF IInv, TypeOK
  <2> QED
    BY <1>1, <1>3, <1>5, <2>1 DEF Idle, CallState
<1>9. MutationInv'
  BY <1>1, <1>4 DEF MutationInv, Unfinished
<1>10. OpeningInv'
  <2>1. CASE Opening(c)' /\ k = "request"
    <3>1. i = Open /\ support[o][Open]["request"] = 0
      BY <1>4, <1>8, <2>1
    <3>2. stream[o] = 0
      BY <1>1, <3>1, StreamFacts DEF MessageInv, Complete, Kinds
    <3>3. \A d \in Calls : Opening(d) => call[d].op # o
      BY <3>1 DEF MessageInv, Complete
    <3>4. \A d \in Calls : Opening(d)' /\ d # c => Opening(d) /\ call'[d] = call[d]
      BY <1>3
    <3> QED
      BY <1>1, <1>4, <2>1, <3>2, <3>3, <3>4 DEF OpeningInv
  <2>2. CASE ~(Opening(c)' /\ k = "request")
    <3>1. \A d \in Calls : Opening(d)' => Opening(d) /\ call'[d].op = call[d].op
      BY <1>1, <1>3, <1>4, <2>2 DEF Kinds
    <3> QED
      BY <1>1, <3>1 DEF OpeningInv
  <2> QED
    BY <2>1, <2>2
<1>11. MessageInv'
  <2>1. ASSUME NEW d \in Calls, Busy(d)'
        PROVE  /\ call'[d].at # "request" => support'[call'[d].op][call'[d].stage]["request"] = 3
               /\ call'[d].at = "finish" => support'[call'[d].op][call'[d].stage]["response"] = 3
               /\ call'[d].at \in {"response", "finish"} /\ call'[d].stage = Publish =>
                    receipt'[call'[d].op].level = 3
    <3>1. Busy(d) /\ call'[d].op = call[d].op /\ call'[d].stage = call[d].stage /\ call[d].op \in Ops
      BY <1>4, <2>1, CallFacts
    <3>2. CASE d # c
      <4>1. call'[d] = call[d] /\ call[d].stage \in Stages
        BY <1>3, <3>2, CallFacts
      <4>2. /\ call[d].at # "request" => Complete(call[d].op, call[d].stage, "request")
            /\ call[d].at = "finish" => Complete(call[d].op, call[d].stage, "response")
            /\ call[d].at \in {"response", "finish"} /\ call[d].stage = Publish =>
                 receipt[call[d].op].level = 3
        BY <3>1 DEF MessageInv
      <4> QED
        BY <1>1, <1>7, <3>1, <4>1, <4>2 DEF Complete, Kinds
    <3>3. CASE d = c
      <4>1. support'[o][i][k] = 3 /\ call'[c].at = After(i, k)
        BY <1>8, <2>1, <3>3
      <4>2. CASE k = "request"
        BY <1>1, <3>1, <3>3, <4>1, <4>2 DEF After
      <4>3. CASE k = "response"
        <5>1. Complete(o, i, "request") /\ (i = Publish => receipt[o].level = 3)
          BY <1>1, <3>1, <3>3, <4>3 DEF MessageInv
        <5>2. support'[o][i]["request"] = 3
          BY <1>1, <1>7, <5>1 DEF Kinds, Complete
        <5> QED
          BY <1>1, <3>1, <3>3, <4>1, <4>3, <5>1, <5>2 DEF After
      <4> QED
        BY <4>2, <4>3 DEF Kinds
    <3> QED
      BY <3>2, <3>3
  <2>2. \A p \in Ops : \A j \in Stages : j <= stream[p] =>
          Complete(p, j, "request")' /\ Complete(p, j, "response")'
    BY <1>7 DEF MessageInv, Kinds
  <2> QED
    BY <1>1, <2>1, <2>2 DEF MessageInv, Complete
<1>12. OrderInv'
  <2>1. ASSUME NEW p \in Ops, NEW j \in Stages, support'[p][j]["response"] > 0
        PROVE  Complete(p, j, "request")' /\ (j = Publish => receipt'[p].level = 3)
    <3>1. CASE support'[p][j]["response"] = support[p][j]["response"]
      BY <1>1, <1>7, <2>1, <3>1 DEF OrderInv, Kinds
    <3>2. CASE support'[p][j]["response"] # support[p][j]["response"]
      <4>1. p = o /\ j = i /\ k = "response"
        BY <1>6, <3>2 DEF Kinds
      <4>2. Complete(o, i, "request") /\ (i = Publish => receipt[o].level = 3)
        BY <1>1, <4>1 DEF MessageInv
      <4> QED
        BY <1>1, <1>7, <4>1, <4>2 DEF Kinds
    <3> QED
      BY <3>1, <3>2
  <2>2. ASSUME NEW p \in Ops, NEW j \in Stages, support'[p][j]["request"] > 0,
               NEW h \in Stages, h < j
        PROVE  Complete(p, h, "response")'
    <3>1. CASE support'[p][j]["request"] = support[p][j]["request"]
      BY <1>7, <2>2, <3>1 DEF OrderInv, Kinds
    <3>2. CASE support'[p][j]["request"] # support[p][j]["request"]
      <4>1. p = o /\ j = i /\ k = "request"
        BY <1>6, <3>2 DEF Kinds
      <4>2. stream[o] = i - 1
        BY <1>1, <2>2, <4>1 DEF MutationInv
      <4>3. Complete(o, h, "response")
        BY <1>1, <2>2, <4>1, <4>2 DEF MessageInv
      <4> QED
        BY <1>7, <4>1, <4>3 DEF Kinds
    <3> QED
      BY <3>1, <3>2
  <2> QED
    BY <2>1, <2>2 DEF OrderInv
<1>13. OnceInv'
  <2>1. ASSUME NEW p \in Ops, NEW j \in Stages, performed[p][j] > 0
        PROVE  support'[p][Open]["request"] > 0
    BY <1>6, <2>1 DEF OnceInv, Kinds
  <2>2. ASSUME NEW p \in Ops, NEW j \in Stages, performed[p][j] > 0,
               NEW d \in Calls, Opening(d)', call'[d].op = p
        PROVE  Opening(d) /\ call[d].op = p
    <3>1. Busy(d) /\ call'[d].op = call[d].op /\ call'[d].stage = call[d].stage
      BY <1>4, <2>2
    <3>2. CASE d # c
      BY <1>3, <2>2, <3>2
    <3>3. CASE d = c /\ k = "request"
      <4>1. support[p][Open]["request"] = 0
        BY <1>8, <2>2, <3>1, <3>3
      <4> QED
        BY <2>2, <4>1 DEF OnceInv
    <3>4. CASE d = c /\ k # "request"
      BY <1>1, <2>2, <3>1, <3>4
    <3> QED
      BY <3>2, <3>3, <3>4
  <2> QED
    BY <1>1, <2>1, <2>2 DEF OnceInv
<1> QED
  BY <1>9, <1>10, <1>11, <1>12, <1>13

\* The receipt of a publication, then its response.
LEMMA PublicationReceiptKeeps ==
    ASSUME IInv, StreamInv, NEW c \in Calls, PersistReceipt(c),
           \A o \in Ops : receipt[o].level = 3 => receipt'[o].level = 3
    PROVE  StreamInv'
<1> DEFINE o == call[c].op
<1> USE ConstantTypes DEF StreamInv, Busy, Acting, Opening, Complete
<1>1. /\ UNCHANGED <<support, stream, done, performed, up, inFlight, cas>>
      /\ call[c].at = "receipt" /\ o \in Ops
  BY CallFacts DEF PersistReceipt
<1>2. Throws(c) \/ (Moves(c, "response") /\ receipt'[o].level = 3)
  <2>1. ASSUME NEW w \in Outcomes(0), w.how = "done", receipt' = [receipt EXCEPT ![o] = Entered(1, w.level)]
        PROVE  receipt'[o].level = 3
    BY <1>1, <2>1 DEF Outcomes, Entered, IInv, TypeOK
  <2> QED
    BY <2>1 DEF PersistReceipt
<1>3. /\ \A d \in Calls : d # c => call'[d] = call[d]
      /\ \/ call'[c] = Idle
         \/ call'[c] = [call[c] EXCEPT !.at = "response"] /\ receipt'[o].level = 3
  BY <1>2 DEF Throws, Moves, IInv, TypeOK
<1>4. \A d \in Calls : Busy(d)' => /\ Busy(d) /\ call'[d].op = call[d].op /\ call'[d].stage = call[d].stage
                                  /\ (call'[d].at # "request" <=> call[d].at # "request")
                                  /\ (call'[d].at = "finish" <=> call[d].at = "finish")
                                  /\ \/ call'[d].at = call[d].at
                                     \/ d = c /\ receipt'[call[d].op].level = 3
  <2>1. call[c] \in CallState
    BY DEF IInv, TypeOK
  <2> QED
    BY <1>1, <1>3, <2>1 DEF Idle, CallState
<1>5. MutationInv'
  BY <1>1, <1>4 DEF MutationInv, Unfinished
<1>6. OpeningInv'
  BY <1>1, <1>4 DEF OpeningInv
<1>7. MessageInv'
  <2>1. ASSUME NEW d \in Calls, Busy(d)'
        PROVE  /\ call'[d].at # "request" => support'[call'[d].op][call'[d].stage]["request"] = 3
               /\ call'[d].at = "finish" => support'[call'[d].op][call'[d].stage]["response"] = 3
               /\ call'[d].at \in {"response", "finish"} /\ call'[d].stage = Publish =>
                    receipt'[call'[d].op].level = 3
    BY <1>1, <1>4, <2>1, CallFacts DEF MessageInv
  <2> QED
    BY <1>1, <2>1 DEF MessageInv
<1>8. OrderInv'
  BY <1>1 DEF OrderInv
<1>9. OnceInv'
  BY <1>1, <1>4 DEF OnceInv
<1> QED
  BY <1>5, <1>6, <1>7, <1>8, <1>9

\* A stage finishes: nothing is unfinished any more, unless it was a staged
\* access, which begins nothing.
LEMMA FinishKeeps ==
    ASSUME IInv, StreamInv, NEW c \in Calls, Finish(c)
    PROVE  StreamInv'
<1> DEFINE o == call[c].op
           i == call[c].stage
<1> USE ConstantTypes DEF StreamInv, Busy, Acting, Opening, Complete
<1>1. /\ UNCHANGED <<support, receipt, done, performed, up, cas>>
      /\ call[c].at = "finish" /\ o \in Ops /\ i \in 1 .. 4
      /\ inFlight' = (inFlight /\ i = Open)
      /\ \A d \in Calls : d # c => call'[d] = call[d]
      /\ call'[c].at = "idle"
  BY CallFacts DEF Finish, Throws, durable, IInv, TypeOK, Idle
<1>2. stream'[o] = i /\ \A p \in Ops : p # o => stream'[p] = stream[p]
  BY <1>1 DEF Finish, IInv, TypeOK
<1>3. stream[o] = i - 1
  BY <1>1 DEF MutationInv, OpeningInv
<1>4. \A d \in Calls : Busy(d)' => d # c /\ Busy(d) /\ call'[d] = call[d] /\ call[d].op \in Ops
  BY <1>1, CallFacts
<1>5. Unfinished' \subseteq Unfinished
  BY <1>1, <1>2, <1>3, StreamFacts DEF Unfinished
<1>6. \A d \in Calls : Acting(d)' => call[d].op # o /\ i = Open
  BY <1>1, <1>3, <1>4, CallFacts DEF MutationInv
<1>7. \A d \in Calls : Opening(d)' => call[d].op # o
  BY <1>1, <1>3, <1>4 DEF MutationInv, OpeningInv
<1>8. MutationInv'
  <2>1. i # Open => Unfinished' = {}
    <3>1. ASSUME i # Open, NEW m \in Unfinished'
          PROVE  FALSE
      <4>1. <<o, i>> \in Unfinished
        BY <1>1, <1>3, <3>1 DEF Unfinished, MutationInv
      <4>2. m = <<o, i>>
        BY <1>5, <3>1, <4>1 DEF MutationInv
      <4> QED
        BY <1>1, <1>2, <3>1, <4>2 DEF Unfinished
    <3> QED
      BY <3>1
  <2>2. \A m, n \in Unfinished' : m = n
    BY <1>5 DEF MutationInv
  <2>3. Unfinished' # {} => inFlight' \/ ~cas'
    BY <1>1, <1>5, <2>1 DEF MutationInv
  <2>4. \A d \in Calls : Acting(d)' =>
          /\ inFlight'
          /\ call'[d].stage \in done'[call'[d].op]
          /\ stream'[call'[d].op] = call'[d].stage - 1
    <3> SUFFICES ASSUME NEW d \in Calls, Acting(d)'
                 PROVE  /\ inFlight'
                        /\ call'[d].stage \in done'[call'[d].op]
                        /\ stream'[call'[d].op] = call'[d].stage - 1
      OBVIOUS
    <3>1. Acting(d) /\ call'[d] = call[d] /\ call[d].op \in Ops /\ call[d].op # o /\ i = Open
      BY <1>4, <1>6
    <3>2. /\ inFlight /\ call[d].stage \in done[call[d].op]
          /\ stream[call[d].op] = call[d].stage - 1
      BY <3>1 DEF MutationInv
    <3> QED
      BY <1>1, <1>2, <3>1, <3>2
  <2>5. \A d, e \in Calls : Acting(d)' /\ Acting(e)' => d = e
    BY <1>4 DEF MutationInv
  <2>6. ~up' => \A p \in Ops : done'[p] = {}
    BY <1>1 DEF MutationInv
  <2> QED
    BY <2>2, <2>3, <2>4, <2>5, <2>6 DEF MutationInv
<1>9. OpeningInv'
  BY <1>2, <1>4, <1>7 DEF OpeningInv
<1>10. MessageInv'
  <2>1. \A p \in Ops : \A j \in Stages : j <= stream'[p] =>
          Complete(p, j, "request") /\ Complete(p, j, "response")
    <3>1. Complete(o, i, "request") /\ Complete(o, i, "response")
      BY <1>1 DEF MessageInv
    <3>2. \A j \in Stages : j <= i => j = i \/ j <= stream[o]
      BY <1>1, <1>3
    <3> QED
      BY <1>2, <3>1, <3>2 DEF MessageInv
  <2> QED
    BY <1>1, <1>4, <2>1 DEF MessageInv
<1>11. OrderInv'
  BY <1>1 DEF OrderInv
<1>12. OnceInv'
  <2>1. stream[o] > 0 \/ Opening(c)
    BY <1>1, <1>3
  <2> QED
    BY <1>1, <1>2, <1>4, <2>1 DEF OnceInv
<1> QED
  BY <1>8, <1>9, <1>10, <1>11, <1>12

\* A process that dies forgets its stream, and nothing is in progress.
LEMMA DieKeeps ==
    ASSUME IInv, StreamInv, Die
    PROVE  StreamInv'
<1> USE ConstantTypes DEF StreamInv, Busy, Acting, Opening, Complete
<1>1. /\ UNCHANGED <<support, receipt, performed>> /\ ~up'
      /\ \A c \in Calls : call'[c].at = "idle"
      /\ \A o \in Ops : stream'[o] = 0 /\ done'[o] = {}
  BY DEF Die, Forget, durable, Idle
<1>2. MutationInv' /\ OpeningInv' /\ MessageInv'
  <2>1. MutationInv'
    BY <1>1 DEF MutationInv, Unfinished
  <2>2. OpeningInv'
    BY <1>1 DEF OpeningInv
  <2>3. MessageInv'
    BY <1>1 DEF MessageInv
  <2> QED
    BY <2>1, <2>2, <2>3
<1>3. OrderInv'
  BY <1>1 DEF OrderInv
<1>4. OnceInv'
  BY <1>1 DEF OnceInv
<1> QED
  BY <1>2, <1>3, <1>4

\* A restart reads the records and starts no stage.
LEMMA RestartKeeps ==
    ASSUME IInv, StreamInv, Restart
    PROVE  StreamInv'
<1> USE ConstantTypes DEF StreamInv, Busy, Acting, Opening, Complete
<1>1. ~up /\ up' /\ UNCHANGED <<support, receipt, performed, call, stream, done, inFlight>>
  BY DEF Restart
<1>2. MutationInv'
  BY <1>1 DEF MutationInv, Unfinished
<1>3. OpeningInv' /\ MessageInv'
  BY <1>1 DEF OpeningInv, MessageInv
<1>4. OrderInv'
  BY <1>1 DEF OrderInv
<1>5. OnceInv'
  BY <1>1 DEF OnceInv
<1> QED
  BY <1>2, <1>3, <1>4, <1>5

\* Every step keeps the stream in order.
LEMMA StreamPreserved == IInv /\ StreamInv /\ [Next]_vars => StreamInv'
<1> SUFFICES ASSUME IInv, StreamInv, [Next]_vars
             PROVE  StreamInv'
  OBVIOUS
<1>1. \A o \in Ops : receipt[o].level = 3 => receipt'[o].level = 3
  BY ReceiptsAccumulate DEF IInv
<1>2. CASE UNCHANGED vars
  BY <1>1, <1>2, ReceiptKeeps DEF vars, durable, memory
<1>3. ASSUME NEW o \in Ops, Client(o) \/ Expire(o) \/ Lapse(o)
      PROVE  StreamInv'
  <2>1. UNCHANGED <<support, call, stream, done, performed, up, inFlight, cas>>
    BY <1>3 DEF Client, AppendSemantic, PersistPrimaryReceipt, Expire, Lapse, durable, memory
  <2> QED
    BY <1>1, <2>1, ReceiptKeeps
<1>4. ASSUME NEW c \in Calls, Handle(c)
      PROVE  StreamInv'
  BY <1>1, <1>4, OpenKeeps, StageKeeps, MessageKeeps, PublicationReceiptKeeps, FinishKeeps DEF Handle
<1> QED
  BY <1>2, <1>3, <1>4, DieKeeps, RestartKeeps DEF Next

\* The stream invariant holds in every reachable state.
THEOREM StreamInvariance == Spec => [](IInv /\ StreamInv)
<1>1. Init => StreamInv
  BY StreamInit
<1>2. IInv /\ StreamInv /\ [Next]_vars => StreamInv'
  BY StreamPreserved
<1> QED
  BY <1>1, <1>2, Invariance, PTL DEF Spec

\* A set whose members are all equal has one at most.
LEMMA AtMostOne ==
    ASSUME NEW S, \A x, y \in S : x = y
    PROVE  Cardinality(S) <= 1
<1>1. CASE S = {}
  BY <1>1, FS_EmptySet
<1>2. CASE S # {}
  <2>1. PICK x : S = {x}
    BY <1>2
  <2> QED
    BY <2>1, FS_Singleton
<1> QED
  BY <1>1, <1>2

\* However the calls of all operations interleave and fail, one mutation at
\* most lacks its acknowledged chain, and a stage takes effect once.
THEOREM OneIsUnsettled == Spec => []OneUnsettled
<1>1. IInv /\ StreamInv => OneUnsettled
  <2> SUFFICES ASSUME IInv, StreamInv
               PROVE  OneUnsettled
    OBVIOUS
  <2> DEFINE Unsettled == {m \in Ops \X Stages :
                             m[2] \in done[m[1]] /\ \E k \in Kinds : ~Complete(m[1], m[2], k)}
  <2>1. Unsettled \subseteq Unfinished
    BY StreamFacts, ConstantTypes DEF StreamInv, MessageInv, Unfinished, Kinds
  <2>2. Cardinality(Unsettled) <= 1
    BY <2>1, AtMostOne DEF StreamInv, MutationInv
  <2>3. \A o \in Ops : \A i \in Stages : performed[o][i] <= 1
    BY DEF StreamInv, OnceInv
  <2> QED
    BY <2>2, <2>3 DEF OneUnsettled
<1> QED
  BY <1>1, StreamInvariance, PTL

\* Whatever whole exchanges the broker leaves when it dies, its constructor
\* accepts: none of its own checks can refuse what it has written.
THEOREM StoreReopens == Spec => []Reopenable
<1>1. IInv /\ StreamInv => Reopenable
  <2> SUFFICES ASSUME IInv, StreamInv, WholeExchanges, NEW o \in Ops
               PROVE  /\ Responses(o) \subseteq Requests(o)
                      /\ \A i \in Requests(o) : \A j \in 1 .. (i - 1) : j \in Responses(o)
                      /\ Requests(o) # {} => Started(o)
                      /\ Publish \in Responses(o) => receipt[o].level = 3
                      /\ receipt[o].level >= 1 => SevenRecords(o)
                      /\ event[o]["custody_object_durable"].level >= 1 => Finalized(o)
    BY DEF Reopenable, Admissible
  <2> USE ConstantTypes DEF StreamInv, OrderInv, Complete
  <2>1. Responses(o) \subseteq Requests(o)
    BY DEF Responses, Requests
  <2>2. ASSUME NEW i \in Requests(o), NEW j \in 1 .. (i - 1)
        PROVE  j \in Responses(o)
    BY DEF Responses, Requests
  <2>3. Requests(o) # {} => Started(o)
    <3>1. ASSUME NEW i \in Requests(o)
          PROVE  support[o][Open]["request"] > 0
      BY DEF Requests
    <3> QED
      BY <3>1 DEF IInv, RequestInv
  <2>4. Publish \in Responses(o) => receipt[o].level = 3
    BY DEF Responses
  <2>5. /\ receipt[o].level >= 1 => SevenRecords(o)
        /\ event[o]["custody_object_durable"].level >= 1 => Finalized(o)
    <3>1. receipt[o].level \in 0 .. 3 /\ event[o]["custody_object_durable"].level \in 0 .. 3
      BY DEF IInv, TypeOK, Exchange, Events
    <3> QED
      BY <3>1 DEF IInv, EvidenceInv, Durable
  <2> QED
    BY <2>1, <2>2, <2>3, <2>4, <2>5
<1> QED
  BY <1>1, StreamInvariance, PTL
=============================================================================

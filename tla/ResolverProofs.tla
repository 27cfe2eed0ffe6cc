---- MODULE ResolverProofs ----
(***************************************************************************)
(* That an assessment enters the journal only as it was authorized, and    *)
(* that what is retained always reconstructs, however calls fail and the   *)
(* process is killed: for any number of operations, versions, other        *)
(* records and faults.                                                     *)
(*                                                                         *)
(* The journal and the two namespaces only grow, and whoever appends to a  *)
(* namespace binds the record to the journal's tip: so the corrections     *)
(* are sorted by tip.  A place is requested once, hence every stage of an  *)
(* operation has its place to itself, and the checkpoint a request saw as  *)
(* the last is the one its own checkpoint follows.                         *)
(***************************************************************************)
EXTENDS ResolverProps, TLAPS

Kinds == {"checkpoint", "request", "broker", "transition", "link", "projection"}
Finalizing == {"broker", "transition", "checkpoint", "link", "projection"}
Appending == {"genesis", "attest", "authorize", "target", "receipt", "correspondence"} \cup Finalizing

Corrections == [kind : Kinds, op : Ops \cup {None}, version : Versions \cup {None}, tip : Nat]
Records == [control : Nat \cup {None}, request : BOOLEAN,
            response : [head : Nat, checkpoint : Nat] \cup {None}, attested : BOOLEAN]

Receipt == [op : Ops \cup {Other}, version : Versions \cup {None}]

\* Every variable holds what the code keeps there.
Types ==
  /\ journal \in Seq(Receipt)
  /\ bare \in BOOLEAN /\ revoked \in BOOLEAN /\ up \in BOOLEAN
  /\ anchor \in Nat \cup {None}
  /\ pairs \in [Ops -> Records]
  /\ correspondences \in Seq(Nat)
  /\ corrections \in Seq(Corrections)
  /\ proofs \in [Ops -> Nat \cup {None}]
  /\ call \in [step : Resolving \cup Appending \cup {"idle"}, op : Ops \cup {None},
               version : Versions \cup {None}, head : Nat]
  /\ faults \in Nat

\* This operation was requested, in this version, at this place of the journal.
Asked(op, v, t) == \E i \in DOMAIN corrections : corrections[i] = Correction("request", op, v, t)

\* Its records are all there, and were made of one head.
Resolved(o) ==
  /\ pairs[o].request
  /\ pairs[o].response \in [head : Nat, checkpoint : Nat]
  /\ pairs[o].control = pairs[o].response.head

RecordInv ==
  \A o \in Ops : /\ pairs[o].response = None \/ Resolved(o)
                 /\ proofs[o] # None => Resolved(o)

Sorted ==
  /\ \A i \in DOMAIN corrections : corrections[i].tip <= Tip
  /\ \A i, j \in DOMAIN corrections : i <= j => corrections[i].tip <= corrections[j].tip

\* Only the first correction, the genesis checkpoint, is nobody's.
Owned ==
  \A i \in DOMAIN corrections :
    IF i = 1 THEN corrections[i].kind = "checkpoint" /\ corrections[i].op = None
    ELSE corrections[i].op \in Ops

Unique ==
  \A i, j \in DOMAIN corrections :
    i # j /\ corrections[i].kind = corrections[j].kind
      => corrections[i].op # corrections[j].op /\ corrections[i].tip # corrections[j].tip

LastExists == Checkpoints # {} => \E k \in Checkpoints : \A j \in Checkpoints : j <= k

OrderInv == Sorted /\ Owned /\ Unique /\ LastExists

\* What a request saw, and what a stage stands on.
Grounded(i) ==
  corrections[i].kind = "request" => \E k \in Checkpoints : corrections[k].tip = corrections[i].tip

Follows(i) ==
  LET b == corrections[i] IN
  b.kind # "request" /\ i # 1 =>
    /\ \E a \in DOMAIN corrections :
         /\ a < i /\ corrections[a].kind = "request" /\ corrections[a].op = b.op
         /\ corrections[a].version = b.version /\ b.tip = corrections[a].tip + 1
    /\ Corresponds(b.tip) /\ b.tip \in Receipts(b.op)

Staged ==
  \A op \in Ops :
    /\ Retained("broker", op) => Retained("request", op)
    /\ Retained("transition", op) => Retained("broker", op)
    /\ Retained("checkpoint", op) => Retained("transition", op)
    /\ Retained("link", op) => Retained("checkpoint", op)
    /\ Retained("projection", op) => Retained("link", op)

StageInv == (\A i \in DOMAIN corrections : Grounded(i) /\ Follows(i)) /\ Staged

JournalInv ==
  \A i \in DOMAIN journal : journal[i].op \in Ops =>
    LET op == journal[i].op IN
    /\ Asked(op, journal[i].version, i - 1)
    /\ Resolved(op) /\ pairs[op].response.head = i - 1 /\ pairs[op].attested

Advanced(op, v) == \E t \in Nat : Asked(op, v, t) /\ t + 1 \in Receipts(op) /\ Corresponds(t + 1)

CallInv ==
  LET s == call.step op == call.op IN
  /\ s # "idle" => op \in Ops
  /\ s \in Resolving => Receipts(op) = {} /\ proofs[op] = None
  /\ s \in {"control", "request"} => ~pairs[op].request
  /\ s \in {"request", "response"} => pairs[op].control = call.head
  /\ s = "response" => pairs[op].request
  /\ s \in Appending => Resolved(op)
  /\ s \in {"authorize", "target", "receipt"} => pairs[op].attested /\ pairs[op].response.head = Tip
  /\ s = "genesis" => Checkpoints = {}
  /\ s \in {"attest", "authorize"} => Checkpoints # {}
  /\ s \in {"target", "receipt"} => Asked(op, call.version, Tip)
  /\ s \in Finalizing => Advanced(op, call.version)
  /\ s = "transition" => Retained("broker", op)
  /\ s = "checkpoint" => Retained("transition", op)
  /\ s = "link" => Retained("checkpoint", op)
  /\ s = "projection" => Retained("link", op)

IInv == Types /\ RecordInv /\ OrderInv /\ StageInv /\ JournalInv /\ CallInv

----------------------------------------------------------------------------
(* What grows.                                                             *)

\* The journal and the two namespaces are extended, if they change at all.
Grows ==
  /\ \A i \in DOMAIN journal : i \in DOMAIN journal' /\ journal'[i] = journal[i]
  /\ \A i \in DOMAIN corrections : i \in DOMAIN corrections' /\ corrections'[i] = corrections[i]
  /\ \A i \in DOMAIN correspondences : i \in DOMAIN correspondences' /\ correspondences'[i] = correspondences[i]

LEMMA AppendGrows ==
    ASSUME NEW S, NEW s \in Seq(S), NEW e \in S, NEW t, t = Append(s, e)
    PROVE  /\ t \in Seq(S) /\ Len(t) = Len(s) + 1
           /\ DOMAIN t = DOMAIN s \cup {Len(s) + 1} /\ Len(s) + 1 \notin DOMAIN s
           /\ t[Len(s) + 1] = e /\ \A i \in DOMAIN s : t[i] = s[i] /\ i <= Len(s)
  OBVIOUS

LEMMA WhatGrowsStays ==
    ASSUME Grows
    PROVE  /\ \A k, o : Retained(k, o) => Retained(k, o)'
           /\ \A o, v, t : Asked(o, v, t) => Asked(o, v, t)'
           /\ \A t : Corresponds(t) => Corresponds(t)'
           /\ \A o : Receipts(o) \subseteq Receipts(o)'
           /\ Checkpoints \subseteq Checkpoints'
  BY DEF Grows, Retained, Asked, Corresponds, Receipts, Checkpoints, Correction

LEMMA CorrectionTypes ==
    ASSUME Types
    PROVE  \A i \in DOMAIN corrections :
             /\ i \in Nat \ {0} /\ corrections[i] \in Corrections /\ corrections[i].tip \in Nat
             /\ corrections[i] = Correction(corrections[i].kind, corrections[i].op,
                                            corrections[i].version, corrections[i].tip)
<1> TAKE i \in DOMAIN corrections
<1>1. i \in Nat \ {0} /\ corrections[i] \in Corrections
  BY DEF Types
<1> QED
  BY <1>1 DEF Corrections, Correction

\* Under uniqueness the request of an operation is the one there is.
LEMMA TheRequest ==
    ASSUME Types, Unique, NEW op \in Ops
    PROVE  /\ Retained("request", op) => Asked(op, RequestOf(op).version, RequestOf(op).tip)
           /\ \A v, t : Asked(op, v, t) => /\ Retained("request", op)
                                           /\ RequestOf(op) = Correction("request", op, v, t)
<1> DEFINE P(i) == i \in DOMAIN corrections /\ corrections[i].kind = "request" /\ corrections[i].op = op
<1>1. ASSUME NEW i, P(i) PROVE RequestOf(op) = corrections[i]
  <2>1. \A j : P(j) => j = i
    BY <1>1 DEF Unique
  <2> QED
    BY <1>1, <2>1 DEF RequestOf
<1>2. ASSUME NEW i, P(i)
      PROVE  corrections[i] = Correction("request", op, corrections[i].version, corrections[i].tip)
  BY <1>2, CorrectionTypes
<1>3. ASSUME Retained("request", op) PROVE Asked(op, RequestOf(op).version, RequestOf(op).tip)
  <2>1. PICK i : P(i)
    BY <1>3 DEF Retained
  <2> QED
    BY <2>1, <1>1, <1>2 DEF Asked
<1>4. ASSUME NEW v, NEW t, Asked(op, v, t)
      PROVE  Retained("request", op) /\ RequestOf(op) = Correction("request", op, v, t)
  <2>1. PICK i \in DOMAIN corrections : corrections[i] = Correction("request", op, v, t)
    BY <1>4 DEF Asked
  <2>2. P(i)
    BY <2>1 DEF Correction
  <2> QED
    BY <2>1, <2>2, <1>1 DEF Retained
<1> QED
  BY <1>3, <1>4

LEMMA TheLastCheckpoint ==
    ASSUME Types, LastExists, Checkpoints # {}
    PROVE  /\ Max(Checkpoints) \in Checkpoints /\ Max(Checkpoints) \in Nat
           /\ \A j \in Checkpoints : j <= Max(Checkpoints)
<1>1. PICK k \in Checkpoints : \A j \in Checkpoints : j <= k
  BY DEF LastExists
<1>2. Checkpoints \subseteq Nat
  BY DEF Types, Checkpoints
<1>3. \A x \in Checkpoints : (\A y \in Checkpoints : x >= y) => x = k
  BY <1>1, <1>2
<1>4. Max(Checkpoints) = k
  BY <1>1, <1>2, <1>3 DEF Max
<1> QED
  BY <1>1, <1>2, <1>4

----------------------------------------------------------------------------
(* A correction is appended: to the order, and to the stages.              *)

LEMMA AppendKeepsOrder ==
    ASSUME Types, OrderInv, UNCHANGED journal, NEW r \in Corrections,
           corrections' = Append(corrections, r), r.tip = Tip,
           IF corrections = <<>> THEN r.kind = "checkpoint" /\ r.op = None ELSE r.op \in Ops,
           \A i \in DOMAIN corrections :
             corrections[i].kind = r.kind => corrections[i].op # r.op /\ corrections[i].tip # r.tip
    PROVE  OrderInv'
<1> DEFINE n == Len(corrections) + 1
<1>1. /\ DOMAIN corrections' = DOMAIN corrections \cup {n} /\ n \notin DOMAIN corrections
      /\ corrections'[n] = r /\ \A i \in DOMAIN corrections : corrections'[i] = corrections[i]
      /\ \A i \in DOMAIN corrections : i < n /\ i \in Nat
      /\ n \in Nat
  BY AppendGrows DEF Types
<1>2. Tip' = Tip /\ Tip \in Nat
  BY DEF Tip, Types
<1>3. \A i \in DOMAIN corrections : corrections[i].tip \in Nat
  BY CorrectionTypes
<1> HIDE DEF n
<1>4. Sorted'
  BY <1>1, <1>2, <1>3 DEF OrderInv, Sorted
<1>5. Owned'
  <2>1. corrections = <<>> <=> n = 1
    BY DEF n, Types
  <2> QED
    BY <1>1, <2>1 DEF OrderInv, Owned
<1>6. Unique'
  BY <1>1 DEF OrderInv, Unique
<1>7. LastExists'
  <2>1. CASE r.kind = "checkpoint"
    <3>1. n \in Checkpoints' /\ \A j \in Checkpoints' : j <= n
      BY <1>1, <2>1 DEF Checkpoints
    <3> QED
      BY <3>1 DEF LastExists
  <2>2. CASE r.kind # "checkpoint"
    <3>1. Checkpoints' = Checkpoints
      BY <1>1, <2>2 DEF Checkpoints
    <3> QED
      BY <3>1 DEF OrderInv, LastExists
  <2> QED
    BY <2>1, <2>2
<1> QED
  BY <1>4, <1>5, <1>6, <1>7 DEF OrderInv

LEMMA GroundsStay ==
    ASSUME Types, Grows, StageInv
    PROVE  \A i \in DOMAIN corrections : Grounded(i)' /\ Follows(i)'
<1> TAKE i \in DOMAIN corrections
<1>1. Grounded(i) /\ Follows(i)
  BY DEF StageInv
<1>2. corrections'[i] = corrections[i]
  BY DEF Grows
<1>3. Grounded(i)'
  BY <1>1, <1>2, WhatGrowsStays DEF Grounded, Grows, Checkpoints
<1>4. ASSUME corrections[i].kind # "request", i # 1
      PROVE  Follows(i)'
  <2>1. PICK a \in DOMAIN corrections :
          /\ a < i /\ corrections[a].kind = "request" /\ corrections[a].op = corrections[i].op
          /\ corrections[a].version = corrections[i].version /\ corrections[i].tip = corrections[a].tip + 1
    BY <1>1, <1>4 DEF Follows
  <2>2. Corresponds(corrections[i].tip) /\ corrections[i].tip \in Receipts(corrections[i].op)
    BY <1>1, <1>4 DEF Follows
  <2>3. Corresponds(corrections[i].tip)' /\ (corrections[i].tip \in Receipts(corrections[i].op))'
    BY <2>2, <1>2, WhatGrowsStays
  <2>4. a \in DOMAIN corrections' /\ corrections'[a] = corrections[a]
    BY DEF Grows
  <2> QED
    BY <2>1, <2>3, <2>4, <1>2 DEF Follows
<1>5. Follows(i)'
  BY <1>2, <1>4 DEF Follows
<1> QED
  BY <1>3, <1>5

\* Nothing new among the corrections: the stages stand.
LEMMA StagesStay ==
    ASSUME Types, Grows, StageInv, UNCHANGED corrections
    PROVE  StageInv'
<1>1. \A i \in DOMAIN corrections' : Grounded(i)' /\ Follows(i)'
  BY GroundsStay
<1>2. Staged'
  BY DEF StageInv, Staged, Retained
<1> QED
  BY <1>1, <1>2 DEF StageInv

LEMMA OrderStays ==
    ASSUME Types, Grows, OrderInv, UNCHANGED corrections, Tip' >= Tip, Tip' \in Nat
    PROVE  OrderInv'
<1>1. \A i \in DOMAIN corrections : corrections[i].tip \in Nat
  BY CorrectionTypes
<1>2. Tip \in Nat
  BY DEF Types, Tip
<1>3. Sorted'
  BY <1>1, <1>2 DEF OrderInv, Sorted
<1>4. (Owned /\ Unique /\ LastExists)'
  BY DEF OrderInv, Owned, Unique, LastExists, Checkpoints
<1> QED
  BY <1>3, <1>4 DEF OrderInv

\* The facts about the journal stand while nothing enters it and no resolved pair moves.
LEMMA JournalStays ==
    ASSUME Types, Grows, JournalInv, UNCHANGED journal,
           \A o \in Ops : Resolved(o) /\ Receipts(o) # {} =>
             /\ pairs'[o].request = pairs[o].request /\ pairs'[o].control = pairs[o].control
             /\ pairs'[o].response = pairs[o].response /\ (pairs[o].attested => pairs'[o].attested)
    PROVE  JournalInv'
<1> SUFFICES ASSUME NEW i \in DOMAIN journal, journal[i].op \in Ops
             PROVE  (/\ Asked(journal[i].op, journal[i].version, i - 1)
                     /\ Resolved(journal[i].op) /\ pairs[journal[i].op].response.head = i - 1
                     /\ pairs[journal[i].op].attested)'
  BY DEF JournalInv
<1> DEFINE op == journal[i].op
<1>1. Asked(op, journal[i].version, i - 1) /\ Resolved(op) /\ pairs[op].response.head = i - 1 /\ pairs[op].attested
  BY DEF JournalInv
<1>2. Receipts(op) # {}
  BY DEF Receipts
<1>3. Asked(op, journal[i].version, i - 1)'
  BY <1>1, WhatGrowsStays
<1> QED
  BY <1>1, <1>2, <1>3 DEF Resolved

----------------------------------------------------------------------------
(* The steps.                                                              *)

LEMMA TypesStep == IInv /\ [ResolverNext]_vars => Types'
<1> SUFFICES ASSUME IInv, ResolverNext PROVE Types'
  BY DEF IInv, Types, vars, namespaces
<1> USE DEF Keeps, Ends, To, Idle, Resolving, Appending, Finalizing
<1>t. Types /\ Tip \in Nat
  BY DEF IInv, Types, Tip
<1>1. ASSUME Start PROVE Types'
  BY <1>1, <1>t DEF Start, Types
<1>2. ASSUME Refuse \/ Fail PROVE Types'
  BY <1>2, <1>t DEF Refuse, Fail, Types, namespaces
<1>3. ASSUME Crash PROVE Types'
  <2>1. proofs' \in [Ops -> Nat \cup {None}]
    BY <1>3 DEF Crash
  <2>2. call' = Idle /\ up' = FALSE /\ faults' = faults + 1
        /\ UNCHANGED <<journal, bare, revoked, anchor, pairs, correspondences, corrections>>
    BY <1>3 DEF Crash, namespaces
  <2>3. call' \in [step : Resolving \cup Appending \cup {"idle"}, op : Ops \cup {None},
                   version : Versions \cup {None}, head : Nat]
    BY <2>2
  <2>4. up' \in BOOLEAN /\ faults' \in Nat
    <3>1. up' \in BOOLEAN
      BY <2>2
    <3>2. faults' \in Nat
      BY <2>2, <1>t DEF Types
    <3> QED
      BY <3>1, <3>2
  <2>5. /\ (journal \in Seq(Receipt))'
        /\ (bare \in BOOLEAN /\ revoked \in BOOLEAN /\ anchor \in Nat \cup {None})'
        /\ (pairs \in [Ops -> Records] /\ correspondences \in Seq(Nat) /\ corrections \in Seq(Corrections))'
    BY <2>2, <1>t DEF Types
  <2> QED
    BY <2>1, <2>3, <2>4, <2>5 DEF Types
<1>4. ASSUME OtherAppend PROVE Types'
  <2>1. journal' \in Seq(Receipt)
    <3>1. [op |-> Other, version |-> None] \in Receipt
      BY DEF Receipt
    <3> QED
      BY <1>4, <1>t, <3>1, AppendGrows DEF OtherAppend, Types
  <2> QED
    BY <1>4, <1>t, <2>1 DEF OtherAppend, Types, namespaces
<1>5. ASSUME Revoke PROVE Types'
  BY <1>5, <1>t DEF Revoke, Types, namespaces
<1>6. ASSUME NEW o \in Ops, ResolveRetained(o) \/ CallResolve(o) PROVE Types'
  <2>1. CASE ResolveRetained(o)
    <3>1. proofs' \in [Ops -> Nat \cup {None}]
      BY <2>1, <1>t DEF ResolveRetained, Classify, Types
    <3> QED
      BY <2>1, <3>1, <1>t DEF ResolveRetained, Types, namespaces
  <2>2. CASE CallResolve(o)
    <3>1. call' \in [step : Resolving \cup Appending \cup {"idle"}, op : Ops \cup {None},
                     version : Versions \cup {None}, head : Nat]
      BY <2>2, <1>t DEF CallResolve
    <3> QED
      BY <2>2, <3>1, <1>t DEF CallResolve, Types, namespaces
  <2> QED
    BY <1>6, <2>1, <2>2
<1>7. ASSUME NEW o \in Ops, NEW v \in Versions, CallAppend(o, v) PROVE Types'
  BY <1>7, <1>t DEF CallAppend, Types, namespaces
<1>8. ASSUME Proceeds PROVE Types'
  <2> DEFINE op == call.op
  <2>o. call.step \in Resolving \cup Appending => op \in Ops
    BY DEF IInv, CallInv
  <2>r. op \in Ops => pairs[op] \in Records
    BY <1>t DEF Types
  <2>1. ASSUME PersistControl \/ PersistRequest PROVE Types'
    <3>1. op \in Ops /\ pairs[op] \in Records /\ pairs \in [Ops -> Records] /\ call.head \in Nat
      BY <2>1, <1>t, <2>o, <2>r DEF PersistControl, PersistRequest, Types
    <3>2. /\ [pairs[op] EXCEPT !.control = call.head] \in Records
          /\ [pairs[op] EXCEPT !.request = TRUE] \in Records
      BY <3>1 DEF Records
    <3>3. pairs' \in [Ops -> Records]
      BY <2>1, <3>1, <3>2 DEF PersistControl, PersistRequest
    <3> QED
      BY <2>1, <3>3, <1>t DEF PersistControl, PersistRequest, Types
  <2>2. ASSUME PersistResponse PROVE Types'
    <3>1. Reference \in Nat
      <4>1. CASE Checkpoints \subseteq {1}
        BY <4>1 DEF Reference
      <4>2. CASE ~(Checkpoints \subseteq {1})
        BY <4>2, TheLastCheckpoint DEF Reference, IInv, OrderInv
      <4> QED
        BY <4>1, <4>2
    <3>2. pairs' \in [Ops -> Records]
      BY <2>2, <1>t, <2>o, <2>r, <3>1 DEF PersistResponse, Records, Types
    <3> QED
      BY <2>2, <3>2, <1>t, <2>o DEF PersistResponse, Classify, Types
  <2>3. ASSUME PersistGenesis PROVE Types'
    <3>1. correspondences' \in Seq(Nat)
      BY <2>3, <1>t DEF PersistGenesis
    <3> QED
      BY <2>3, <3>1, <1>t DEF PersistGenesis, Types
  <2>4. ASSUME PersistGenesisCheckpoint PROVE Types'
    <3>1. Correction("checkpoint", None, None, Tip) \in Corrections
      BY <1>t DEF Correction, Corrections, Kinds
    <3>2. corrections' \in Seq(Corrections)
      BY <2>4, <3>1, <1>t, AppendGrows DEF PersistGenesisCheckpoint, Types
    <3> QED
      BY <2>4, <3>2, <1>t DEF PersistGenesisCheckpoint, Types
  <2>5. ASSUME Attest PROVE Types'
    <3>1. pairs' \in [Ops -> Records]
      BY <2>5, <1>t, <2>o, <2>r DEF Attest, Records, Types
    <3> QED
      BY <2>5, <3>1, <1>t DEF Attest, Types
  <2>6. ASSUME NEW kind \in Kinds, NEW t, Corrects(kind, t) PROVE corrections' \in Seq(Corrections)
    <3>1. Correction(kind, call.op, call.version, t) \in Corrections
      BY <2>6, <1>t DEF Corrects, Correction, Corrections, Types
    <3> QED
      BY <2>6, <3>1, <1>t, AppendGrows DEF Corrects, Types
  <2>7. ASSUME Authorize \/ AuthorizeAgain PROVE Types'
    <3>1. corrections' \in Seq(Corrections)
      BY <2>7, <2>6, <1>t DEF Authorize, AuthorizeAgain, Kinds, namespaces, Types
    <3> QED
      BY <2>7, <3>1, <1>t DEF Authorize, AuthorizeAgain, Corrects, namespaces, Types
  <2>8. ASSUME PersistAssessment PROVE Types'
    BY <2>8, <1>t DEF PersistAssessment, Types, namespaces
  <2>9. ASSUME PersistReceipt PROVE Types'
    <3>1. journal' \in Seq(Receipt)
      <4>1. [op |-> op, version |-> call.version] \in Receipt
        BY <2>9, <2>o, <1>t DEF PersistReceipt, Types, Receipt
      <4> QED
        BY <2>9, <4>1, <1>t, AppendGrows DEF PersistReceipt, Types
    <3> QED
      BY <2>9, <3>1, <1>t DEF PersistReceipt, Types, namespaces
  <2>10. ASSUME PersistCorrespondence PROVE Types'
    <3>1. correspondences' \in Seq(Nat)
      <4>1. correspondences \in Seq(Nat)
        BY <1>t DEF Types
      <4> QED
        BY <2>10, <1>t, <4>1 DEF PersistCorrespondence, namespaces
    <3> QED
      BY <2>10, <3>1, <1>t DEF PersistCorrespondence, Types, namespaces
  <2>11. ASSUME NEW stage \in Stages, PersistStage(stage) \/ ReuseStage(stage) PROVE Types'
    <3>1. corrections' \in Seq(Corrections)
      BY <2>11, <2>6, <1>t DEF PersistStage, ReuseStage, Stages, Kinds, namespaces, Types
    <3>2. After(stage) \in Appending
      BY DEF Stages, After
    <3>3. call' = [call EXCEPT !.step = After(stage)]
      BY <2>11 DEF PersistStage, ReuseStage, To
    <3>4. UNCHANGED <<proofs, anchor, pairs, correspondences, journal, bare, revoked, up, faults>>
      BY <2>11 DEF PersistStage, ReuseStage, Corrects, Keeps, namespaces
    <3> QED
      BY <3>1, <3>2, <3>3, <3>4, <1>t DEF Types
  <2>12. ASSUME PersistProjection PROVE Types'
    <3>1. corrections' \in Seq(Corrections)
      BY <2>12, <2>6, <1>t DEF PersistProjection, Kinds, namespaces, Types
    <3> QED
      BY <2>12, <3>1, <1>t DEF PersistProjection, Corrects, namespaces, Types
  <2> QED
    BY <1>8, <2>1, <2>2, <2>3, <2>4, <2>5, <2>7, <2>8, <2>9, <2>10, <2>11, <2>12 DEF Proceeds
<1> QED
  BY <1>1, <1>2, <1>3, <1>4, <1>5, <1>6, <1>7, <1>8 DEF ResolverNext

\* A step that writes nothing to the journal or the two namespaces.
LEMMA HistoryStands ==
    ASSUME IInv, UNCHANGED <<journal, corrections, correspondences>>
    PROVE  /\ Grows /\ OrderInv' /\ StageInv'
           /\ \A k, o : Retained(k, o)' <=> Retained(k, o)
           /\ \A o, v, t : Asked(o, v, t)' <=> Asked(o, v, t)
           /\ \A o, v : Advanced(o, v)' <=> Advanced(o, v)
           /\ \A o : Receipts(o)' = Receipts(o)
           /\ Checkpoints' = Checkpoints /\ Tip' = Tip
<1>1. Grows
  BY DEF Grows
<1>2. Tip' = Tip /\ Tip \in Nat
  BY DEF IInv, Types, Tip
<1>3. OrderInv'
  BY <1>1, <1>2, OrderStays DEF IInv
<1>4. StageInv'
  BY <1>1, StagesStay DEF IInv
<1>5. /\ \A k, o : Retained(k, o)' <=> Retained(k, o)
      /\ \A o, v, t : Asked(o, v, t)' <=> Asked(o, v, t)
      /\ \A o : Receipts(o)' = Receipts(o)
      /\ \A t : Corresponds(t)' <=> Corresponds(t)
      /\ Checkpoints' = Checkpoints
  BY DEF Retained, Asked, Receipts, Checkpoints, Corresponds
<1>6. \A o, v : Advanced(o, v)' <=> Advanced(o, v)
  BY <1>5 DEF Advanced
<1> QED
  BY <1>1, <1>2, <1>3, <1>4, <1>5, <1>6

\* Nor to the pairs; a classification is only lost, or made of a pair that is retained.
LEMMA RecordsStand ==
    ASSUME IInv, UNCHANGED <<journal, corrections, correspondences, pairs>>,
           \A o \in Ops : proofs'[o] \in {None, proofs[o]} \/ Recover(o)
    PROVE  /\ OrderInv' /\ StageInv' /\ RecordInv' /\ JournalInv'
           /\ \A o : Resolved(o)' <=> Resolved(o)
<1>1. Grows /\ OrderInv' /\ StageInv'
  BY HistoryStands
<1>2. JournalInv'
  BY <1>1, JournalStays DEF IInv
<1>3. \A o : Resolved(o)' <=> Resolved(o)
  BY DEF Resolved
<1>4. RecordInv'
  BY <1>3 DEF IInv, RecordInv, Recover
<1> QED
  BY <1>1, <1>2, <1>3, <1>4

\* The call ends, whatever it had done; or it was not under way.
LEMMA EndingKeeps ==
    ASSUME IInv, call' = Idle, UNCHANGED <<journal, corrections, correspondences, pairs>>,
           \A o \in Ops : proofs'[o] \in {None, proofs[o]} \/ Recover(o)
    PROVE  RecordInv' /\ OrderInv' /\ StageInv' /\ JournalInv' /\ CallInv'
<1>1. RecordInv' /\ OrderInv' /\ StageInv' /\ JournalInv'
  BY RecordsStand
<1>2. call'.step = "idle"
  BY DEF Idle
<1>3. CallInv'
  BY <1>2 DEF CallInv, Resolving, Appending, Finalizing
<1> QED
  BY <1>1, <1>3

\* What does not touch the call, nor the classification of an operation being resolved.
LEMMA OutsideKeeps ==
    ASSUME IInv, UNCHANGED <<journal, corrections, correspondences, pairs, call, proofs>>
    PROVE  RecordInv' /\ OrderInv' /\ StageInv' /\ JournalInv' /\ CallInv'
<1>1. RecordInv' /\ OrderInv' /\ StageInv' /\ JournalInv'
  BY RecordsStand
<1>2. CallInv'
  BY HistoryStands, RecordsStand DEF IInv, CallInv
<1> QED
  BY <1>1, <1>2

LEMMA OtherAppendKeeps ==
    ASSUME IInv, OtherAppend
    PROVE  RecordInv' /\ OrderInv' /\ StageInv' /\ JournalInv' /\ CallInv'
<1> DEFINE n == Len(journal) + 1
<1>1. /\ DOMAIN journal' = DOMAIN journal \cup {n} /\ n \notin DOMAIN journal
      /\ journal'[n] = [op |-> Other, version |-> None]
      /\ \A i \in DOMAIN journal : journal'[i] = journal[i]
      /\ Len(journal') = n /\ Len(journal) \in Nat
  BY DEF OtherAppend, IInv, Types
<1>2. /\ UNCHANGED <<corrections, correspondences, pairs, call, proofs>>
      /\ call.step \in Resolving \cup {"idle"}
  BY DEF OtherAppend, namespaces, Locked
<1>3. Grows /\ Tip' = Tip + 1 /\ Tip \in Nat
  BY <1>1, <1>2 DEF Grows, Tip
<1>4. \A o \in Ops : Receipts(o)' = Receipts(o)
  BY <1>1, ResolverAssumption DEF Receipts
<1>5. OrderInv' /\ StageInv'
  BY <1>2, <1>3, OrderStays, StagesStay DEF IInv
<1>6. RecordInv'
  BY <1>2 DEF IInv, RecordInv, Resolved
<1>7. JournalInv'
  <2> SUFFICES ASSUME NEW i \in DOMAIN journal', journal'[i].op \in Ops
               PROVE  (/\ Asked(journal[i].op, journal[i].version, i - 1)
                       /\ Resolved(journal[i].op) /\ pairs[journal[i].op].response.head = i - 1
                       /\ pairs[journal[i].op].attested)'
    BY DEF JournalInv
  <2>1. i \in DOMAIN journal /\ journal'[i] = journal[i]
    BY <1>1, ResolverAssumption
  <2> QED
    BY <2>1, <1>2 DEF IInv, JournalInv, Asked, Resolved
<1>8. CallInv'
  <2>1. call.step \notin Appending
    BY <1>2 DEF Resolving, Appending, Finalizing
  <2> QED
    BY <1>2, <1>4, <2>1 DEF IInv, CallInv, Resolving, Appending, Finalizing
<1> QED
  BY <1>5, <1>6, <1>7, <1>8

----------------------------------------------------------------------------
(* Resolving.                                                              *)

LEMMA CallResolveKeeps ==
    ASSUME IInv, NEW o \in Ops, CallResolve(o)
    PROVE  RecordInv' /\ OrderInv' /\ StageInv' /\ JournalInv' /\ CallInv'
<1>1. UNCHANGED <<journal, corrections, correspondences, pairs, proofs>>
  BY DEF CallResolve, Keeps, namespaces
<1>2. RecordInv' /\ OrderInv' /\ StageInv' /\ JournalInv'
  BY <1>1, RecordsStand
<1>3. /\ call'.step \in {"control", "request"} /\ call'.op = o
      /\ call'.step = "request" => pairs[o].control = call'.head
  BY DEF CallResolve, Idle
<1>4. ~pairs[o].request
  BY DEF CallResolve
<1>5. proofs[o] = None
  BY <1>4 DEF IInv, RecordInv, Resolved
<1>6. Receipts(o) = {}
  BY <1>4 DEF IInv, JournalInv, Resolved, Receipts
<1>7. CallInv'
  BY <1>1, <1>3, <1>4, <1>5, <1>6 DEF CallInv, Receipts, Resolving, Appending, Finalizing
<1> QED
  BY <1>2, <1>7

\* A record is added to the pair of an operation that is being resolved.
LEMMA ResolvingKeeps ==
    ASSUME IInv, call.step \in Resolving, UNCHANGED <<journal, corrections, correspondences>>,
           \A o \in Ops :
             IF o # call.op THEN pairs'[o] = pairs[o] /\ proofs'[o] = proofs[o]
             ELSE Resolved(o)' \/ (pairs'[o].response = None /\ proofs'[o] = None)
    PROVE  RecordInv' /\ OrderInv' /\ StageInv' /\ JournalInv'
<1>1. Grows /\ OrderInv' /\ StageInv'
  BY HistoryStands
<1>2. Receipts(call.op) = {}
  BY DEF IInv, CallInv
<1>3. JournalInv'
  BY <1>1, <1>2, JournalStays DEF IInv
<1>4. RecordInv'
  <2> SUFFICES ASSUME NEW o \in Ops
               PROVE  (pairs[o].response = None \/ Resolved(o))' /\ (proofs[o] # None => Resolved(o))'
    BY DEF RecordInv
  <2>1. CASE o # call.op
    BY <2>1 DEF IInv, RecordInv, Resolved
  <2>2. CASE o = call.op
    BY <2>2
  <2> QED
    BY <2>1, <2>2
<1> QED
  BY <1>1, <1>3, <1>4

LEMMA PersistControlKeeps ==
    ASSUME IInv, PersistControl
    PROVE  RecordInv' /\ OrderInv' /\ StageInv' /\ JournalInv' /\ CallInv'
<1>0. call.op \in Ops /\ call.step = "control"
  BY DEF PersistControl, IInv, CallInv
<1>1. /\ UNCHANGED <<journal, corrections, correspondences, proofs>>
      /\ pairs' = [pairs EXCEPT ![call.op].control = call.head]
      /\ call' = [call EXCEPT !.step = "request"]
  BY DEF PersistControl, Keeps, To
<1>2. /\ call'.step = "request" /\ call'.op = call.op /\ call'.head = call.head
      /\ call'.version = call.version
  BY <1>1 DEF IInv, Types
<1>3. /\ \A o \in Ops : o # call.op => pairs'[o] = pairs[o]
      /\ pairs'[call.op].control = call.head /\ pairs'[call.op].response = pairs[call.op].response
      /\ pairs'[call.op].request = pairs[call.op].request
  BY <1>0, <1>1 DEF IInv, Types, Records
<1>4. ~pairs[call.op].request /\ Receipts(call.op) = {} /\ proofs[call.op] = None
  BY <1>0 DEF IInv, CallInv, Resolving
<1>5. pairs[call.op].response = None
  BY <1>0, <1>4 DEF IInv, RecordInv, Resolved
<1>6. RecordInv' /\ OrderInv' /\ StageInv' /\ JournalInv'
  BY <1>0, <1>1, <1>3, <1>4, <1>5, ResolvingKeeps DEF Resolving
<1>7. CallInv'
  BY <1>0, <1>1, <1>2, <1>3, <1>4 DEF CallInv, Receipts, Resolving, Appending, Finalizing
<1> QED
  BY <1>6, <1>7

LEMMA PersistRequestKeeps ==
    ASSUME IInv, PersistRequest
    PROVE  RecordInv' /\ OrderInv' /\ StageInv' /\ JournalInv' /\ CallInv'
<1>0. call.op \in Ops /\ call.step = "request"
  BY DEF PersistRequest, IInv, CallInv
<1>1. /\ UNCHANGED <<journal, corrections, correspondences, proofs>>
      /\ pairs' = [pairs EXCEPT ![call.op].request = TRUE]
      /\ call' = [call EXCEPT !.step = "response"]
  BY DEF PersistRequest, Keeps, To
<1>2. /\ call'.step = "response" /\ call'.op = call.op /\ call'.head = call.head
      /\ call'.version = call.version
  BY <1>1 DEF IInv, Types
<1>3. /\ \A o \in Ops : o # call.op => pairs'[o] = pairs[o]
      /\ pairs'[call.op].control = pairs[call.op].control /\ pairs'[call.op].response = pairs[call.op].response
      /\ pairs'[call.op].request
  BY <1>0, <1>1 DEF IInv, Types, Records
<1>4. /\ ~pairs[call.op].request /\ Receipts(call.op) = {} /\ proofs[call.op] = None
      /\ pairs[call.op].control = call.head
  BY <1>0 DEF IInv, CallInv, Resolving
<1>5. pairs[call.op].response = None
  BY <1>0, <1>4 DEF IInv, RecordInv, Resolved
<1>6. RecordInv' /\ OrderInv' /\ StageInv' /\ JournalInv'
  BY <1>0, <1>1, <1>3, <1>4, <1>5, ResolvingKeeps DEF Resolving
<1>7. CallInv'
  BY <1>0, <1>1, <1>2, <1>3, <1>4 DEF CallInv, Receipts, Resolving, Appending, Finalizing
<1> QED
  BY <1>6, <1>7

LEMMA PersistResponseKeeps ==
    ASSUME IInv, PersistResponse
    PROVE  RecordInv' /\ OrderInv' /\ StageInv' /\ JournalInv' /\ CallInv'
<1>0. call.op \in Ops /\ call.step = "response"
  BY DEF PersistResponse, IInv, CallInv
<1>1. /\ UNCHANGED <<journal, corrections, correspondences>>
      /\ pairs' = [pairs EXCEPT ![call.op].response = [head |-> call.head, checkpoint |-> Reference]]
      /\ call' = Idle
      /\ \A o \in Ops : o # call.op => proofs'[o] = proofs[o]
  BY DEF PersistResponse, Keeps, Ends, Classify, IInv, Types
<1>2. call'.step = "idle"
  BY <1>1 DEF Idle
<1>3. /\ \A o \in Ops : o # call.op => pairs'[o] = pairs[o]
      /\ pairs'[call.op].response = [head |-> call.head, checkpoint |-> Reference]
      /\ pairs'[call.op].control = pairs[call.op].control
      /\ pairs'[call.op].request = pairs[call.op].request
  BY <1>0, <1>1 DEF IInv, Types, Records
<1>4. pairs[call.op].request /\ pairs[call.op].control = call.head
  BY <1>0 DEF IInv, CallInv, Resolving
<1>6. ASSUME NEW o \in Ops, o = call.op PROVE Resolved(o)'
  <2>1. Reference \in Nat
    <3>1. CASE Checkpoints \subseteq {1}
      BY <3>1 DEF Reference
    <3>2. CASE ~(Checkpoints \subseteq {1})
      BY <3>2, TheLastCheckpoint DEF Reference, IInv, OrderInv
    <3> QED
      BY <3>1, <3>2
  <2>2. call.head \in Nat
    BY DEF IInv, Types
  <2> QED
    BY <1>1, <1>3, <1>4, <1>6, <2>1, <2>2 DEF Resolved
<1>7. RecordInv' /\ OrderInv' /\ StageInv' /\ JournalInv'
  BY <1>0, <1>1, <1>3, <1>6, ResolvingKeeps DEF Resolving
<1>8. CallInv'
  BY <1>2 DEF CallInv, Resolving, Appending, Finalizing
<1> QED
  BY <1>7, <1>8

----------------------------------------------------------------------------
(* Appending.                                                              *)

LEMMA CallAppendKeeps ==
    ASSUME IInv, NEW o \in Ops, NEW v \in Versions, CallAppend(o, v)
    PROVE  RecordInv' /\ OrderInv' /\ StageInv' /\ JournalInv' /\ CallInv'
<1>1. UNCHANGED <<journal, corrections, correspondences, pairs, proofs>>
  BY DEF CallAppend, Keeps, namespaces
<1>2. RecordInv' /\ OrderInv' /\ StageInv' /\ JournalInv'
  BY <1>1, RecordsStand
<1>3. /\ call'.op = o /\ call'.step \in {"correspondence", "genesis", "attest"}
      /\ call'.step = "genesis" => Checkpoints = {}
      /\ call'.step = "attest" => Checkpoints # {}
  BY DEF CallAppend, Idle
<1>4. Resolved(o)
  BY DEF CallAppend, IInv, RecordInv
<1>5. Resolved(o)' /\ Checkpoints' = Checkpoints
  BY <1>1, <1>4, RecordsStand, HistoryStands
<1>6. CallInv'
  <2>1. Resolved(call.op)'
    BY <1>1, <1>3, <1>4 DEF Resolved
  <2> QED
    BY <1>3, <1>5, <2>1 DEF CallInv, Resolving, Appending, Finalizing
<1> QED
  BY <1>2, <1>6

\* The call goes on, and nothing is written.
LEMMA GoingOnKeeps ==
    ASSUME IInv, UNCHANGED <<journal, corrections, correspondences, pairs, proofs>>,
           NEW s, call' = [call EXCEPT !.step = s], s \in Appending, call.step \in Appending,
           s \in {"authorize", "target", "receipt"} =>
             pairs[call.op].attested /\ pairs[call.op].response.head = Tip,
           s # "genesis", s \in {"attest", "authorize"} => Checkpoints # {},
           s \in {"target", "receipt"} => Asked(call.op, call.version, Tip),
           s \in Finalizing => Advanced(call.op, call.version),
           s = "transition" => Retained("broker", call.op),
           s = "checkpoint" => Retained("transition", call.op),
           s = "link" => Retained("checkpoint", call.op),
           s = "projection" => Retained("link", call.op)
    PROVE  RecordInv' /\ OrderInv' /\ StageInv' /\ JournalInv' /\ CallInv'
<1>1. RecordInv' /\ OrderInv' /\ StageInv' /\ JournalInv'
  BY RecordsStand
<1>2. call'.step = s /\ call'.op = call.op /\ call'.version = call.version
  BY DEF IInv, Types
<1>3. s \notin Resolving /\ s # "idle" /\ call.step # "idle"
  BY DEF Resolving, Appending, Finalizing
<1>4. call.op \in Ops /\ Resolved(call.op)
  BY <1>3 DEF IInv, CallInv
<1>5. Resolved(call.op)'
  BY <1>2, <1>4 DEF Resolved
<1>6. CallInv'
  <2>1. /\ Asked(call.op, call.version, Tip)' <=> Asked(call.op, call.version, Tip)
        /\ Advanced(call.op, call.version)' <=> Advanced(call.op, call.version)
        /\ \A k : Retained(k, call.op)' <=> Retained(k, call.op)
        /\ Checkpoints' = Checkpoints /\ Tip' = Tip
    BY <1>2, HistoryStands DEF Asked, Advanced, Receipts, Corresponds, Retained
  <2> QED
    BY <1>2, <1>3, <1>4, <1>5, <2>1 DEF CallInv, Resolving
<1> QED
  BY <1>1, <1>6

\* The correspondences grow.
LEMMA CorrespondenceKeeps ==
    ASSUME IInv, UNCHANGED <<journal, corrections, pairs, proofs>>,
           correspondences' = Append(correspondences, Tip)
    PROVE  /\ Grows /\ RecordInv' /\ OrderInv' /\ StageInv' /\ JournalInv'
           /\ Corresponds(Tip)'
<1> DEFINE n == Len(correspondences) + 1
<1>1. /\ \A i \in DOMAIN correspondences :
           i \in DOMAIN correspondences' /\ correspondences'[i] = correspondences[i]
      /\ n \in DOMAIN correspondences' /\ correspondences'[n] = Tip
      /\ Tip \in Nat /\ Tip' = Tip
  <2>1. Tip \in Nat /\ correspondences \in Seq(Nat) /\ Tip' = Tip
    BY DEF IInv, Types, Tip
  <2> QED
    BY <2>1, AppendGrows
<1>2. Grows
  BY <1>1 DEF Grows
<1>3. OrderInv' /\ StageInv'
  BY <1>1, <1>2, OrderStays, StagesStay DEF IInv
<1>4. JournalInv'
  BY <1>2, JournalStays DEF IInv
<1>5. RecordInv'
  BY DEF IInv, RecordInv, Resolved
<1> QED
  BY <1>1, <1>2, <1>3, <1>4, <1>5 DEF Corresponds

LEMMA PersistGenesisKeeps ==
    ASSUME IInv, PersistGenesis
    PROVE  RecordInv' /\ OrderInv' /\ StageInv' /\ JournalInv' /\ CallInv'
<1>1. /\ UNCHANGED <<journal, corrections, pairs, proofs, call>> /\ call.step = "genesis"
      /\ correspondences = <<>> /\ correspondences' = <<Tip>>
  BY DEF PersistGenesis, Keeps
<1>2. correspondences' = Append(correspondences, Tip)
  BY <1>1
<1>3. RecordInv' /\ OrderInv' /\ StageInv' /\ JournalInv'
  BY <1>1, <1>2, CorrespondenceKeeps
<1>4. CallInv'
  BY <1>1 DEF IInv, CallInv, Resolved, Checkpoints, Resolving, Appending, Finalizing
<1> QED
  BY <1>3, <1>4

\* A correction is written by a step that changes nothing else.
LEMMA CorrectionKeeps ==
    ASSUME IInv, UNCHANGED <<journal, correspondences, pairs, proofs>>,
           NEW r \in Corrections, corrections' = Append(corrections, r), r.tip = Tip
    PROVE  /\ Grows /\ RecordInv' /\ JournalInv' /\ Tip' = Tip
           /\ \A k, o : Retained(k, o)' <=> Retained(k, o) \/ (k = r.kind /\ o = r.op)
           /\ (r.kind = "request" => Asked(r.op, r.version, Tip)')
           /\ \A o, v, t : Asked(o, v, t) => Asked(o, v, t)'
           /\ \A o, v : Advanced(o, v) => Advanced(o, v)'
           /\ Checkpoints \subseteq Checkpoints'
           /\ \A i \in DOMAIN corrections' :
                \/ i \in DOMAIN corrections /\ corrections'[i] = corrections[i]
                \/ i = Len(corrections) + 1 /\ corrections'[i] = r /\ (r.kind = "checkpoint" => i \in Checkpoints')
<1> DEFINE n == Len(corrections) + 1
<1>1. /\ DOMAIN corrections' = DOMAIN corrections \cup {n} /\ n \notin DOMAIN corrections
      /\ corrections'[n] = r /\ \A i \in DOMAIN corrections : corrections'[i] = corrections[i]
      /\ Tip' = Tip
  BY AppendGrows DEF IInv, Types, Tip
<1> HIDE DEF n
<1>2. Grows
  BY <1>1 DEF Grows
<1>3. JournalInv'
  BY <1>2, JournalStays DEF IInv
<1>4. RecordInv'
  BY DEF IInv, RecordInv, Resolved
<1>5. \A k, o : Retained(k, o)' <=> Retained(k, o) \/ (k = r.kind /\ o = r.op)
  BY <1>1 DEF Retained
<1>6. r.kind = "request" => Asked(r.op, r.version, Tip)'
  <2>1. r = Correction(r.kind, r.op, r.version, r.tip)
    BY DEF Corrections, Correction
  <2> QED
    BY <1>1, <2>1 DEF Asked, Correction
<1>7. /\ \A o, v, t : Asked(o, v, t) => Asked(o, v, t)'
      /\ \A o : Receipts(o) \subseteq Receipts(o)' /\ \A t : Corresponds(t) => Corresponds(t)'
      /\ Checkpoints \subseteq Checkpoints'
  BY <1>2, WhatGrowsStays
<1>8. \A o, v : Advanced(o, v) => Advanced(o, v)'
  BY <1>7 DEF Advanced
<1>9. r.kind = "checkpoint" => n \in Checkpoints'
  BY <1>1 DEF Checkpoints
<1> QED
  BY <1>1, <1>2, <1>3, <1>4, <1>5, <1>6, <1>7, <1>8, <1>9 DEF n

LEMMA PersistGenesisCheckpointKeeps ==
    ASSUME IInv, PersistGenesisCheckpoint
    PROVE  RecordInv' /\ OrderInv' /\ StageInv' /\ JournalInv' /\ CallInv'
<1> DEFINE r == Correction("checkpoint", None, None, Tip)
<1>1. /\ UNCHANGED <<journal, correspondences, pairs, proofs>> /\ call.step = "genesis"
      /\ corrections' = Append(corrections, r)
      /\ call' = [call EXCEPT !.step = "attest"]
  BY DEF PersistGenesisCheckpoint, Keeps, To
<1>2. r \in Corrections /\ r.kind = "checkpoint" /\ r.op = None /\ r.tip = Tip
  BY DEF Corrections, Correction, Kinds, IInv, Types, Tip
<1>3. corrections = <<>>
  <2>1. Checkpoints = {}
    BY <1>1 DEF IInv, CallInv
  <2>2. 1 \notin DOMAIN corrections
    BY <2>1 DEF IInv, OrderInv, Owned, Checkpoints
  <2> QED
    BY <2>2 DEF IInv, Types
<1> HIDE DEF r
<1>4. OrderInv'
  BY <1>1, <1>2, <1>3, AppendKeepsOrder DEF IInv
<1>5. DOMAIN corrections' = {1} /\ corrections'[1] = r
  BY <1>1, <1>2, <1>3
<1>6. StageInv'
  BY <1>2, <1>5, ResolverAssumption DEF StageInv, Grounded, Follows, Staged, Retained
<1>7. RecordInv' /\ JournalInv' /\ 1 \in Checkpoints'
  <2>1. RecordInv' /\ JournalInv'
    BY <1>1, <1>2, CorrectionKeeps
  <2>2. 1 \in Checkpoints'
    BY <1>2, <1>5 DEF Checkpoints
  <2> QED
    BY <2>1, <2>2
<1>8. call.op \in Ops /\ Resolved(call.op) /\ call'.op = call.op /\ call'.step = "attest"
  BY <1>1 DEF IInv, Types, CallInv, Appending
<1>9. Resolved(call.op)'
  BY <1>1, <1>8 DEF Resolved
<1>10. CallInv'
  BY <1>7, <1>8, <1>9 DEF CallInv, Resolving, Appending, Finalizing
<1> QED
  BY <1>4, <1>6, <1>7, <1>10

LEMMA AttestKeeps ==
    ASSUME IInv, Attest
    PROVE  RecordInv' /\ OrderInv' /\ StageInv' /\ JournalInv' /\ CallInv'
<1>0. call.op \in Ops /\ call.step = "attest"
  BY DEF Attest, IInv, CallInv
<1>1. /\ UNCHANGED <<journal, corrections, correspondences, proofs>>
      /\ pairs' = [pairs EXCEPT ![call.op].attested = TRUE]
      /\ call' = [call EXCEPT !.step = "authorize"]
      /\ pairs[call.op].response.head = Tip
  BY DEF Attest, Keeps, To
<1>2. call'.step = "authorize" /\ call'.op = call.op /\ call'.version = call.version
  BY <1>1 DEF IInv, Types
<1>3. /\ \A o \in Ops : /\ pairs'[o].request = pairs[o].request /\ pairs'[o].control = pairs[o].control
                        /\ pairs'[o].response = pairs[o].response /\ (pairs[o].attested => pairs'[o].attested)
      /\ pairs'[call.op].attested
  <2>1. call.op \in Ops /\ pairs \in [Ops -> Records] /\ \A o \in Ops : pairs[o] \in Records
    BY <1>0 DEF IInv, Types
  <2>2. /\ pairs'[call.op] = [pairs[call.op] EXCEPT !.attested = TRUE]
        /\ \A o \in Ops : o # call.op => pairs'[o] = pairs[o]
    BY <1>1, <2>1
  <2> QED
    BY <2>1, <2>2 DEF Records
<1>4. Grows /\ OrderInv' /\ StageInv' /\ Tip' = Tip /\ Checkpoints' = Checkpoints
  BY <1>1, HistoryStands
<1>5. JournalInv'
  BY <1>1, <1>3, <1>4, JournalStays DEF IInv
<1>6. \A o \in Ops : Resolved(o)' <=> Resolved(o)
  BY <1>3 DEF Resolved
<1>7. RecordInv'
  BY <1>1, <1>3, <1>6 DEF IInv, RecordInv
<1>8. CallInv'
  <2>1. Resolved(call.op) /\ Checkpoints # {}
    BY <1>0 DEF IInv, CallInv, Appending
  <2>2. \E o \in Ops : o = call.op /\ Resolved(o)'
    BY <1>0, <1>6, <2>1
  <2>3. Resolved(call.op)'
    BY <1>2, <2>2
  <2> QED
    BY <1>0, <1>1, <1>2, <1>3, <1>4, <2>1, <2>3 DEF CallInv, Resolving, Appending, Finalizing
<1> QED
  BY <1>4, <1>5, <1>7, <1>8

LEMMA AuthorizeKeeps ==
    ASSUME IInv, Authorize
    PROVE  RecordInv' /\ OrderInv' /\ StageInv' /\ JournalInv' /\ CallInv'
<1>0. PICK r : r = Correction("request", call.op, call.version, Tip)
  OBVIOUS
<1>1. /\ UNCHANGED <<journal, correspondences, pairs, proofs>> /\ call.step = "authorize"
      /\ corrections' = Append(corrections, r)
      /\ call' = [call EXCEPT !.step = "target"]
  BY <1>0 DEF Authorize, Corrects, Keeps, To
<1>2. /\ call.op \in Ops /\ Resolved(call.op) /\ Checkpoints # {}
      /\ pairs[call.op].attested /\ pairs[call.op].response.head = Tip
  BY <1>1 DEF IInv, CallInv, Appending
<1>3. r \in Corrections /\ r.kind = "request" /\ r.op = call.op /\ r.tip = Tip /\ r.version = call.version
  BY <1>0, <1>2 DEF Corrections, Correction, Kinds, IInv, Types, Tip
<1>4. \A i \in DOMAIN corrections : corrections[i].kind = r.kind =>
        corrections[i].op # r.op /\ corrections[i].tip # r.tip
  BY <1>3 DEF Authorize, Unclaimed
<1>5. corrections # <<>>
  BY <1>2 DEF Checkpoints
<1>6. OrderInv'
  BY <1>1, <1>2, <1>3, <1>4, <1>5, AppendKeepsOrder DEF IInv
<1>7. /\ Grows /\ RecordInv' /\ JournalInv' /\ Tip' = Tip
      /\ \A k, o : Retained(k, o)' <=> Retained(k, o) \/ (k = r.kind /\ o = r.op)
      /\ Asked(r.op, r.version, Tip)'
      /\ Checkpoints \subseteq Checkpoints'
      /\ \A i \in DOMAIN corrections' :
                \/ i \in DOMAIN corrections /\ corrections'[i] = corrections[i]
                \/ i = Len(corrections) + 1 /\ corrections'[i] = r
  BY <1>1, <1>3, CorrectionKeeps
<1>8. StageInv'
  <2>1. Staged'
    BY <1>3, <1>7 DEF IInv, StageInv, Staged
  <2>2. ASSUME NEW i \in DOMAIN corrections' PROVE Grounded(i)' /\ Follows(i)'
    <3>1. CASE i \in DOMAIN corrections
      BY <3>1, <1>7, GroundsStay DEF IInv
    <3>2. CASE i \notin DOMAIN corrections
      <4>1. corrections'[i] = r
        BY <3>2, <1>7
      <4>2. Max(Checkpoints) \in Checkpoints /\ corrections[Max(Checkpoints)].tip = Tip
        BY <1>2, TheLastCheckpoint DEF IInv, OrderInv, Authorize, Current
      <4>3. Max(Checkpoints) \in Checkpoints' /\ corrections'[Max(Checkpoints)] = corrections[Max(Checkpoints)]
        BY <4>2, <1>7 DEF Grows, Checkpoints
      <4>4. \E k \in Checkpoints' : corrections'[k].tip = r.tip
        BY <4>2, <4>3, <1>3
      <4> QED
        BY <4>1, <4>4, <1>3 DEF Grounded, Follows
    <3> QED
      BY <3>1, <3>2
  <2> QED
    BY <2>1, <2>2 DEF StageInv
<1>9. CallInv'
  <2>1. call'.step = "target" /\ call'.op = call.op /\ call'.version = call.version
    BY <1>1 DEF IInv, Types
  <2>2. Resolved(call.op)'
    BY <1>1, <1>2, <2>1 DEF Resolved
  <2>3. Asked(call.op, call.version, Tip)'
    BY <1>3, <1>7, <2>1 DEF Asked
  <2> QED
    BY <1>1, <1>2, <1>7, <2>1, <2>2, <2>3 DEF CallInv, Resolving, Appending, Finalizing
<1> QED
  BY <1>6, <1>7, <1>8, <1>9

LEMMA AuthorizeAgainKeeps ==
    ASSUME IInv, AuthorizeAgain
    PROVE  RecordInv' /\ OrderInv' /\ StageInv' /\ JournalInv' /\ CallInv'
<1>1. /\ UNCHANGED <<journal, corrections, correspondences, pairs, proofs>> /\ call.step = "authorize"
      /\ call' = [call EXCEPT !.step = "target"]
  BY DEF AuthorizeAgain, Keeps, To, namespaces
<1>2. /\ call.op \in Ops
      /\ pairs[call.op].attested /\ pairs[call.op].response.head = Tip
  BY <1>1 DEF IInv, CallInv, Appending
<1>3. Asked(call.op, call.version, Tip)
  BY <1>2, TheRequest DEF AuthorizeAgain, IInv, OrderInv
<1> QED
  BY <1>1, <1>2, <1>3, GoingOnKeeps DEF Appending, Finalizing

LEMMA PersistAssessmentKeeps ==
    ASSUME IInv, PersistAssessment
    PROVE  RecordInv' /\ OrderInv' /\ StageInv' /\ JournalInv' /\ CallInv'
<1>1. /\ UNCHANGED <<journal, corrections, correspondences, pairs, proofs>> /\ call.step = "target"
      /\ call' = [call EXCEPT !.step = "receipt"]
  BY DEF PersistAssessment, To, namespaces
<1>2. /\ call.op \in Ops /\ Asked(call.op, call.version, Tip)
      /\ pairs[call.op].attested /\ pairs[call.op].response.head = Tip
  BY <1>1 DEF IInv, CallInv, Appending
<1> QED
  BY <1>1, <1>2, GoingOnKeeps DEF Appending, Finalizing

LEMMA PersistReceiptKeeps ==
    ASSUME IInv, PersistReceipt
    PROVE  RecordInv' /\ OrderInv' /\ StageInv' /\ JournalInv' /\ CallInv'
<1> DEFINE n == Len(journal) + 1
           r == [op |-> call.op, version |-> call.version]
<1>1. /\ UNCHANGED <<corrections, correspondences, pairs, proofs>> /\ call.step = "receipt"
      /\ journal' = Append(journal, r)
      /\ call' = [call EXCEPT !.step = "correspondence"]
  BY DEF PersistReceipt, To, namespaces
<1>2. /\ call.op \in Ops /\ Resolved(call.op) /\ Asked(call.op, call.version, Tip)
      /\ pairs[call.op].attested /\ pairs[call.op].response.head = Tip
  BY <1>1 DEF IInv, CallInv, Appending
<1>3. /\ DOMAIN journal' = DOMAIN journal \cup {n} /\ n \notin DOMAIN journal
      /\ journal'[n] = r /\ \A i \in DOMAIN journal : journal'[i] = journal[i]
      /\ Len(journal') = n /\ Len(journal) \in Nat
  BY <1>1 DEF IInv, Types
<1>4. Grows /\ Tip' = Tip + 1 /\ Tip \in Nat /\ n - 1 = Tip
  BY <1>1, <1>3 DEF Grows, Tip
<1>5. OrderInv' /\ StageInv'
  BY <1>1, <1>4, OrderStays, StagesStay DEF IInv
<1>6. RecordInv'
  BY <1>1 DEF IInv, RecordInv, Resolved
<1>7. JournalInv'
  <2> SUFFICES ASSUME NEW i \in DOMAIN journal', journal'[i].op \in Ops
               PROVE  (/\ Asked(journal[i].op, journal[i].version, i - 1)
                       /\ Resolved(journal[i].op) /\ pairs[journal[i].op].response.head = i - 1
                       /\ pairs[journal[i].op].attested)'
    BY DEF JournalInv
  <2>1. CASE i \in DOMAIN journal
    BY <2>1, <1>1, <1>3 DEF IInv, JournalInv, Asked, Resolved
  <2>2. CASE i = n
    <3>1. journal'[i].op = call.op /\ journal'[i].version = call.version /\ i - 1 = Tip
      BY <2>2, <1>3, <1>4
    <3>2. Asked(journal[i].op, journal[i].version, i - 1)'
      BY <3>1, <1>1, <1>2 DEF Asked
    <3>3. Resolved(journal[i].op)'
      BY <3>1, <1>1, <1>2 DEF Resolved
    <3> QED
      BY <3>1, <3>2, <3>3, <1>1, <1>2
  <2> QED
    BY <2>1, <2>2, <1>3
<1>8. CallInv'
  <2>1. call'.step = "correspondence" /\ call'.op = call.op
    BY <1>1 DEF IInv, Types
  <2>2. Resolved(call.op)'
    BY <1>1, <1>2, <2>1 DEF Resolved
  <2> QED
    BY <1>2, <2>1, <2>2 DEF CallInv, Resolving, Appending, Finalizing
<1> QED
  BY <1>5, <1>6, <1>7, <1>8

LEMMA PersistCorrespondenceKeeps ==
    ASSUME IInv, PersistCorrespondence
    PROVE  RecordInv' /\ OrderInv' /\ StageInv' /\ JournalInv' /\ CallInv'
<1>1. /\ UNCHANGED <<journal, corrections, pairs, proofs>> /\ call.step = "correspondence"
      /\ call' = [call EXCEPT !.step = "broker"]
  BY DEF PersistCorrespondence, Keeps, To, namespaces
<1>2. call.op \in Ops /\ Resolved(call.op) /\ Requested
  BY <1>1 DEF IInv, CallInv, Appending, PersistCorrespondence
<1>3. PICK t : t = RequestOf(call.op).tip
  OBVIOUS
<1>4. Asked(call.op, call.version, t) /\ t \in Nat /\ t + 1 = Target /\ t + 1 \in Receipts(call.op)
  <2>1. Asked(call.op, call.version, t) /\ Target \in Receipts(call.op)
    BY <1>2, <1>3, TheRequest DEF Requested, IInv, OrderInv
  <2>2. t \in Nat
    BY <2>1 DEF Asked, Correction, IInv, Types, Corrections
  <2> QED
    BY <2>1, <2>2, <1>3 DEF Target
<1>5. CASE Corresponds(Target) /\ UNCHANGED <<proofs, namespaces>>
  <2>1. Advanced(call.op, call.version)
    BY <1>4, <1>5 DEF Advanced
  <2> QED
    BY <1>1, <1>5, <2>1, GoingOnKeeps DEF Appending, Finalizing, namespaces
<1>6. CASE Tip = Target /\ correspondences' = Append(correspondences, Tip)
  <2>1. Grows /\ RecordInv' /\ OrderInv' /\ StageInv' /\ JournalInv' /\ Corresponds(Tip)'
    BY <1>1, <1>6, CorrespondenceKeeps
  <2>2. call'.step = "broker" /\ call'.op = call.op /\ call'.version = call.version
    BY <1>1 DEF IInv, Types
  <2>3. Resolved(call.op)'
    BY <1>1, <1>2, <2>2 DEF Resolved
  <2>4. Advanced(call.op, call.version)'
    <3>1. Asked(call.op, call.version, t)' /\ (t + 1 \in Receipts(call.op))'
      BY <1>1, <1>4, <2>2 DEF Asked, Receipts
    <3>2. Corresponds(t + 1)'
      BY <2>1, <1>4, <1>6, <1>1 DEF Corresponds, Tip
    <3> QED
      BY <3>1, <3>2, <1>4 DEF Advanced
  <2>5. CallInv'
    BY <1>2, <2>2, <2>3, <2>4 DEF CallInv, Resolving, Appending, Finalizing
  <2> QED
    BY <2>1, <2>5
<1> QED
  BY <1>5, <1>6 DEF PersistCorrespondence

----------------------------------------------------------------------------
(* Finalizing.                                                             *)

\* A stage has its place to itself: only the operation whose request is for the
\* place before may write there.
LEMMA PlaceIsFree ==
    ASSUME IInv, NEW stage \in Finalizing, NEW op \in Ops, ~Retained(stage, op),
           NEW v, NEW t \in Nat, Asked(op, v, t)
    PROVE  \A i \in DOMAIN corrections : corrections[i].kind = stage =>
             corrections[i].op # op /\ corrections[i].tip # t + 1
<1>1. PICK q \in DOMAIN corrections : corrections[q] = Correction("request", op, v, t)
  BY DEF Asked
<1>2. corrections[q].kind = "request" /\ corrections[q].op = op /\ corrections[q].tip = t
  BY <1>1 DEF Correction
<1> TAKE i \in DOMAIN corrections
<1> HAVE corrections[i].kind = stage
<1>3. corrections[i].op # op
  BY DEF Retained
<1>4. CASE i = 1
  <2>1. corrections[1].tip <= t /\ corrections[1].tip \in Nat
    BY <1>2, <1>4, CorrectionTypes DEF IInv, OrderInv, Sorted
  <2> QED
    BY <1>3, <1>4, <2>1
<1>5. CASE i # 1
  <2>1. PICK a \in DOMAIN corrections :
          /\ corrections[a].kind = "request" /\ corrections[a].op = corrections[i].op
          /\ corrections[i].tip = corrections[a].tip + 1
    BY <1>5 DEF IInv, StageInv, Follows, Finalizing
  <2>2. corrections[a].tip # t
    BY <1>2, <1>3, <2>1 DEF IInv, OrderInv, Unique
  <2>3. corrections[a].tip \in Nat
    BY CorrectionTypes DEF IInv
  <2> QED
    BY <1>3, <2>1, <2>2, <2>3
<1> QED
  BY <1>4, <1>5

LEMMA StageKeeps ==
    ASSUME IInv, NEW stage \in Finalizing, call.step = stage,
           ~Retained(stage, call.op), Corrects(stage, Target)
    PROVE  /\ RecordInv' /\ OrderInv' /\ StageInv' /\ JournalInv'
           /\ \A k : Retained(k, call.op) \/ k = stage => \E o \in Ops : o = call.op /\ Retained(k, o)'
           /\ \E o \in Ops : \E v : o = call.op /\ v = call.version /\ Advanced(o, v)'
<1>1. PICK r : r = Correction(stage, call.op, call.version, Target)
  OBVIOUS
<1>2. /\ UNCHANGED <<journal, correspondences, pairs, proofs>>
      /\ corrections' = Append(corrections, r) /\ Tip = Target
  BY <1>1 DEF Corrects, Keeps
<1>3. call.op \in Ops /\ Resolved(call.op) /\ Advanced(call.op, call.version)
  BY DEF IInv, CallInv, Appending, Finalizing
<1>4. PICK t \in Nat : Asked(call.op, call.version, t) /\ t + 1 \in Receipts(call.op) /\ Corresponds(t + 1)
  BY <1>3 DEF Advanced
<1>5. Target = t + 1
  BY <1>3, <1>4, TheRequest DEF IInv, OrderInv, Target, Correction
<1>6. /\ r \in Corrections /\ r.kind = stage /\ r.op = call.op /\ r.tip = Tip /\ r.tip = t + 1
      /\ r.version = call.version /\ stage # "request"
  BY <1>1, <1>2, <1>3, <1>5 DEF Corrections, Correction, Kinds, Finalizing, IInv, Types
<1>7. PICK q \in DOMAIN corrections : corrections[q] = Correction("request", call.op, call.version, t)
  BY <1>4 DEF Asked
<1>8. \A i \in DOMAIN corrections : corrections[i].kind = r.kind =>
        corrections[i].op # r.op /\ corrections[i].tip # r.tip
  BY <1>3, <1>4, <1>6, PlaceIsFree
<1>9. corrections # <<>>
  BY <1>7
<1>10. OrderInv'
  BY <1>2, <1>3, <1>6, <1>8, <1>9, AppendKeepsOrder DEF IInv
<1>11. /\ Grows /\ RecordInv' /\ JournalInv' /\ Tip' = Tip
       /\ \A k, o : Retained(k, o)' <=> Retained(k, o) \/ (k = r.kind /\ o = r.op)
       /\ \A o, v : Advanced(o, v) => Advanced(o, v)'
       /\ \A i \in DOMAIN corrections' :
                 \/ i \in DOMAIN corrections /\ corrections'[i] = corrections[i]
                 \/ i = Len(corrections) + 1 /\ corrections'[i] = r
  BY <1>2, <1>6, CorrectionKeeps
<1>12. StageInv'
  <2>1. Staged'
    <3>1. /\ stage = "broker" => Retained("request", call.op)
          /\ stage = "transition" => Retained("broker", call.op)
          /\ stage = "checkpoint" => Retained("transition", call.op)
          /\ stage = "link" => Retained("checkpoint", call.op)
          /\ stage = "projection" => Retained("link", call.op)
      BY <1>3, <1>4, TheRequest DEF IInv, OrderInv, CallInv
    <3> QED
      BY <3>1, <1>6, <1>11 DEF IInv, StageInv, Staged
  <2>2. ASSUME NEW i \in DOMAIN corrections' PROVE Grounded(i)' /\ Follows(i)'
    <3>1. CASE i \in DOMAIN corrections
      BY <3>1, <1>11, GroundsStay DEF IInv
    <3>2. CASE i \notin DOMAIN corrections
      <4>1. corrections'[i] = r /\ i = Len(corrections) + 1
        BY <3>2, <1>11
      <4>2. q < i /\ q \in DOMAIN corrections' /\ corrections'[q] = corrections[q]
        BY <4>1, <1>11 DEF Grows, IInv, Types
      <4>3. \E a \in DOMAIN corrections' :
              /\ a < i /\ corrections'[a].kind = "request" /\ corrections'[a].op = r.op
              /\ corrections'[a].version = r.version /\ r.tip = corrections'[a].tip + 1
        BY <4>2, <1>6, <1>7 DEF Correction
      <4>4. /\ \E j \in DOMAIN correspondences' : correspondences'[j] = r.tip
            /\ r.tip \in DOMAIN journal' /\ journal'[r.tip].op = r.op
        BY <1>2, <1>4, <1>6 DEF Corresponds, Receipts
      <4> QED
        BY <4>1, <4>3, <4>4, <1>6 DEF Grounded, Follows, Corresponds, Receipts
    <3> QED
      BY <3>1, <3>2
  <2> QED
    BY <2>1, <2>2 DEF StageInv
<1> QED
  BY <1>3, <1>6, <1>10, <1>11, <1>12

LEMMA StageStepKeeps ==
    ASSUME IInv, NEW stage \in Stages, PersistStage(stage) \/ ReuseStage(stage)
    PROVE  RecordInv' /\ OrderInv' /\ StageInv' /\ JournalInv' /\ CallInv'
<1>0. stage \in Finalizing /\ After(stage) \in Finalizing /\ After(stage) # "broker"
  BY DEF Stages, Finalizing, After
<1>1. call.step = stage /\ call' = [call EXCEPT !.step = After(stage)]
  BY DEF PersistStage, ReuseStage, To
<1>2. call.op \in Ops /\ Resolved(call.op) /\ Advanced(call.op, call.version)
  BY <1>0, <1>1 DEF IInv, CallInv, Appending, Finalizing
<1>3. CASE ReuseStage(stage)
  <2>1. UNCHANGED <<journal, corrections, correspondences, pairs, proofs>> /\ Retained(stage, call.op)
    BY <1>3 DEF ReuseStage, namespaces, Keeps
  <2>3. /\ After(stage) = "transition" => Retained("broker", call.op)
        /\ After(stage) = "checkpoint" => Retained("transition", call.op)
        /\ After(stage) = "link" => Retained("checkpoint", call.op)
        /\ After(stage) = "projection" => Retained("link", call.op)
    BY <2>1 DEF Stages, After
  <2>4. /\ After(stage) \in Appending /\ call.step \in Appending /\ After(stage) # "genesis"
        /\ After(stage) \notin {"attest", "authorize", "target", "receipt"}
    BY <1>0, <1>1 DEF Appending, Finalizing
  <2> QED
    BY <1>1, <1>2, <2>1, <2>3, <2>4, GoingOnKeeps
<1>4. CASE PersistStage(stage)
  <2>1. UNCHANGED pairs
    BY <1>4 DEF PersistStage, Corrects
  <2>2. /\ RecordInv' /\ OrderInv' /\ StageInv' /\ JournalInv'
        /\ \A k : Retained(k, call.op) \/ k = stage => \E o \in Ops : o = call.op /\ Retained(k, o)'
        /\ \E o \in Ops : \E v : o = call.op /\ v = call.version /\ Advanced(o, v)'
    BY <1>0, <1>1, <1>4, StageKeeps DEF PersistStage
  <2>3. call'.step = After(stage) /\ call'.op = call.op /\ call'.version = call.version
    BY <1>1 DEF IInv, Types
  <2>4. Resolved(call.op)'
    BY <1>2, <2>1, <2>3 DEF Resolved
  <2>5. Retained(stage, call.op)' /\ Advanced(call.op, call.version)'
    BY <2>2, <2>3
  <2>6. /\ After(stage) = "transition" => Retained("broker", call.op)'
        /\ After(stage) = "checkpoint" => Retained("transition", call.op)'
        /\ After(stage) = "link" => Retained("checkpoint", call.op)'
        /\ After(stage) = "projection" => Retained("link", call.op)'
    BY <2>5 DEF Stages, After
  <2>7. CallInv'
    BY <1>0, <1>2, <2>3, <2>4, <2>5, <2>6 DEF CallInv, Resolving, Appending, Finalizing
  <2> QED
    BY <2>2, <2>7
<1> QED
  BY <1>3, <1>4

LEMMA PersistProjectionKeeps ==
    ASSUME IInv, PersistProjection
    PROVE  RecordInv' /\ OrderInv' /\ StageInv' /\ JournalInv' /\ CallInv'
<1>1. call.step = "projection" /\ call' = Idle
  BY DEF PersistProjection, Ends
<1>2. CASE ~Retained("projection", call.op) /\ Corrects("projection", Target)
  <2>1. RecordInv' /\ OrderInv' /\ StageInv' /\ JournalInv'
    BY <1>1, <1>2, StageKeeps DEF Finalizing
  <2>2. CallInv'
    BY <1>1 DEF CallInv, Idle, Resolving, Appending, Finalizing
  <2> QED
    BY <2>1, <2>2
<1>3. CASE Keeps /\ UNCHANGED <<proofs, namespaces>>
  BY <1>1, <1>3, EndingKeeps DEF Keeps, namespaces
<1> QED
  BY <1>2, <1>3 DEF PersistProjection

----------------------------------------------------------------------------
(* The invariant.                                                          *)

LEMMA InvInit == ResolverInit => IInv
<1> SUFFICES ASSUME ResolverInit PROVE IInv
  OBVIOUS
<1> USE DEF ResolverInit, Resolving, Appending, Finalizing, Idle
<1>1. Types
  <2>0. [op |-> Other, version |-> None] \in Receipt
    BY DEF Receipt
  <2>1. journal \in Seq(Receipt)
    BY <2>0
  <2>2. pairs \in [Ops -> Records]
    BY DEF Records, NoRecords
  <2>3. corrections \in Seq(Corrections) /\ correspondences \in Seq(Nat) /\ faults \in Nat
    OBVIOUS
  <2>4. bare \in BOOLEAN /\ revoked \in BOOLEAN /\ up \in BOOLEAN /\ anchor \in Nat \cup {None}
    OBVIOUS
  <2>5. proofs \in [Ops -> Nat \cup {None}]
    OBVIOUS
  <2>6. call \in [step : Resolving \cup Appending \cup {"idle"}, op : Ops \cup {None},
                  version : Versions \cup {None}, head : Nat]
    OBVIOUS
  <2> QED
    BY <2>1, <2>2, <2>3, <2>4, <2>5, <2>6 DEF Types
<1>2. RecordInv
  BY DEF RecordInv, NoRecords
<1>3. OrderInv
  BY DEF OrderInv, Sorted, Owned, Unique, LastExists, Checkpoints
<1>4. StageInv
  BY DEF StageInv, Staged, Retained
<1>5. JournalInv
  BY ResolverAssumption DEF JournalInv
<1>6. CallInv
  BY DEF CallInv
<1> QED
  BY <1>1, <1>2, <1>3, <1>4, <1>5, <1>6 DEF IInv

LEMMA InvStep == IInv /\ [ResolverNext]_vars => IInv'
<1> SUFFICES ASSUME IInv, [ResolverNext]_vars
             PROVE  RecordInv' /\ OrderInv' /\ StageInv' /\ JournalInv' /\ CallInv'
  BY TypesStep DEF IInv
<1> DEFINE Goal == RecordInv /\ OrderInv /\ StageInv /\ JournalInv /\ CallInv
<1>1. CASE Start \/ Revoke \/ UNCHANGED vars
  BY <1>1, OutsideKeeps DEF Start, Revoke, vars, namespaces
<1>2. CASE Refuse \/ Fail
  BY <1>2, EndingKeeps DEF Refuse, Fail, Ends, Keeps, namespaces
<1>3. CASE Crash
  BY <1>3, EndingKeeps DEF Crash, Ends, namespaces
<1>4. CASE OtherAppend
  BY <1>4, OtherAppendKeeps
<1>5. ASSUME NEW o \in Ops, ResolveRetained(o) PROVE Goal'
  <2>1. /\ call = Idle /\ UNCHANGED <<journal, corrections, correspondences, pairs, call>> /\ Recover(o)
        /\ \A p \in Ops : p # o => proofs'[p] = proofs[p]
    BY <1>5 DEF ResolveRetained, Keeps, namespaces, Classify, IInv, Types
  <2>2. call' = Idle /\ \A p \in Ops : proofs'[p] \in {None, proofs[p]} \/ Recover(p)
    BY <2>1
  <2> QED
    BY <2>1, <2>2, EndingKeeps
<1>6. ASSUME NEW o \in Ops, CallResolve(o) PROVE Goal'
  BY <1>6, CallResolveKeeps
<1>7. ASSUME NEW o \in Ops, NEW v \in Versions, CallAppend(o, v) PROVE Goal'
  BY <1>7, CallAppendKeeps
<1>8. CASE Proceeds
  <2>1. ASSUME NEW stage \in Stages, PersistStage(stage) \/ ReuseStage(stage) PROVE Goal'
    BY <2>1, StageStepKeeps
  <2> QED
    BY <1>8, <2>1, PersistControlKeeps, PersistRequestKeeps, PersistResponseKeeps, PersistGenesisKeeps,
       PersistGenesisCheckpointKeeps, AttestKeeps, AuthorizeKeeps, AuthorizeAgainKeeps,
       PersistAssessmentKeeps, PersistReceiptKeeps, PersistCorrespondenceKeeps, PersistProjectionKeeps
    DEF Proceeds
<1> QED
  BY <1>1, <1>2, <1>3, <1>4, <1>5, <1>6, <1>7, <1>8 DEF ResolverNext

----------------------------------------------------------------------------
(* What it promises.                                                       *)

LEMMA InvAuthorizes == IInv => Authorized
<1> SUFFICES ASSUME IInv, NEW i \in Assessments
             PROVE  LET op == journal[i].op IN
                    /\ Retained("request", op) /\ RequestOf(op).version = journal[i].version
                    /\ RequestOf(op).tip = i - 1
                    /\ pairs[op].control = i - 1 /\ pairs[op].response.head = i - 1 /\ pairs[op].attested
                    /\ \E k \in Checkpoints : corrections[k].tip = i - 1
  BY DEF Authorized
<1> DEFINE op == journal[i].op
<1>1. i \in DOMAIN journal /\ op \in Ops
  BY DEF Assessments
<1>2. Asked(op, journal[i].version, i - 1) /\ Resolved(op) /\ pairs[op].response.head = i - 1 /\ pairs[op].attested
  BY <1>1 DEF IInv, JournalInv
<1>3. Retained("request", op) /\ RequestOf(op) = Correction("request", op, journal[i].version, i - 1)
  BY <1>1, <1>2, TheRequest DEF IInv, OrderInv
<1>4. PICK q \in DOMAIN corrections : corrections[q] = Correction("request", op, journal[i].version, i - 1)
  BY <1>2 DEF Asked
<1>5. \E k \in Checkpoints : corrections[k].tip = i - 1
  BY <1>4 DEF IInv, StageInv, Grounded, Correction
<1> QED
  BY <1>2, <1>3, <1>5 DEF Resolved, Correction

LEMMA InvChains == IInv => ChainFollowsReceipts
<1> SUFFICES ASSUME IInv, NEW k \in Checkpoints \ {1}
             PROVE  /\ corrections[k].tip = corrections[Predecessor(k)].tip + 1
                    /\ journal[corrections[k].tip] = [op |-> corrections[k].op, version |-> corrections[k].version]
  BY DEF ChainFollowsReceipts
<1>1. k \in DOMAIN corrections /\ corrections[k].kind = "checkpoint" /\ k # 1 /\ corrections[k].op \in Ops
  BY DEF Checkpoints, IInv, OrderInv, Owned
<1>2. /\ \E a \in DOMAIN corrections :
           /\ a < k /\ corrections[a].kind = "request" /\ corrections[a].op = corrections[k].op
           /\ corrections[a].version = corrections[k].version /\ corrections[k].tip = corrections[a].tip + 1
      /\ corrections[k].tip \in Receipts(corrections[k].op)
  BY <1>1 DEF IInv, StageInv, Follows
<1>3. PICK a \in DOMAIN corrections :
           /\ a < k /\ corrections[a].kind = "request" /\ corrections[a].op = corrections[k].op
           /\ corrections[a].version = corrections[k].version /\ corrections[k].tip = corrections[a].tip + 1
  BY <1>2
<1>4. PICK c \in Checkpoints : corrections[c].tip = corrections[a].tip
  BY <1>3 DEF IInv, StageInv, Grounded
<1>t. \A i \in Checkpoints : i \in DOMAIN corrections /\ i \in Nat /\ corrections[i].tip \in Nat
                             /\ corrections[i].kind = "checkpoint"
  BY CorrectionTypes DEF Checkpoints, IInv
<1>5. corrections[k].tip = corrections[c].tip + 1
  BY <1>3, <1>4
<1>6. c < k
  BY <1>5, <1>t DEF IInv, OrderInv, Sorted
<1>7. ASSUME NEW d \in Checkpoints, d < k PROVE d <= c
  <2>1. corrections[d].tip <= corrections[k].tip /\ corrections[d].tip # corrections[k].tip
    BY <1>7, <1>t DEF IInv, OrderInv, Sorted, Unique
  <2>2. d > c => corrections[c].tip <= corrections[d].tip /\ corrections[d].tip # corrections[c].tip
    BY <1>t DEF IInv, OrderInv, Sorted, Unique
  <2> QED
    BY <2>1, <2>2, <1>5, <1>t
<1>8. Predecessor(k) = c
  <2> DEFINE S == {j \in Checkpoints : j < k}
  <2>1. c \in S /\ (\A y \in S : c >= y) /\ \A x \in S : (\A y \in S : x >= y) => x = c
    BY <1>6, <1>7, <1>t
  <2> QED
    BY <2>1 DEF Predecessor, Max
<1>9. journal[corrections[k].tip] = [op |-> corrections[k].op, version |-> corrections[k].version]
  <2> DEFINE i == corrections[k].tip
  <2>1. i \in DOMAIN journal /\ journal[i].op = corrections[k].op
    BY <1>2 DEF Receipts
  <2>2. PICK q \in DOMAIN corrections :
          corrections[q] = Correction("request", corrections[k].op, journal[i].version, i - 1)
    BY <1>1, <2>1 DEF IInv, JournalInv, Asked
  <2>3. q = a
    BY <1>3, <2>2 DEF Correction, IInv, OrderInv, Unique
  <2>4. journal[i].version = corrections[k].version
    BY <1>3, <2>2, <2>3 DEF Correction
  <2>5. journal[i] \in Receipt
    <3>1. journal \in Seq(Receipt)
      BY DEF IInv, Types
    <3> QED
      BY <2>1, <3>1
  <2> QED
    BY <2>1, <2>4, <2>5 DEF Receipt
<1> QED
  BY <1>5, <1>8, <1>9

LEMMA InvReconstructs == IInv => Reconstructs
<1> SUFFICES ASSUME IInv PROVE Reconstructs
  OBVIOUS
<1>1. ChainFollowsReceipts
  BY InvChains
<1>2. ASSUME NEW op \in Ops, NEW k \in DOMAIN Workflow \ {1}, Retained(Workflow[k], op)
      PROVE  Retained(Workflow[k - 1], op)
  <2>1. k \in {2, 3, 4, 5, 6}
    BY DEF Workflow
  <2> QED
    BY <1>2, <2>1 DEF IInv, StageInv, Staged, Workflow
<1>3. ASSUME NEW i \in DOMAIN corrections, NEW j \in DOMAIN corrections
      PROVE  LET a == corrections[i] b == corrections[j] IN
             /\ (i # j /\ a.kind = b.kind) => a.op # b.op /\ a.tip # b.tip
             /\ (a.kind = "request" /\ b.kind \notin {"request"} /\ a.op = b.op)
                  => /\ i < j /\ b.tip = a.tip + 1 /\ b.version = a.version /\ Corresponds(b.tip)
                     /\ b.tip \in Receipts(b.op)
  <2>1. i # j /\ corrections[i].kind = corrections[j].kind
          => corrections[i].op # corrections[j].op /\ corrections[i].tip # corrections[j].tip
    BY DEF IInv, OrderInv, Unique
  <2>2. ASSUME corrections[i].kind = "request", corrections[j].kind # "request", corrections[i].op = corrections[j].op
        PROVE  /\ i < j /\ corrections[j].tip = corrections[i].tip + 1 /\ corrections[j].version = corrections[i].version
               /\ Corresponds(corrections[j].tip) /\ corrections[j].tip \in Receipts(corrections[j].op)
    <3>1. i # 1 /\ corrections[i].op \in Ops
      BY <2>2 DEF IInv, OrderInv, Owned
    <3>2. j # 1
      BY <2>2, <3>1, ResolverAssumption DEF IInv, OrderInv, Owned
    <3>3. PICK a \in DOMAIN corrections :
           /\ a < j /\ corrections[a].kind = "request" /\ corrections[a].op = corrections[j].op
           /\ corrections[a].version = corrections[j].version /\ corrections[j].tip = corrections[a].tip + 1
      BY <2>2, <3>2 DEF IInv, StageInv, Follows
    <3>4. a = i
      BY <2>2, <3>3 DEF IInv, OrderInv, Unique
    <3> QED
      BY <2>2, <3>2, <3>3, <3>4 DEF IInv, StageInv, Follows
  <2> QED
    BY <2>1, <2>2
<1> QED
  BY <1>1, <1>2, <1>3 DEF Reconstructs

LEMMA InvAlways == ResolverSpec => []IInv
<1> QED
  BY InvInit, InvStep, PTL DEF ResolverSpec

\* Every variable of the resolvers keeps its type.
THEOREM ResolverTypes == ResolverSpec => []Types
<1>1. IInv => Types
  BY DEF IInv
<1> QED
  BY <1>1, InvAlways, PTL

\* An assessment is in the journal only as it was requested, for the place it has, on a
\* checkpoint, a response and an attestation that saw the journal end just before it.
THEOREM OnlyAuthorizedIsAppended == ResolverSpec => []Authorized
<1> QED
  BY InvAlways, InvAuthorizes, PTL

\* Whatever is cut short, the retained records are what a reconstruction accepts, and
\* the checkpoints after the first stand for consecutive receipts of the journal.
THEOREM RetainedReconstructs == ResolverSpec => []Reconstructs
<1> QED
  BY InvAlways, InvReconstructs, PTL

====

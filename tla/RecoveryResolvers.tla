---- MODULE RecoveryResolvers ----
(***************************************************************************)
(* The D9.4.1 recovery resolvers (src/d9/restriction/recovery-resolvers,   *)
(* recovery-identity-v13, recovery): the state of a subject is resolved    *)
(* against the D9.4 journal, classified, and the assessment appended to    *)
(* that journal under a protected request; after the journal's receipt, a  *)
(* chain of further records makes it the next checkpoint.                  *)
(*                                                                         *)
(* One recovery process, restarted after a crash; the journal is shared    *)
(* with others, who append and revoke under the same kernel lock.  A step  *)
(* runs to the next durable append.  Digests, actors and the five sources  *)
(* that never move are left out: a head is a journal length.  So is time:  *)
(* whether the time a record claims is still acceptable is open, and the   *)
(* checks on it may refuse (Refuse).  The journal itself, its locks and    *)
(* failures are Restriction's.                                             *)
(***************************************************************************)
EXTENDS Naturals, Sequences, SequencesExt, FiniteSetsExt

CONSTANTS
  Ops,        \* recovery operations: one id and nonce each
  Versions,   \* the records one operation is submitted with: they differ in their times
  Other,      \* every other journal record
  None,
  MaxOthers, MaxFaults

ASSUME ResolverAssumption == {Other, None} \cap Ops = {} /\ MaxOthers \in Nat /\ MaxFaults \in Nat

VARIABLES
  journal,    \* the receipts of the D9.4 journal: what was appended and in which version
  bare,       \* is an assessment's target persisted without its receipt?
  revoked,    \* is an authority target revoked?
  anchor,     \* None, or the head in the one v1.1 checkpoint
  pairs,      \* per operation: its resolver records
  correspondences, corrections,   \* the two v1.3 namespaces
  up,         \* is the runtime constructed?
  proofs,     \* per operation: None, or the head its classification was proved at
  call,       \* the call under way
  faults

namespaces == <<anchor, pairs, correspondences, corrections>>
vars == <<journal, bare, revoked, namespaces, up, proofs, call, faults>>

\* control: the head the retained D9.1 response observed.  response: None, or the
\* head and the checkpoint the composite response was resolved at.
NoRecords == [control |-> None, request |-> FALSE, response |-> None, attested |-> FALSE]

Idle == [step |-> "idle", op |-> None, version |-> None, head |-> 0]
Resolving == {"control", "request", "response"}
Locked == call.step \notin Resolving \cup {"idle"}

ResolverInit ==
  /\ journal = <<[op |-> Other, version |-> None]>> /\ bare = FALSE /\ revoked = FALSE
  /\ anchor = None /\ pairs = [o \in Ops |-> NoRecords]
  /\ correspondences = <<>> /\ corrections = <<>>
  /\ up = FALSE /\ proofs = [o \in Ops |-> None] /\ call = Idle /\ faults = 0

----------------------------------------------------------------------------
(* What is retained.                                                       *)

\* A correction: its kind, operation, version, and the journal tip it is bound to.
Correction(kind, op, version, tip) == [kind |-> kind, op |-> op, version |-> version, tip |-> tip]

Tip == Len(journal)
Checkpoints == {i \in DOMAIN corrections : corrections[i].kind = "checkpoint"}
Retained(kind, op) == \E i \in DOMAIN corrections : corrections[i].kind = kind /\ corrections[i].op = op
RequestOf(op) == corrections[CHOOSE i \in DOMAIN corrections : corrections[i].kind = "request" /\ corrections[i].op = op]
Corresponds(tip) == \E i \in DOMAIN correspondences : correspondences[i] = tip
Receipts(op) == {i \in DOMAIN journal : journal[i].op = op}

\* checkpointReferences.at(-1), by place: it is the bootstrap's until a transition has
\* its checkpoint; the first correction is the genesis checkpoint.
Reference == IF Checkpoints \subseteq {1} THEN 1 ELSE Max(Checkpoints)
CheckpointHead == IF Reference > 1 THEN corrections[Reference].tip ELSE anchor
Recover(op) == pairs[op].response # None

To(step) == call' = [call EXCEPT !.step = step]
Ends == call' = Idle
Keeps == UNCHANGED <<journal, bare, revoked, up, faults>>

----------------------------------------------------------------------------
(* createD941SyntheticRecoveryResolverRuntime, bootstrapDurability.        *)

Start ==
  /\ ~up /\ ~revoked /\ ~bare
  /\ up' = TRUE /\ anchor' = IF anchor = None THEN Tip ELSE anchor
  /\ UNCHANGED <<journal, bare, revoked, pairs, correspondences, corrections, proofs, call, faults>>

----------------------------------------------------------------------------
(* reconstructD941RecoveryState with resolveComposite, classifyD941Recovery. *)

\* A classification is proved at the journal head the reconstruction began with.
Classify(op, head) == proofs' = [proofs EXCEPT ![op] = IF Tip = head THEN head ELSE None]

\* A retained pair is answered again; half a composite pair is refused for good.
ResolveRetained(op) ==
  /\ up /\ call = Idle /\ ~bare /\ Recover(op)
  /\ Classify(op, Tip) /\ UNCHANGED <<call, namespaces>> /\ Keeps

\* All is observed before any of it is persisted; a retained D9.1 response must have
\* seen the same head, and the head must still be the last checkpoint's.
CallResolve(op) ==
  /\ up /\ call = Idle /\ ~bare /\ ~revoked /\ ~pairs[op].request
  /\ pairs[op].control \in {None, Tip} /\ Tip = CheckpointHead
  /\ call' = [Idle EXCEPT !.step = IF pairs[op].control = None THEN "control" ELSE "request",
                          !.op = op, !.head = Tip]
  /\ UNCHANGED <<proofs, namespaces>> /\ Keeps

PersistControl ==
  /\ call.step = "control" /\ ~bare /\ ~revoked
  /\ pairs' = [pairs EXCEPT ![call.op].control = call.head]
  /\ To("request") /\ UNCHANGED <<proofs, anchor, correspondences, corrections>> /\ Keeps

PersistRequest ==
  /\ call.step = "request" /\ ~bare /\ ~revoked
  /\ pairs' = [pairs EXCEPT ![call.op].request = TRUE]
  /\ To("response") /\ UNCHANGED <<proofs, anchor, correspondences, corrections>> /\ Keeps

PersistResponse ==
  /\ call.step = "response" /\ ~bare /\ ~revoked
  /\ pairs' = [pairs EXCEPT ![call.op].response = [head |-> call.head, checkpoint |-> Reference]]
  /\ Classify(call.op, call.head) /\ Ends
  /\ UNCHANGED <<anchor, correspondences, corrections>> /\ Keeps

----------------------------------------------------------------------------
(* append of an assessment: prepareAppend up to revalidateAtAppend.        *)

CallAppend(op, version) ==
  /\ up /\ call = Idle /\ proofs[op] # None
  /\ \A i \in Receipts(op) : journal[i].version = version
  /\ Receipts(op) = {} => ~bare
  /\ call' = [Idle EXCEPT !.step = IF Receipts(op) # {} THEN "correspondence"
                                   ELSE IF Checkpoints = {} THEN "genesis" ELSE "attest",
                          !.op = op, !.version = version]
  /\ UNCHANGED <<proofs, namespaces>> /\ Keeps

\* persistIdentityV13: an append to a v1.3 namespace is bound to the journal's tip.
Corrects(kind, tip) ==
  /\ Tip = tip
  /\ corrections' = Append(corrections, Correction(kind, call.op, call.version, tip))
  /\ UNCHANGED <<proofs, anchor, pairs, correspondences>> /\ Keeps

\* bootstrapIdentityV13: the first correspondence, then the checkpoint of number 0.
PersistGenesis ==
  /\ call.step = "genesis" /\ correspondences = <<>> /\ ~revoked
  /\ correspondences' = <<Tip>>
  /\ UNCHANGED <<call, proofs, anchor, pairs, corrections>> /\ Keeps

\* A genesis cut between its two appends is completed only if the journal stood still.
PersistGenesisCheckpoint ==
  /\ call.step = "genesis" /\ correspondences # <<>> /\ To("attest")
  /\ correspondences[1] = Tip
  /\ corrections' = Append(corrections, Correction("checkpoint", None, None, Tip))
  /\ UNCHANGED <<proofs, anchor, pairs, correspondences>> /\ Keeps

\* Mutant: the response's heads are not compared.
AttestsAnyHead ==
  /\ call.step = "attest"
  /\ ~pairs[call.op].attested => ~revoked
  /\ pairs' = [pairs EXCEPT ![call.op].attested = TRUE]
  /\ To("authorize") /\ UNCHANGED <<proofs, anchor, correspondences, corrections>> /\ Keeps

\* The heads are those of the response; an attestation is persisted once.
Attest ==
  /\ call.step = "attest" /\ pairs[call.op].response.head = Tip
  /\ ~pairs[call.op].attested => ~revoked
  /\ pairs' = [pairs EXCEPT ![call.op].attested = TRUE]
  /\ To("authorize") /\ UNCHANGED <<proofs, anchor, correspondences, corrections>> /\ Keeps

\* The response's checkpoint is still the last, and the journal's tip is its tip.
Current ==
  /\ pairs[call.op].response.checkpoint = Reference
  /\ corrections[Max(Checkpoints)].tip = Tip

\* Mutant: a place may be requested twice.
UnclaimedByOperation ==
  ~\E i \in DOMAIN corrections : corrections[i].kind = "request" /\ corrections[i].op = call.op

\* No other request of this operation, and none for this place in the journal.
Unclaimed ==
  ~\E i \in DOMAIN corrections :
    corrections[i].kind = "request" /\ (corrections[i].op = call.op \/ corrections[i].tip = Tip)

Authorize ==
  /\ call.step = "authorize" /\ Current /\ To("target")
  /\ Unclaimed /\ Corrects("request", Tip)

AuthorizeAgain ==
  /\ call.step = "authorize" /\ Current /\ To("target")
  /\ Retained("request", call.op)
  /\ RequestOf(call.op).version = call.version /\ RequestOf(call.op).tip = Tip
  /\ UNCHANGED <<proofs, namespaces>> /\ Keeps

\* persistPrepared, if the journal is as classified and the record's time is now.
PersistAssessment ==
  /\ call.step = "target" /\ proofs[call.op] = Tip /\ ~revoked
  /\ bare' = TRUE /\ To("receipt")
  /\ UNCHANGED <<journal, revoked, namespaces, up, proofs, faults>>

PersistReceipt ==
  /\ call.step = "receipt"
  /\ journal' = Append(journal, [op |-> call.op, version |-> call.version]) /\ bare' = FALSE
  /\ To("correspondence") /\ UNCHANGED <<revoked, namespaces, up, proofs, faults>>

----------------------------------------------------------------------------
(* persistAssessmentLink: finalizeIdentityV13, reusing what is retained.   *)

Target == RequestOf(call.op).tip + 1
Requested ==
  /\ Retained("request", call.op) /\ RequestOf(call.op).version = call.version
  /\ Target \in Receipts(call.op)

After(stage) ==
  CASE stage = "broker" -> "transition" [] stage = "transition" -> "checkpoint"
    [] stage = "checkpoint" -> "link" [] stage = "link" -> "projection"

Stages == {"broker", "transition", "checkpoint", "link"}

PersistCorrespondence ==
  /\ call.step = "correspondence" /\ Requested /\ To("broker") /\ ~bare
  /\ \/ /\ Corresponds(Target) /\ UNCHANGED <<proofs, namespaces>>
     \/ /\ ~Corresponds(Target) /\ Tip = Target /\ ~revoked
        /\ correspondences' = Append(correspondences, Tip)
        /\ UNCHANGED <<proofs, anchor, pairs, corrections>>
  /\ Keeps

\* A broker receipt carries the time of its correspondence, so it is not stopped by a
\* revocation after that; the later stages ask the clock, and are.
PersistStage(stage) ==
  /\ call.step = stage
  /\ ~Retained(stage, call.op) /\ To(After(stage))
  /\ stage # "broker" => ~revoked
  /\ Corrects(stage, Target)

\* Mutant: a retained checkpoint is not found again.
RepeatsCheckpoint(stage) ==
  /\ call.step = stage /\ stage # "checkpoint"
  /\ Retained(stage, call.op) /\ To(After(stage))
  /\ UNCHANGED <<proofs, namespaces>> /\ Keeps

ReuseStage(stage) ==
  /\ call.step = stage
  /\ Retained(stage, call.op) /\ To(After(stage))
  /\ UNCHANGED <<proofs, namespaces>> /\ Keeps

PersistProjection ==
  /\ call.step = "projection" /\ Ends
  /\ \/ /\ ~Retained("projection", call.op) /\ ~revoked /\ Corrects("projection", Target)
     \/ /\ Retained("projection", call.op) /\ UNCHANGED <<proofs, namespaces>> /\ Keeps

----------------------------------------------------------------------------
(* Refusals, faults and the others.                                        *)

Proceeds ==
  \/ PersistControl \/ PersistRequest \/ PersistResponse
  \/ PersistGenesis \/ PersistGenesisCheckpoint \/ Attest \/ Authorize \/ AuthorizeAgain
  \/ PersistAssessment \/ PersistReceipt \/ PersistCorrespondence
  \/ \E stage \in Stages : PersistStage(stage) \/ ReuseStage(stage)
  \/ PersistProjection

\* A check fails: the call ends with an error, and what it persisted stays.  The time
\* a record claims may lie outside the response's second, or not be the time it is.
Refuse ==
  /\ call # Idle /\ Ends /\ UNCHANGED <<proofs, namespaces>> /\ Keeps
  /\ call.step \in {"attest", "target"} \/ ~ENABLED Proceeds

\* A store call throws, or the response of the last is lost.
Fail ==
  /\ call # Idle /\ faults < MaxFaults /\ faults' = faults + 1 /\ Ends
  /\ UNCHANGED <<journal, bare, revoked, namespaces, up, proofs>>

Crash ==
  /\ up /\ faults < MaxFaults /\ faults' = faults + 1 /\ Ends
  /\ up' = FALSE /\ proofs' = [o \in Ops |-> None]
  /\ UNCHANGED <<journal, bare, revoked, namespaces>>

OtherAppend ==
  /\ ~Locked /\ ~bare /\ ~revoked /\ Cardinality(Receipts(Other)) <= MaxOthers
  /\ journal' = Append(journal, [op |-> Other, version |-> None])
  /\ UNCHANGED <<bare, revoked, namespaces, up, proofs, call, faults>>

Revoke ==
  /\ ~Locked /\ ~revoked /\ revoked' = TRUE
  /\ UNCHANGED <<journal, bare, namespaces, up, proofs, call, faults>>

ResolverNext ==
  \/ Start \/ Proceeds \/ Refuse \/ Fail \/ Crash \/ OtherAppend \/ Revoke
  \/ \E o \in Ops : ResolveRetained(o) \/ CallResolve(o)
                      \/ \E v \in Versions : CallAppend(o, v)

ResolverSpec == ResolverInit /\ [][ResolverNext]_vars

====

---- MODULE RestrictionLedger ----
(***************************************************************************)
(* The D9.4 ledger of one subject (src/d9/restriction): what a record may  *)
(* follow (semantics.mjs with the frozen matrices of classifications-v1),  *)
(* the state projected from the records (projection.mjs), and the history  *)
(* of the authority every append is checked against (authority.mjs).       *)
(*                                                                         *)
(* Actors, approvals, digests and nonces are left out: a record is what it *)
(* says and where it stands.  Times are the code's millisecond stamps; the *)
(* window of the destructive snapshot is Window of them.                   *)
(***************************************************************************)
EXTENDS Naturals, Sequences, SequencesExt, FiniteSetsExt

CONSTANTS
  Holds,      \* control streams of restrictions, quarantines and holds
  Deletions,  \* deletion operations, each with one control and one execution stream
  Targets,    \* TARGETS: what an authority revocation names
  Lifetimes,  \* how long an authorization may last
  Window,     \* the closed window of the destructive snapshot
  None

VARIABLES
  ledger,   \* the targets that have their global receipt, in receipt order
  bare,     \* None, or the target persisted without its receipt
  events,   \* the authority events after the one selection
  clock

ledgerVars == <<ledger, bare, events, clock>>

\* A record: its format and kind, the kind it means (a correction means the kind
\* it corrects), its stream, the record it corrects (0: none), when it takes
\* effect, when it is persisted, and when the authorization it gives ends.
Record(format, kind, stream) ==
  [format |-> format, kind |-> kind, means |-> kind, stream |-> stream,
   corrects |-> 0, effective |-> clock, at |-> clock, expires |-> 0]

Control(kind, stream) == Record("control", kind, stream)

HeadAt == IF ledger = <<>> THEN 0 ELSE Last(ledger).at

----------------------------------------------------------------------------
(* What a record may follow.                                               *)

Indices(format, stream) == {i \in DOMAIN ledger : ledger[i].format = format /\ ledger[i].stream = stream}

\* The kind the stream's last record means, "none" for an empty stream.
Leaf(format, stream) ==
  LET here == Indices(format, stream) IN IF here = {} THEN "none" ELSE ledger[Max(here)].means

ImposedKinds == {"restriction_imposed", "quarantine_imposed", "hold_imposed"}
ReleaseOf == [restriction_imposed |-> "restriction_released",
              quarantine_imposed |-> "quarantine_released", hold_imposed |-> "hold_released"]

ControlTransitions ==
  {<<"none", k>> : k \in ImposedKinds \cup {"deletion_requested", "propagation_asserted"}}
    \cup {<<k, ReleaseOf[k]>> : k \in ImposedKinds}
    \cup {<<"deletion_requested", "deletion_authorized">>, <<"deletion_requested", "deletion_denied">>,
          <<"deletion_authorized", "tombstone_applied">>,
          <<"deletion_authorized", "deletion_authorization_revoked">>,
          <<"tombstone_applied", "deletion_authorization_revoked">>}

Correctable == ImposedKinds \cup {ReleaseOf[k] : k \in ImposedKinds}
                 \cup {"deletion_requested", "deletion_denied", "propagation_asserted"}
Withdrawable == {"deletion_requested", "deletion_denied", "propagation_asserted"}

\* assertControlMatrix: a transition of the frozen table, or a correction or a
\* withdrawal of the stream's current leaf, at the same effective point.
ControlFits(rec) ==
  CASE rec.kind = "control_corrected" -> rec.means = Leaf("control", rec.stream) /\ rec.means \in Correctable
    [] rec.kind = "control_withdrawn" -> Leaf("control", rec.stream) \in Withdrawable
    [] OTHER -> /\ <<Leaf("control", rec.stream), rec.kind>> \in ControlTransitions
                /\ rec.kind = "deletion_authorized" => rec.expires > rec.at

\* An access record needs a control record of the subject as its trigger.
AccessFits(rec) ==
  /\ \E i \in DOMAIN ledger : ledger[i].format = "control"
  /\ CASE rec.kind \in {"capability_revoked", "descriptor_termination_requested"} -> Leaf("access", rec.stream) = "none"
       [] OTHER -> Leaf("access", rec.stream) = "descriptor_termination_requested"

ExecutionTransitions ==
  {<<"none", "execution_started">>, <<"execution_started", "inventory_observed">>,
   <<"inventory_observed", "unlink_attempted">>, <<"unlink_attempted", "primary_absence_verified">>}

AccessKinds == {"capability_revoked", "descriptor_termination_requested", "descriptor_termination_confirmed"}

\* All there can be on a ledger.
Formats == {"control", "access", "execution", "receipt"}
Kinds == {step[2] : step \in ControlTransitions \cup ExecutionTransitions}
           \cup AccessKinds \cup {"control_corrected", "control_withdrawn", "deletion_receipt"}
Streams == Holds \cup Deletions \cup {"capability", "descriptor"}
LedgerRecord ==
  [format: Formats, kind: Kinds, means: Kinds, stream: Streams,
   corrects: Nat, effective: Nat, at: Nat, expires: Nat]

ASSUME RestrictionAssumption ==
  /\ Window \in Nat /\ Lifetimes \subseteq Nat
  /\ Holds \cap Deletions = {} /\ None \notin Holds \cup Deletions \cup LedgerRecord

Has(format, kind, stream) == \E i \in Indices(format, stream) : ledger[i].kind = kind

\* assertExecutionMatrix: the tombstone and the authorization cited are on record.
ExecutionFits(rec) ==
  /\ <<Leaf("execution", rec.stream), rec.kind>> \in ExecutionTransitions
  /\ Has("control", "deletion_authorized", rec.stream) /\ Has("control", "tombstone_applied", rec.stream)

ReceiptFits(rec) ==
  /\ \A k \in {"unlink_attempted", "primary_absence_verified"} : Has("execution", k, rec.stream)
  /\ \A k \in {"deletion_requested", "deletion_authorized", "tombstone_applied"} : Has("control", k, rec.stream)
  /\ Leaf("receipt", rec.stream) = "none"

SemanticsHold(rec) ==
  CASE rec.format = "control" -> ControlFits(rec)
    [] rec.format = "access" -> AccessFits(rec)
    [] rec.format = "execution" -> ExecutionFits(rec)
    [] rec.format = "receipt" -> ReceiptFits(rec)

----------------------------------------------------------------------------
(* The projected state of the subject.                                     *)

Superseded == {ledger[i].corrects : i \in DOMAIN ledger} \ {0}

\* The receipt positions of the control records that a projection as of some time
\* counts, in the given streams and of kinds that mean one of the given.
Active(asOf, streams, kinds) ==
  {i \in DOMAIN ledger :
     /\ ledger[i].format = "control" /\ ledger[i].stream \in streams /\ ledger[i].means \in kinds
     /\ ledger[i].effective <= asOf /\ i \notin Superseded /\ ledger[i].kind # "control_withdrawn"}

SameStream(i, positions) == {j \in positions : ledger[j].stream = ledger[i].stream}

\* leaves: the last position of each stream.
Leaves(positions) == {i \in positions : i = Max(SameStream(i, positions))}

AnyDeletion == Holds \cup Deletions

\* anyActive: a release in one stream never clears what another imposes.
AnyActive(imposed, asOf) ==
  \E i \in Leaves(Active(asOf, AnyDeletion, {imposed, ReleaseOf[imposed]})) : ledger[i].means = imposed

ActiveHold(asOf) == AnyActive("hold_imposed", asOf)

\* latest: the leaf of the stream that came last into the history, if there is one.
Latest(positions) ==
  {i \in Leaves(positions) :
     \A j \in positions : Min(SameStream(j, positions)) <= Min(SameStream(i, positions))}

Tombstoned(asOf, streams) == Latest(Active(asOf, streams, {"tombstone_applied"})) # {}

AuthorizationActive(asOf, streams) ==
  \E i \in Latest(Active(asOf, streams,
                {"deletion_authorized", "deletion_authorization_revoked", "deletion_denied"})) :
    ledger[i].means = "deletion_authorized" /\ ledger[i].expires > asOf

AccessShutdown ==
  /\ Leaf("access", "capability") = "capability_revoked"
  /\ Leaf("access", "descriptor") = "descriptor_termination_confirmed"

\* assertD941DeletionEligible over a projection.  That the backup state is
\* unknown always holds: no backup record ends it before D9.5.
Eligible(asOf, streams) ==
  Tombstoned(asOf, streams) /\ AuthorizationActive(asOf, streams) /\ AccessShutdown /\ ~ActiveHold(asOf)

----------------------------------------------------------------------------
(* What reconstructD941RecoveryState makes of a readable ledger.           *)

Incomplete(d) ==
  /\ Indices("execution", d) # {}
  /\ ~\E r \in Indices("receipt", d) :
       /\ \A k \in {"unlink_attempted", "primary_absence_verified"} : Has("execution", k, d)
       /\ \A i \in Indices("execution", d) : i < r

LedgerState == IF \E d \in Deletions : Incomplete(d) THEN "recovery_required" ELSE "linear_complete"

----------------------------------------------------------------------------
(* The authority.  The selection is taken to have happened at time 0.      *)

\* validateEventChain: persistence times strictly increase, or nothing is read.
ChainReads ==
  \A i \in DOMAIN events : events[i].at > (IF i = 1 THEN 0 ELSE events[i - 1].at)

RevokedAt(at) == {events[i].target : i \in {j \in DOMAIN events : events[j].at <= at}}

\* revalidateSession: one revoked target ends every session from then on.
SessionsLive(at) == ChainReads /\ RevokedAt(at) = {}

\* Mutant: revoked only if before the record's effective point.
Prepared_semanticOnly(rec) ==
  /\ bare = None
  /\ SessionsLive(rec.effective)
  /\ rec.at > HeadAt /\ rec.effective <= rec.at
  /\ SemanticsHold(rec)

\* Mutant: the clock is read again after the effect.
Prepared_rereadClock(rec) ==
  /\ SessionsLive(rec.at)
  /\ bare = None
  /\ rec.at = clock /\ rec.at > HeadAt /\ rec.effective <= rec.at
  /\ SemanticsHold(rec)

\* prepareAppend, for a record to be persisted at rec.at.
Prepared(rec) ==
  /\ SessionsLive(rec.at)
  /\ bare = None
  /\ rec.at > HeadAt /\ rec.effective <= rec.at
  /\ SemanticsHold(rec)
====

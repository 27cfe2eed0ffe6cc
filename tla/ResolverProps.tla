---- MODULE ResolverProps ----
(***************************************************************************)
(* What the recovery resolvers promise of the records they retain.         *)
(***************************************************************************)
EXTENDS RecoveryResolvers

Assessments == {i \in DOMAIN journal : journal[i].op \in Ops}

Predecessor(k) == Max({j \in Checkpoints : j < k})

ChainFollowsReceipts ==
  \A k \in Checkpoints \ {1} :
    LET r == corrections[k] IN
    /\ r.tip = corrections[Predecessor(k)].tip + 1
    /\ journal[r.tip] = [op |-> r.op, version |-> r.version]

\* An assessment in the journal was requested in exactly that version, for exactly that
\* place, before it was appended: against a checkpoint, a composite response and an
\* attestation which all saw the journal end at the receipt before it.
Authorized ==
  \A i \in Assessments :
    LET op == journal[i].op IN
    /\ Retained("request", op) /\ RequestOf(op).version = journal[i].version /\ RequestOf(op).tip = i - 1
    /\ pairs[op].control = i - 1 /\ pairs[op].response.head = i - 1 /\ pairs[op].attested
    /\ \E k \in Checkpoints : corrections[k].tip = i - 1

\* However calls fail and the process is killed, what is retained is what
\* validateIdentityState accepts: the stages of an operation form a prefix, each bound
\* to the receipt after its request's, and no operation or place is claimed twice.
\* And every checkpoint after the first stands for one receipt of the journal, that of
\* the assessment it names, next after the one its predecessor stands for: none is
\* skipped, forked, or advanced by a record nobody was authorized to append.
Workflow == <<"request", "broker", "transition", "checkpoint", "link", "projection">>
Reconstructs ==
  /\ ChainFollowsReceipts
  /\ \A op \in Ops : \A k \in DOMAIN Workflow \ {1} :
       Retained(Workflow[k], op) => Retained(Workflow[k - 1], op)
  /\ \A i, j \in DOMAIN corrections :
       LET a == corrections[i] b == corrections[j] IN
       /\ (i # j /\ a.kind = b.kind) => a.op # b.op /\ a.tip # b.tip
       /\ (a.kind = "request" /\ b.kind \notin {"request"} /\ a.op = b.op)
            => /\ i < j /\ b.tip = a.tip + 1 /\ b.version = a.version /\ Corresponds(b.tip)
               /\ b.tip \in Receipts(b.op)

\* An assessment whose receipt ends the journal gets its checkpoint, link and projection,
\* through failures and kills, if its caller repeats the append until it returns: unless
\* another record is written first or the authority is revoked.
Finalizes ==
  \A op \in Ops :
    (\E i \in DOMAIN journal : journal[i].op = op)
      ~> (Retained("projection", op) \/ revoked \/ Last(journal).op # op \/ bare)

ResolverFairSpec ==
  /\ ResolverSpec /\ WF_vars(Start) /\ WF_vars(Proceeds \/ Refuse)
  /\ \A op \in Ops : SF_vars(ResolveRetained(op) /\ proofs[op] = None)
  /\ \A op \in Ops : SF_vars(\E v \in Versions : CallAppend(op, v) /\ Receipts(op) # {})

====

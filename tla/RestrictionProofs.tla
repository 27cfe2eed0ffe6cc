------------------------- MODULE RestrictionProofs -------------------------
(***************************************************************************)
(* Proofs about Restriction: what the ledger says of holds and deletions,  *)
(* what it attests, and what each caller inside the operation lock knows.  *)
(***************************************************************************)
EXTENDS RestrictionProps, FiniteSetTheorems, TLAPS

-----------------------------------------------------------------------------
(* Types *)

Steps == {"idle", "receipt", "shutting", "target", "start", "inspect", "inventory", "destroy",
          "unlink", "sync", "verify", "certify", "certified", "revoke"}
Afters == {"idle", "shutting", "inspect", "destroy", "verify", "certify"}

Job == [step: Steps, rec: LedgerRecord \cup {None}, after: Afters, deletion: Deletions \cup {None},
        asOf: Nat, at: Nat, target: Targets \cup {None}, heads: Nat, records: Seq(AccessKinds)]

Event == [target: Targets, at: Nat]

TypeOK ==
    /\ ledger \in Seq(LedgerRecord) /\ bare \in LedgerRecord \cup {None}
    /\ events \in Seq(Event) /\ clock \in Nat
    /\ lock \in Callers \cup {None} /\ job \in [Callers -> Job]
    /\ name \in {"present", "unlinked", "absent"}
    /\ capability \in BOOLEAN /\ receiver \in BOOLEAN /\ faults \in Nat

-----------------------------------------------------------------------------
(* The ledger *)

\* Where the execution of a deletion stands.
Rank(kind) == CASE kind = "execution_started" -> 1
                [] kind = "inventory_observed" -> 2
                [] kind = "unlink_attempted" -> 3
                [] kind = "primary_absence_verified" -> 4
ExecutionKinds == {"execution_started", "inventory_observed", "unlink_attempted", "primary_absence_verified"}

\* What a record is by itself: only a correction means another kind, and what
\* is corrected or withdrawn stands earlier in the stream.
Sound(r, i) ==
    /\ r.effective <= r.at
    /\ r.format # "control" \/ r.kind # "control_corrected" => r.means = r.kind
    /\ r.corrects # 0 => /\ r.corrects \in 1 .. (i - 1)
                         /\ r.format = "control" /\ ledger[r.corrects].format = "control"
                         /\ ledger[r.corrects].stream = r.stream

\* Receipts follow one another in time, and every stream has a last record.
OrderInv ==
    /\ \A i \in DOMAIN ledger : Sound(ledger[i], i)
    /\ \A i, j \in DOMAIN ledger : i < j => ledger[i].at < ledger[j].at
    /\ \A f \in Formats, s \in Streams : Indices(f, s) # {} =>
         \E m \in Indices(f, s) : \A i \in Indices(f, s) : m >= i

\* After a tombstone only its revocation follows.
TombstoneInv ==
    \A s \in Streams : \A i \in Indices("control", s) :
        ledger[i].means = "tombstone_applied" =>
            Leaf("control", s) \in {"tombstone_applied", "deletion_authorization_revoked"}

\* An execution takes its four steps in order, each of them once.
CourseInv ==
    \A s \in Streams : \A i \in Indices("execution", s) :
        /\ ledger[i].kind \in ExecutionKinds
        /\ \A j \in Indices("execution", s) : i < j => Rank(ledger[i].kind) < Rank(ledger[j].kind)
        /\ \A k \in ExecutionKinds : Rank(k) < Rank(ledger[i].kind) => Has("execution", k, s)

LedgerInv == OrderInv /\ TombstoneInv /\ CourseInv

\* A record that may be the next, whatever time it is.
Fits(r) ==
    /\ r.at > HeadAt /\ SemanticsHold(r)
    /\ Sound(r, Len(ledger) + 1)

BareInv == bare # None => Fits(bare)

-----------------------------------------------------------------------------
(* What the records attest *)

Attested(r) ==
    /\ r.format = "execution" /\ r.kind = "unlink_attempted" => name = "absent"
    /\ r.format = "access" /\ r.kind = "capability_revoked" => ~capability
    /\ r.format = "access" /\ r.kind = "descriptor_termination_confirmed" => ~receiver
    /\ r.format = "receipt" =>
         /\ r.kind = "deletion_receipt"
         /\ \A k \in {"unlink_attempted", "primary_absence_verified"} : Has("execution", k, r.stream)

AttestedInv == \A r \in Written : Attested(r)

-----------------------------------------------------------------------------
(* What the callers know *)

Locked == {"receipt", "shutting", "target", "sync", "unlink"}
Counted == {"shutting", "target", "sync", "unlink"}
Deleting == {"start", "inspect", "inventory", "destroy", "unlink", "sync", "verify", "certify", "certified"}
DeletingAfters == {"inspect", "destroy", "verify", "certify"}

\* The records of removals.
Attempts == {r \in LedgerRecord : /\ r.format = "execution" /\ r.kind = "unlink_attempted"
                                  /\ r.stream \in Deletions}

\* Who has the lock works with the ledger and the authority it took it for; a
\* record whose effect is under way was prepared before any revocation.
Knows(c) ==
    /\ job[c].step \in Locked => lock = c
    /\ job[c].step = "receipt" => bare # None /\ events = <<>>
    /\ job[c].step \in Counted \/ (job[c].after = "shutting" /\ job[c].step = "receipt") =>
         job[c].heads = Len(events)
    /\ job[c].step \in {"sync", "target"} =>
         /\ events = <<>>
         /\ \E r \in LedgerRecord :
              /\ r = job[c].rec /\ Prepared(r) /\ Fits(r)
              /\ job[c].step = "sync" => r \in Attempts
              /\ job[c].step = "target" => (r \in Attempts \/ r.format = "access") /\ Attested(r)
    /\ job[c].step \in Deleting \/ job[c].after \in DeletingAfters => job[c].deletion \in Deletions
    /\ job[c].step = "revoke" => job[c].target \in Targets
    /\ job[c].at <= clock

KnowsInv ==
    /\ \A c \in Callers : Knows(c)
    /\ \A i \in DOMAIN events : events[i].at <= clock

\* A name that is not there was removed by an execution that is on record, and
\* if nothing failed so is the removal, or its caller is about to record it.
RemovalInv ==
    name # "present" =>
        /\ \E d \in Deletions : Indices("execution", d) # {}
        /\ faults = 0 =>
             \/ \E d \in Deletions : OnRecord("execution", "unlink_attempted", d)
             \/ \E c \in Callers : job[c].step \in {"sync", "target"} /\ job[c].rec \in Attempts

IInv == TypeOK /\ LedgerInv /\ BareInv /\ AttestedInv /\ KnowsInv /\ RemovalInv

-----------------------------------------------------------------------------
(* Vocabulary *)

LEMMA MaxIs ==
    ASSUME NEW S \in SUBSET Int, NEW m \in S, \A y \in S : m >= y
    PROVE  Max(S) = m
<1>1. \A x \in S : (\A y \in S : x >= y) => x = m
  OBVIOUS
<1> QED
  BY <1>1 DEF Max

LEMMA IndicesAre ==
    ASSUME TypeOK, NEW f, NEW s
    PROVE  Indices(f, s) \subseteq 1 .. Len(ledger) /\ Indices(f, s) \in SUBSET Int
BY DEF TypeOK, Indices

\* The last record of a stream that has one.
LEMMA LastRecord ==
    ASSUME TypeOK, OrderInv, NEW f \in Formats, NEW s \in Streams, Indices(f, s) # {}
    PROVE  /\ Max(Indices(f, s)) \in Indices(f, s)
           /\ \A i \in Indices(f, s) : Max(Indices(f, s)) >= i
           /\ Leaf(f, s) = ledger[Max(Indices(f, s))].means
<1>1. PICK m \in Indices(f, s) : \A i \in Indices(f, s) : m >= i
  BY DEF OrderInv
<1>2. Max(Indices(f, s)) = m
  BY <1>1, IndicesAre, MaxIs
<1> QED
  BY <1>1, <1>2 DEF Leaf

LEMMA LeafIsMet ==
    ASSUME TypeOK, OrderInv, NEW f \in Formats, NEW s \in Streams, Leaf(f, s) # "none"
    PROVE  Indices(f, s) # {}
BY DEF Leaf

LEMMA HeadIsLast ==
    ASSUME TypeOK, OrderInv
    PROVE  /\ HeadAt \in Nat
           /\ \A i \in DOMAIN ledger : ledger[i].at <= HeadAt
<1>0. \A i \in DOMAIN ledger : ledger[i].at \in Nat
  <2>1. \A i \in DOMAIN ledger : ledger[i] \in LedgerRecord
    BY DEF TypeOK
  <2> QED
    BY <2>1 DEF LedgerRecord
<1>1. CASE ledger = <<>>
  BY <1>1 DEF HeadAt
<1>2. CASE ledger # <<>>
  <2>1. Len(ledger) \in DOMAIN ledger /\ HeadAt = ledger[Len(ledger)].at /\ HeadAt \in Nat
    BY <1>0, <1>2 DEF HeadAt, Last, TypeOK
  <2>2. \A i \in DOMAIN ledger : i < Len(ledger) \/ i = Len(ledger)
    BY DEF TypeOK
  <2> QED
    BY <1>0, <2>1, <2>2 DEF OrderInv
<1> QED
  BY <1>1, <1>2

-----------------------------------------------------------------------------
(* One record more *)

\* What an append does to the indices, the leaves and the head.
LEMMA Appended ==
    ASSUME TypeOK, OrderInv, bare \in LedgerRecord, Fits(bare), ledger' = Append(ledger, bare)
    PROVE  /\ Len(ledger') = Len(ledger) + 1 /\ DOMAIN ledger' = DOMAIN ledger \cup {Len(ledger) + 1}
           /\ \A i \in DOMAIN ledger : ledger'[i] = ledger[i]
           /\ ledger'[Len(ledger) + 1] = bare
           /\ \A f, s : Indices(f, s)' = Indices(f, s) \cup
                 (IF bare.format = f /\ bare.stream = s THEN {Len(ledger) + 1} ELSE {})
           /\ \A f \in Formats, s \in Streams : Leaf(f, s)' =
                 IF bare.format = f /\ bare.stream = s THEN bare.means ELSE Leaf(f, s)
           /\ ledger' \in Seq(LedgerRecord)
<1> DEFINE n == Len(ledger) + 1
<1>0. ledger \in Seq(LedgerRecord) /\ n \in Nat
  BY DEF TypeOK
<1>1. /\ Len(ledger') = n /\ DOMAIN ledger' = DOMAIN ledger \cup {n}
      /\ \A i \in DOMAIN ledger : ledger'[i] = ledger[i]
      /\ ledger'[n] = bare /\ ledger' \in Seq(LedgerRecord)
  BY <1>0
<1>2. ASSUME NEW f, NEW s
      PROVE  Indices(f, s)' = Indices(f, s) \cup (IF bare.format = f /\ bare.stream = s THEN {n} ELSE {})
  BY <1>1 DEF Indices
<1>3. ASSUME NEW f \in Formats, NEW s \in Streams
      PROVE  Leaf(f, s)' = IF bare.format = f /\ bare.stream = s THEN bare.means ELSE Leaf(f, s)
  <2>0. Indices(f, s) \subseteq 1 .. Len(ledger) /\ Indices(f, s)' \in SUBSET Int
    BY <1>0, <1>1, <1>2, IndicesAre
  <2>1. CASE bare.format = f /\ bare.stream = s
    <3>1. n \in Indices(f, s)' /\ \A i \in Indices(f, s)' : n >= i
      BY <1>0, <1>2, <2>0, <2>1
    <3>2. Max(Indices(f, s)') = n
      BY <2>0, <3>1, MaxIs
    <3> QED
      BY <1>1, <2>1, <3>1, <3>2 DEF Leaf
  <2>2. CASE ~(bare.format = f /\ bare.stream = s)
    <3>1. Indices(f, s)' = Indices(f, s)
      BY <1>2, <2>2
    <3>2. CASE Indices(f, s) = {}
      BY <2>2, <3>1, <3>2 DEF Leaf
    <3>3. CASE Indices(f, s) # {}
      <4>1. Max(Indices(f, s)) \in DOMAIN ledger
        BY <3>3, LastRecord DEF Indices
      <4>2. Max(Indices(f, s)') = Max(Indices(f, s))
        BY <3>1
      <4>3. Leaf(f, s)' = ledger'[Max(Indices(f, s))].means
        BY <3>1, <3>3, <4>2 DEF Leaf
      <4> QED
        BY <1>1, <2>2, <3>3, <4>1, <4>3 DEF Leaf
    <3> QED
      BY <3>2, <3>3
  <2> QED
    BY <2>1, <2>2
<1> QED
  BY <1>1, <1>2, <1>3

\* What may come next keeps the ledger in order ...
LEMMA AppendOrdered ==
    ASSUME TypeOK, OrderInv, bare \in LedgerRecord, Fits(bare), ledger' = Append(ledger, bare)
    PROVE  OrderInv'
<1> DEFINE n == Len(ledger) + 1
<1>0. n \in Nat /\ DOMAIN ledger = 1 .. (n - 1) /\ DOMAIN ledger' = 1 .. n
  BY Appended DEF TypeOK
<1>1. \A i \in DOMAIN ledger' : Sound(ledger[i], i)'
  <2>1. ASSUME NEW i \in DOMAIN ledger
        PROVE  Sound(ledger[i], i)'
    <3>1. Sound(ledger[i], i) /\ ledger'[i] = ledger[i]
      BY <2>1, Appended DEF OrderInv
    <3>2. ledger[i].corrects # 0 =>
             ledger[i].corrects \in DOMAIN ledger /\ ledger'[ledger[i].corrects] = ledger[ledger[i].corrects]
      BY <1>0, <3>1, Appended DEF Sound
    <3> QED
      BY <3>1, <3>2 DEF Sound
  <2>2. ASSUME NEW i \in DOMAIN ledger', i \notin DOMAIN ledger
        PROVE  Sound(ledger[i], i)'
    <3>1. i = n /\ ledger'[i] = bare /\ Sound(bare, i)
      BY <1>0, <2>2, Appended DEF Fits
    <3>2. bare.corrects # 0 =>
             bare.corrects \in DOMAIN ledger /\ ledger'[bare.corrects] = ledger[bare.corrects]
      BY <1>0, <3>1, Appended DEF Sound
    <3> QED
      BY <3>1, <3>2 DEF Sound
  <2> QED
    BY <1>0, <2>1, <2>2
<1>2. \A i, j \in DOMAIN ledger' : i < j => ledger'[i].at < ledger'[j].at
  <2>1. \A i \in DOMAIN ledger : ledger[i].at <= HeadAt /\ ledger'[i] = ledger[i] /\ ledger[i].at \in Nat
    <3>1. \A i \in DOMAIN ledger : ledger[i] \in LedgerRecord
      BY DEF TypeOK
    <3> QED
      BY <3>1, HeadIsLast, Appended DEF LedgerRecord
  <2>2. ledger'[n] = bare /\ bare.at > HeadAt /\ bare.at \in Nat /\ HeadAt \in Nat
    BY Appended, HeadIsLast DEF Fits, LedgerRecord
  <2> QED
    BY <1>0, <2>1, <2>2 DEF OrderInv
<1>3. ASSUME NEW f \in Formats, NEW s \in Streams, Indices(f, s)' # {}
      PROVE  \E m \in Indices(f, s)' : \A i \in Indices(f, s)' : m >= i
  <2>1. Indices(f, s) \subseteq 1 .. (n - 1)
    BY IndicesAre, <1>0
  <2>2. CASE bare.format = f /\ bare.stream = s
    BY <1>0, <2>1, <2>2, Appended
  <2>3. CASE ~(bare.format = f /\ bare.stream = s)
    BY <1>3, <2>3, Appended DEF OrderInv
  <2> QED
    BY <2>2, <2>3
<1> QED
  BY <1>1, <1>2, <1>3 DEF OrderInv

\* ... a tombstone that stands ...
LEMMA AppendTombstones ==
    ASSUME TypeOK, LedgerInv, bare \in LedgerRecord, Fits(bare), ledger' = Append(ledger, bare)
    PROVE  TombstoneInv'
<1> DEFINE n == Len(ledger) + 1
<1> USE DEF LedgerInv
<1>1. SUFFICES ASSUME NEW s \in Streams, NEW i \in Indices("control", s)',
                      ledger'[i].means = "tombstone_applied"
               PROVE  Leaf("control", s)' \in {"tombstone_applied", "deletion_authorization_revoked"}
  BY DEF TombstoneInv
<1>2. "control" \in Formats /\ n \notin Indices("control", s)
  BY IndicesAre DEF Formats, TypeOK
<1>3. CASE ~(bare.format = "control" /\ bare.stream = s)
  <2>1. i \in Indices("control", s) /\ ledger'[i] = ledger[i]
    BY <1>1, <1>3, Appended DEF Indices
  <2> QED
    BY <1>1, <1>2, <1>3, <2>1, Appended DEF TombstoneInv
<1>4. CASE bare.format = "control" /\ bare.stream = s
  <2>1. Leaf("control", s)' = bare.means /\ ControlFits(bare)
    BY <1>2, <1>4, Appended DEF Fits, SemanticsHold
  <2>2. CASE i = n
    BY <1>1, <2>1, <2>2, Appended
  <2>3. CASE i # n
    <3>1. i \in Indices("control", s) /\ ledger[i].means = "tombstone_applied"
      BY <1>1, <1>4, <2>3, Appended DEF Indices
    <3>2. Leaf("control", s) \in {"tombstone_applied", "deletion_authorization_revoked"}
      BY <1>1, <3>1 DEF TombstoneInv
    <3>3. bare.kind = "deletion_authorization_revoked" /\ bare.kind # "control_withdrawn"
            /\ bare.kind # "control_corrected"
      <4>1. Leaf("control", s) \notin Correctable /\ Leaf("control", s) \notin Withdrawable
        BY <3>2 DEF Correctable, Withdrawable, ImposedKinds, ReleaseOf
      <4>2. bare.kind # "control_corrected" /\ bare.kind # "control_withdrawn"
        BY <1>4, <2>1, <4>1 DEF ControlFits
      <4>3. <<Leaf("control", s), bare.kind>> \in ControlTransitions
        BY <1>4, <2>1, <4>2 DEF ControlFits
      <4> QED
        BY <3>2, <4>2, <4>3 DEF ControlTransitions, ImposedKinds, ReleaseOf
    <3> QED
      BY <1>4, <2>1, <3>3 DEF Fits, Sound
  <2> QED
    BY <2>2, <2>3
<1> QED
  BY <1>3, <1>4

\* ... and the course of every execution.
LEMMA RankIs ==
    /\ Rank("execution_started") = 1 /\ Rank("inventory_observed") = 2
    /\ Rank("unlink_attempted") = 3 /\ Rank("primary_absence_verified") = 4
BY DEF Rank

LEMMA AppendCourses ==
    ASSUME TypeOK, LedgerInv, bare \in LedgerRecord, Fits(bare), ledger' = Append(ledger, bare)
    PROVE  CourseInv'
<1> DEFINE n == Len(ledger) + 1
<1> USE DEF LedgerInv
<1>1. SUFFICES ASSUME NEW s \in Streams, NEW i \in Indices("execution", s)'
               PROVE  /\ ledger'[i].kind \in ExecutionKinds
                      /\ \A j \in Indices("execution", s)' :
                           i < j => Rank(ledger'[i].kind) < Rank(ledger'[j].kind)
                      /\ \A k \in ExecutionKinds :
                           Rank(k) < Rank(ledger'[i].kind) => Has("execution", k, s)'
  BY DEF CourseInv
<1>2. "execution" \in Formats /\ Indices("execution", s) \subseteq 1 .. (n - 1) /\ n \in Nat
  BY IndicesAre DEF Formats, TypeOK
<1>3. \A k : Has("execution", k, s) => Has("execution", k, s)'
  BY <1>2, Appended DEF Has, TypeOK
<1>4. \A j \in Indices("execution", s) :
        /\ ledger'[j] = ledger[j] /\ ledger[j].kind \in ExecutionKinds
        /\ \A k \in Indices("execution", s) : j < k => Rank(ledger[j].kind) < Rank(ledger[k].kind)
        /\ \A k \in ExecutionKinds : Rank(k) < Rank(ledger[j].kind) => Has("execution", k, s)
  BY <1>2, Appended DEF CourseInv, TypeOK
<1>5. CASE ~(bare.format = "execution" /\ bare.stream = s)
  <2>1. Indices("execution", s)' = Indices("execution", s)
    BY <1>5, Appended
  <2> QED
    BY <1>1, <1>3, <1>4, <2>1
<1>6. CASE bare.format = "execution" /\ bare.stream = s
  <2>1. Indices("execution", s)' = Indices("execution", s) \cup {n} /\ ledger'[n] = bare
    BY <1>6, Appended
  <2>2. <<Leaf("execution", s), bare.kind>> \in ExecutionTransitions /\ bare.kind \in ExecutionKinds
    BY <1>6 DEF Fits, SemanticsHold, ExecutionFits, ExecutionTransitions, ExecutionKinds
  <2>3. CASE Indices("execution", s) = {}
    <3>1. bare.kind = "execution_started"
      BY <2>2, <2>3 DEF Leaf, ExecutionTransitions
    <3>2. i = n /\ \A j \in Indices("execution", s)' : ~(i < j)
      BY <1>1, <1>2, <2>1, <2>3
    <3>3. \A k \in ExecutionKinds : ~(Rank(k) < 1)
      BY RankIs DEF ExecutionKinds
    <3> QED
      BY <2>1, <2>2, <3>1, <3>2, <3>3, RankIs
  <2>4. CASE Indices("execution", s) # {}
    <3> DEFINE m == Max(Indices("execution", s))
    <3>1. /\ m \in Indices("execution", s) /\ \A j \in Indices("execution", s) : m >= j
          /\ Leaf("execution", s) = ledger[m].kind
      <4>1. /\ m \in Indices("execution", s) /\ \A j \in Indices("execution", s) : m >= j
            /\ Leaf("execution", s) = ledger[m].means
        BY <1>2, <2>4, LastRecord
      <4>2. m \in DOMAIN ledger /\ ledger[m].format = "execution"
        BY <4>1 DEF Indices
      <4> QED
        BY <4>1, <4>2 DEF OrderInv, Sound
    <3>2. Rank(bare.kind) = Rank(ledger[m].kind) + 1
      <4>1. ledger[m].kind \in ExecutionKinds /\ <<ledger[m].kind, bare.kind>> \in ExecutionTransitions
        BY <1>4, <2>2, <3>1
      <4> QED
        BY <4>1, RankIs DEF ExecutionTransitions, ExecutionKinds
    <3>3. \A k \in ExecutionKinds : Rank(k) \in Nat /\ (Rank(k) = Rank(ledger[m].kind) => k = ledger[m].kind)
      BY <1>4, <3>1, RankIs DEF ExecutionKinds
    <3>4. \A j \in Indices("execution", s) : Rank(ledger[j].kind) < Rank(bare.kind)
      <4> TAKE j \in Indices("execution", s)
      <4>1. j < m \/ j = m
        BY <1>2, <3>1
      <4> QED
        BY <1>4, <2>2, <3>1, <3>2, <3>3, <4>1
    <3>5. \A k \in ExecutionKinds : Rank(k) < Rank(bare.kind) => Has("execution", k, s)
      <4> TAKE k \in ExecutionKinds
      <4>1. Rank(k) < Rank(bare.kind) => Rank(k) < Rank(ledger[m].kind) \/ k = ledger[m].kind
        BY <1>4, <2>2, <3>1, <3>2, <3>3
      <4>2. Has("execution", ledger[m].kind, s)
        BY <3>1 DEF Has
      <4> QED
        BY <1>4, <3>1, <4>1, <4>2
    <3>6. CASE i = n
      <4>1. \A j \in Indices("execution", s)' : ~(i < j)
        BY <1>2, <2>1, <3>6
      <4> QED
        BY <1>3, <2>1, <2>2, <3>5, <3>6, <4>1
    <3>7. CASE i # n
      <4>1. i \in Indices("execution", s)
        BY <1>1, <2>1, <3>7
      <4> QED
        BY <1>3, <1>4, <2>1, <3>4, <4>1
    <3> QED
      BY <3>6, <3>7
  <2> QED
    BY <2>3, <2>4
<1> QED
  BY <1>5, <1>6

LEMMA AppendKeepsLedger ==
    ASSUME TypeOK, LedgerInv, bare \in LedgerRecord, Fits(bare), ledger' = Append(ledger, bare)
    PROVE  LedgerInv'
BY AppendOrdered, AppendTombstones, AppendCourses DEF LedgerInv

\* A step that appends nothing.
LEMMA SameLedger ==
    ASSUME ledger' = ledger
    PROVE  /\ \A f, s : Indices(f, s)' = Indices(f, s) /\ Leaf(f, s)' = Leaf(f, s)
           /\ \A f, k, s : Has(f, k, s)' = Has(f, k, s)
           /\ HeadAt' = HeadAt
           /\ LedgerInv => LedgerInv'
           /\ \A r \in LedgerRecord : (SemanticsHold(r) => SemanticsHold(r)') /\ (Fits(r) => Fits(r)')
<1>1. \A f, s : Indices(f, s)' = Indices(f, s)
  BY DEF Indices
<1>2. \A f, s : Leaf(f, s)' = Leaf(f, s)
  BY <1>1 DEF Leaf
<1>3. \A f, k, s : Has(f, k, s)' = Has(f, k, s)
  BY <1>1 DEF Has
<1>4. HeadAt' = HeadAt
  BY DEF HeadAt
<1>5. \A r, i : Sound(r, i)' = Sound(r, i)
  BY DEF Sound
<1>6. \A r \in LedgerRecord : SemanticsHold(r) => SemanticsHold(r)'
  BY <1>1, <1>2, <1>3 DEF SemanticsHold, ControlFits, AccessFits, ExecutionFits, ReceiptFits
<1>7. \A r \in LedgerRecord : Fits(r) => Fits(r)'
  BY <1>4, <1>5, <1>6 DEF Fits
<1>8. LedgerInv => LedgerInv'
  BY <1>1, <1>2, <1>3, <1>5 DEF LedgerInv, OrderInv, TombstoneInv, CourseInv
<1> QED
  BY <1>1, <1>2, <1>3, <1>4, <1>6, <1>7, <1>8

-----------------------------------------------------------------------------
(* Types are kept *)

LEMMA RecordTyped ==
    ASSUME TypeOK, NEW f \in Formats, NEW k \in Kinds, NEW s \in Streams
    PROVE  Record(f, k, s) \in LedgerRecord
BY DEF TypeOK, Record, LedgerRecord

LEMMA StreamsAre ==
    /\ Holds \subseteq Streams /\ Deletions \subseteq Streams
    /\ "capability" \in Streams /\ "descriptor" \in Streams
    /\ "control" \in Formats /\ "access" \in Formats /\ "execution" \in Formats /\ "receipt" \in Formats
BY DEF Streams, Formats

\* The job a call starts with, and the moves of one under way.
LEMMA IdleTyped == Idle \in Job
BY DEF Idle, Job, Steps, Afters

LEMMA JobTyped ==
    ASSUME TypeOK, NEW c \in Callers
    PROVE  /\ [job EXCEPT ![c] = Idle] \in [Callers -> Job]
           /\ job[c] \in Job
           /\ \A x \in Steps : [job EXCEPT ![c].step = x] \in [Callers -> Job]
           /\ \A then \in [Callers -> Job] : [then EXCEPT ![c].step = "receipt"] \in [Callers -> Job]
           /\ \A x \in Afters : [job EXCEPT ![c].after = x] \in [Callers -> Job]
           /\ \A j \in Job : [job EXCEPT ![c] = j] \in [Callers -> Job]
<1>1. job \in [Callers -> Job] /\ job[c] \in Job /\ "receipt" \in Steps
  BY DEF TypeOK, Steps
<1>2. \A j \in Job : /\ \A x \in Steps : [j EXCEPT !.step = x] \in Job
                     /\ \A x \in Afters : [j EXCEPT !.after = x] \in Job
  BY DEF Job
<1>3. \A then \in [Callers -> Job] : \A j \in Job : [then EXCEPT ![c] = j] \in [Callers -> Job]
  OBVIOUS
<1>4. \A x \in Steps : [job EXCEPT ![c].step = x] \in [Callers -> Job]
  BY <1>1, <1>2, <1>3
<1>5. \A x \in Afters : [job EXCEPT ![c].after = x] \in [Callers -> Job]
  BY <1>1, <1>2, <1>3
<1>6. \A then \in [Callers -> Job] : [then EXCEPT ![c].step = "receipt"] \in [Callers -> Job]
  BY <1>1, <1>2, <1>3
<1> QED
  BY <1>1, <1>3, <1>4, <1>5, <1>6, IdleTyped

LEMMA PutsTyped ==
    ASSUME TypeOK, NEW c \in Callers, NEW r \in LedgerRecord, NEW then \in [Callers -> Job],
           Puts(c, r, then)
    PROVE  TypeOK'
BY JobTyped DEF Puts, TypeOK, world

\* A control record that may be appended has a kind of the frozen table.
LEMMA ControlKindIs ==
    ASSUME NEW r, r.format = "control", Prepared(r)
    PROVE  r.kind \in Kinds
<1>1. ControlFits(r)
  BY DEF Prepared, SemanticsHold
<1>2. CASE r.kind \in {"control_corrected", "control_withdrawn"}
  BY <1>2 DEF Kinds
<1>3. CASE r.kind \notin {"control_corrected", "control_withdrawn"}
  <2>1. <<Leaf("control", r.stream), r.kind>> \in ControlTransitions
    BY <1>1, <1>3 DEF ControlFits
  <2>2. r.kind = <<Leaf("control", r.stream), r.kind>>[2]
    OBVIOUS
  <2> QED
    BY <2>1, <2>2 DEF Kinds
<1> QED
  BY <1>2, <1>3

LEMMA KindsAre ==
    /\ ExecutionKinds \subseteq Kinds /\ AccessKinds \subseteq Kinds
    /\ {"control_corrected", "control_withdrawn", "deletion_receipt"} \subseteq Kinds
    /\ Correctable \subseteq Kinds
<1>1. /\ <<"none", "execution_started">>[2] \in Kinds /\ <<"execution_started", "inventory_observed">>[2] \in Kinds
      /\ <<"inventory_observed", "unlink_attempted">>[2] \in Kinds
      /\ <<"unlink_attempted", "primary_absence_verified">>[2] \in Kinds
  BY DEF Kinds, ExecutionTransitions
<1>2. \A k \in ImposedKinds : k \in Kinds /\ ReleaseOf[k] \in Kinds
  <2> TAKE k \in ImposedKinds
  <2>1. <<"none", k>>[2] \in Kinds /\ <<k, ReleaseOf[k]>>[2] \in Kinds
    BY DEF Kinds, ControlTransitions
  <2> QED
    BY <2>1
<1>3. /\ <<"none", "deletion_requested">>[2] \in Kinds /\ <<"none", "propagation_asserted">>[2] \in Kinds
      /\ <<"deletion_requested", "deletion_denied">>[2] \in Kinds
  BY DEF Kinds, ControlTransitions
<1> QED
  BY <1>1, <1>2, <1>3 DEF ExecutionKinds, Correctable, Kinds

-----------------------------------------------------------------------------
(* What is put on the ledger *)

\* A record whose target a step may persist.
Puttable(r) ==
    r \in LedgerRecord /\ Prepared(r) /\ Fits(r) /\ Attested(r) /\ events = <<>>

\* A session that lives now has not been revoked at all.
LEMMA NothingRevoked ==
    ASSUME TypeOK, KnowsInv, NEW r, Prepared(r), r.at = clock
    PROVE  events = <<>>
<1>1. RevokedAt(clock) = {}
  BY DEF Prepared, SessionsLive
<1>2. \A i \in DOMAIN events : events[i].target \in RevokedAt(clock)
  BY DEF RevokedAt, KnowsInv
<1>3. events \in Seq(Event) /\ DOMAIN events = {}
  BY <1>1, <1>2 DEF TypeOK
<1> QED
  BY <1>3

LEMMA PlainFits ==
    ASSUME TypeOK, NEW r \in LedgerRecord, Prepared(r), r.means = r.kind, r.corrects = 0
    PROVE  Fits(r)
BY DEF Prepared, Fits, Sound

LEMMA RecordIs ==
    ASSUME NEW f, NEW k, NEW s
    PROVE  /\ Record(f, k, s).format = f /\ Record(f, k, s).kind = k /\ Record(f, k, s).means = k
           /\ Record(f, k, s).stream = s /\ Record(f, k, s).corrects = 0
           /\ Record(f, k, s).at = clock
BY DEF Record

\* Records that attest nothing by themselves.
LEMMA RecordPuttable ==
    ASSUME TypeOK, KnowsInv, NEW f \in Formats, NEW k \in Kinds, NEW s \in Streams,
           Prepared(Record(f, k, s)),
           k \notin {"unlink_attempted", "capability_revoked", "descriptor_termination_confirmed"},
           f = "receipt" => k = "deletion_receipt"
    PROVE  Puttable(Record(f, k, s))
<1> DEFINE r == Record(f, k, s)
<1>1. r \in LedgerRecord
  BY RecordTyped
<1>2. /\ r.format = f /\ r.kind = k /\ r.means = k /\ r.stream = s /\ r.corrects = 0 /\ r.at = clock
  BY RecordIs
<1>3. Fits(r) /\ events = <<>>
  BY <1>1, <1>2, PlainFits, NothingRevoked
<1>4. Attested(r)
  <2>1. r.format = "receipt" => ReceiptFits(r)
    BY DEF Prepared, SemanticsHold
  <2> QED
    BY <1>2, <2>1 DEF Attested, ReceiptFits
<1> QED
  BY <1>1, <1>3, <1>4 DEF Puttable

LEMMA SubmitPuts ==
    ASSUME TypeOK, KnowsInv, NEW c \in Callers, SubmitControl(c)
    PROVE  \E r : Puttable(r) /\ Puts(c, r, [job EXCEPT ![c] = Idle]) /\ job[c].step = "idle"
<1>1. PICK kind \in ControlKinds, stream \in Holds \cup Deletions, life \in Lifetimes \cup {0} :
             Submit(c, [Control(kind, stream) EXCEPT !.expires = IF life = 0 THEN 0 ELSE clock + life])
  BY DEF SubmitControl
<1> DEFINE r == [Control(kind, stream) EXCEPT !.expires = IF life = 0 THEN 0 ELSE clock + life]
<1>2. stream \in Streams /\ life \in Nat
  BY <1>1, StreamsAre, RestrictionAssumption
<1>3. /\ r.format = "control" /\ r.kind = kind /\ r.means = kind /\ r.corrects = 0 /\ r.at = clock
  BY DEF Control, Record
<1>4. Prepared(r)
  BY <1>1 DEF Submit, Puts
<1>5. r \in LedgerRecord
  <2>1. Control(kind, stream) \in LedgerRecord
    BY <1>2, <1>3, <1>4, ControlKindIs, StreamsAre, RecordTyped DEF Control
  <2> QED
    <3>1. (IF life = 0 THEN 0 ELSE clock + life) \in Nat
      BY <1>2 DEF TypeOK
    <3>2. \A q \in LedgerRecord : \A n \in Nat : [q EXCEPT !.expires = n] \in LedgerRecord
      BY DEF LedgerRecord
    <3> QED
      BY <2>1, <3>1, <3>2
<1>6. Puttable(r)
  BY <1>3, <1>4, <1>5, PlainFits, NothingRevoked DEF Puttable, Attested
<1> QED
  BY <1>1, <1>6 DEF Submit

LEMMA CorrectionPuts ==
    ASSUME TypeOK, OrderInv, KnowsInv, NEW c \in Callers, SubmitCorrection(c)
    PROVE  \E r : Puttable(r) /\ Puts(c, r, [job EXCEPT ![c] = Idle]) /\ job[c].step = "idle"
<1>1. PICK stream \in Holds \cup Deletions :
        /\ Indices("control", stream) # {} /\ Leaf("control", stream) \in Corrected
        /\ LET i == Max(Indices("control", stream))
               rec(kind) == [Control(kind, stream) EXCEPT !.corrects = i, !.effective = ledger[i].effective]
           IN \/ Submit(c, [rec("control_corrected") EXCEPT !.means = Leaf("control", stream)])
              \/ Submit(c, rec("control_withdrawn"))
  BY DEF SubmitCorrection
<1> DEFINE i == Max(Indices("control", stream))
           rec(kind) == [Control(kind, stream) EXCEPT !.corrects = i, !.effective = ledger[i].effective]
<1>2. stream \in Streams
  BY StreamsAre
<1>3. i \in DOMAIN ledger /\ i \in 1 .. Len(ledger) /\ ledger[i].format = "control" /\ ledger[i].stream = stream
  BY <1>1, <1>2, StreamsAre, LastRecord, IndicesAre DEF Indices
<1>4. ledger[i] \in LedgerRecord /\ ledger[i].effective \in Nat /\ Len(ledger) \in Nat
  <2>1. ledger[i] \in LedgerRecord /\ Len(ledger) \in Nat
    BY <1>3 DEF TypeOK
  <2> QED
    BY <2>1 DEF LedgerRecord
<1>5. PICK r : /\ Submit(c, r) /\ r \in {[rec("control_corrected") EXCEPT !.means = Leaf("control", stream)],
                                         rec("control_withdrawn")}
  BY <1>1
<1>6. Prepared(r)
  BY <1>5 DEF Submit, Puts
<1>7. /\ r.format = "control" /\ r.stream = stream /\ r.at = clock /\ r.corrects = i
      /\ r.kind = "control_corrected" \/ (r.kind = "control_withdrawn" /\ r.means = "control_withdrawn")
  <2>1. CASE r = rec("control_withdrawn")
    BY <2>1 DEF Control, Record
  <2>2. CASE r = [rec("control_corrected") EXCEPT !.means = Leaf("control", stream)]
    BY <2>2 DEF Control, Record
  <2> QED
    BY <1>5, <2>1, <2>2
<1>8. r \in LedgerRecord
  <2>1. Control("control_corrected", stream) \in LedgerRecord /\ Control("control_withdrawn", stream) \in LedgerRecord
    BY <1>2, KindsAre, StreamsAre, RecordTyped DEF Control
  <2>2. rec("control_corrected") \in LedgerRecord /\ rec("control_withdrawn") \in LedgerRecord
    <3>1. ASSUME NEW kind, Control(kind, stream) \in LedgerRecord
          PROVE  rec(kind) \in LedgerRecord
      <4>1. i \in Nat /\ ledger[i].effective \in Nat
        BY <1>3, <1>4
      <4> QED
        BY <3>1, <4>1 DEF LedgerRecord
    <3> QED
      BY <2>1, <3>1
  <2>3. CASE r = rec("control_withdrawn")
    BY <2>2, <2>3
  <2>4. CASE r = [rec("control_corrected") EXCEPT !.means = Leaf("control", stream)]
    <3>1. r.kind = "control_corrected" /\ r.means = Leaf("control", stream)
      BY <2>4 DEF Control, Record
    <3>2. r.means \in Correctable
      BY <1>6, <1>7, <3>1 DEF Prepared, SemanticsHold, ControlFits
    <3> QED
      BY <2>2, <2>4, <3>1, <3>2, KindsAre DEF LedgerRecord
  <2> QED
    BY <1>5, <2>3, <2>4
<1>9. Fits(r)
  <2>1. r.effective <= r.at /\ r.at > HeadAt /\ SemanticsHold(r)
    BY <1>6 DEF Prepared
  <2>2. i \in 1 .. ((Len(ledger) + 1) - 1)
    BY <1>3, <1>4
  <2> QED
    BY <1>3, <1>7, <2>1, <2>2 DEF Fits, Sound
<1> QED
  BY <1>5, <1>6, <1>7, <1>8, <1>9, NothingRevoked DEF Puttable, Attested, Submit

-----------------------------------------------------------------------------
(* What steps have in common *)

\* No effect is undone and no time goes back.
Onward ==
    /\ name = "absent" => name' = "absent"
    /\ ~capability => ~capability'
    /\ ~receiver => ~receiver'
    /\ clock' >= clock
    /\ faults' = 0 => faults = 0

\* A step of c leaves the others alone: their jobs, and what is theirs if one
\* of them has the lock.
Apart(c) ==
    /\ \A q \in Callers \ {c} : job'[q] = job[q]
    /\ lock' = lock \/ (lock \in {None, c} /\ lock' \in {None, c})
    /\ UNCHANGED <<ledger, bare, events>> \/ lock \in {None, c}

LEMMA AttestedKept ==
    ASSUME Onward, \A k, s : Has("execution", k, s) => Has("execution", k, s)'
    PROVE  \A r : Attested(r) => Attested(r)'
BY DEF Onward, Attested

LEMMA PreparedKept ==
    ASSUME UNCHANGED <<ledger, bare, events>>
    PROVE  \A r \in LedgerRecord : Prepared(r) => Prepared(r)'
<1>1. \A at : SessionsLive(at)' = SessionsLive(at)
  BY DEF SessionsLive, ChainReads, RevokedAt
<1> QED
  BY <1>1, SameLedger DEF Prepared

LEMMA OthersKnow ==
    ASSUME IInv, NEW c \in Callers, Onward, Apart(c), NEW q \in Callers \ {c}, clock' \in Nat
    PROVE  Knows(q)'
<1> USE DEF IInv
<1>1. Knows(q) /\ job'[q] = job[q] /\ job[q] \in Job
  BY JobTyped DEF KnowsInv, Apart
<1>2. job[q].at <= clock'
  <2>1. job[q].at \in Nat /\ clock \in Nat
    BY <1>1 DEF Job, TypeOK
  <2> QED
    BY <1>1, <2>1 DEF Knows, Onward
<1>3. CASE job[q].step \notin Locked
  BY <1>1, <1>2, <1>3 DEF Knows, Locked, Counted
<1>4. CASE job[q].step \in Locked
  <2>1. lock = q /\ q # None /\ q # c
    BY <1>1, <1>4, BoundsAssumption DEF Knows
  <2>2. lock' = q /\ UNCHANGED <<ledger, bare, events>>
    BY <2>1 DEF Apart
  <2>3. \A r \in LedgerRecord :
          /\ Prepared(r) => Prepared(r)'
          /\ Fits(r) => Fits(r)'
          /\ Attested(r) => Attested(r)'
    BY <2>2, PreparedKept, SameLedger, AttestedKept
  <2>4. ASSUME job[q].step \in {"sync", "target"}
        PROVE  \E r \in LedgerRecord :
                  /\ r = job'[q].rec /\ Prepared(r)' /\ Fits(r)'
                  /\ job'[q].step = "sync" => r \in Attempts
                  /\ job'[q].step = "target" => (r \in Attempts \/ r.format = "access") /\ Attested(r)'
    <3>1. PICK r \in LedgerRecord :
             /\ r = job[q].rec /\ Prepared(r) /\ Fits(r)
             /\ job[q].step = "sync" => r \in Attempts
             /\ job[q].step = "target" => (r \in Attempts \/ r.format = "access") /\ Attested(r)
      BY <1>1, <2>4 DEF Knows
    <3>2. Prepared(r)' /\ Fits(r)' /\ (Attested(r) => Attested(r)')
      BY <2>3, <3>1
    <3> QED
      BY <1>1, <3>1, <3>2
  <2>5. ASSUME job[q].step \in {"sync", "target"}
        PROVE  events' = <<>>
    BY <1>1, <2>2, <2>5 DEF Knows
  <2> QED
    BY <1>1, <1>2, <2>2, <2>4, <2>5 DEF Knows
<1> QED
  BY <1>3, <1>4

\* The ledger, the target without its receipt, and what they attest.
LEMMA DataKept ==
    ASSUME IInv, Onward,
           \/ UNCHANGED <<ledger, bare>>
           \/ ledger' = ledger /\ \E r : Puttable(r) /\ bare' = r
           \/ bare \in LedgerRecord /\ bare # None /\ ledger' = Append(ledger, bare) /\ bare' = None
    PROVE  /\ LedgerInv' /\ BareInv' /\ AttestedInv'
           /\ \A f, s : Indices(f, s) \subseteq Indices(f, s)'
           /\ Written \subseteq Written'
           /\ ledger' \in Seq(LedgerRecord) /\ bare' \in LedgerRecord \cup {None}
<1> USE DEF IInv
<1>0. ledger \in Seq(LedgerRecord) /\ bare \in LedgerRecord \cup {None} /\ None \notin LedgerRecord
  BY RestrictionAssumption DEF TypeOK
<1>1. CASE UNCHANGED <<ledger, bare>>
  <2>1. \A r \in LedgerRecord : Fits(r) => Fits(r)'
    BY <1>1, SameLedger
  <2>2. BareInv'
    <3>1. CASE bare = None
      BY <1>1, <3>1 DEF BareInv
    <3>2. CASE bare # None
      <4>1. PICK r \in LedgerRecord : r = bare
        BY <1>0, <3>2
      <4>2. Fits(r) /\ Fits(r)'
        BY <2>1, <3>2, <4>1 DEF BareInv
      <4> QED
        BY <1>1, <4>1, <4>2 DEF BareInv
    <3> QED
      BY <3>1, <3>2
  <2>3. \A r : Attested(r) => Attested(r)'
    BY <1>1, SameLedger, AttestedKept
  <2>4. Written' = Written
    BY <1>1 DEF Written
  <2> QED
    BY <1>0, <1>1, <2>2, <2>3, <2>4, SameLedger DEF AttestedInv
<1>2. ASSUME ledger' = ledger, NEW r, Puttable(r), bare' = r
      PROVE  /\ LedgerInv' /\ BareInv' /\ AttestedInv'
             /\ Written \subseteq Written' /\ bare' \in LedgerRecord
  <2>1. r \in LedgerRecord /\ Fits(r)' /\ bare = None
    BY <1>2, SameLedger DEF Puttable, Prepared
  <2>2. BareInv'
    BY <1>2, <2>1 DEF BareInv
  <2>3. \A e : Attested(e) => Attested(e)'
    BY <1>2, SameLedger, AttestedKept
  <2>4. Written' = Written \cup {r}
    BY <1>0, <1>2, <2>1 DEF Written
  <2> QED
    BY <1>2, <2>1, <2>2, <2>3, <2>4, SameLedger DEF AttestedInv, Puttable
<1>3. CASE bare \in LedgerRecord /\ bare # None /\ ledger' = Append(ledger, bare) /\ bare' = None
  <2>1. Fits(bare) /\ OrderInv
    BY <1>3 DEF BareInv, LedgerInv
  <2>2. LedgerInv' /\ BareInv'
    BY <1>3, <2>1, AppendKeepsLedger DEF BareInv
  <2>3. /\ DOMAIN ledger' = DOMAIN ledger \cup {Len(ledger) + 1} /\ ledger'[Len(ledger) + 1] = bare
        /\ \A i \in DOMAIN ledger : ledger'[i] = ledger[i]
        /\ \A f, s : Indices(f, s) \subseteq Indices(f, s)'
        /\ ledger' \in Seq(LedgerRecord)
    BY <1>3, <2>1, Appended
  <2>4. \A f, k, s : Has(f, k, s) => Has(f, k, s)'
    <3> TAKE f, k, s
    <3>1. \A i \in Indices(f, s) : i \in Indices(f, s)' /\ ledger'[i] = ledger[i]
      BY <2>3 DEF Indices
    <3> QED
      BY <3>1 DEF Has
  <2>5. \A e : Attested(e) => Attested(e)'
    BY <2>4, AttestedKept
  <2>6. Written' = Written
    <3>1. Range(ledger') = Range(ledger) \cup {bare}
      BY <2>3 DEF Range
    <3> QED
      BY <1>3, <3>1 DEF Written
  <2> QED
    BY <1>3, <2>2, <2>3, <2>5, <2>6 DEF AttestedInv
<1> QED
  BY <1>0, <1>1, <1>2, <1>3, SameLedger

\* A step after which the invariant still holds: the parts that a step of c
\* cannot disturb are kept already.
LEMMA StepKeeps ==
    ASSUME IInv, NEW c \in Callers, TypeOK', Onward, Apart(c), Knows(c)',
           \/ UNCHANGED <<ledger, bare>>
           \/ ledger' = ledger /\ \E r : Puttable(r) /\ bare' = r
           \/ bare \in LedgerRecord /\ bare # None /\ ledger' = Append(ledger, bare) /\ bare' = None,
           events' = events \/ \E t \in Targets : events' = Append(events, [target |-> t, at |-> job[c].at]),
           RemovalInv'
    PROVE  IInv'
<1>1. LedgerInv' /\ BareInv' /\ AttestedInv'
  BY DataKept
<1>2. \A q \in Callers : Knows(q)'
  BY OthersKnow DEF TypeOK
<1>3. \A i \in DOMAIN events' : events'[i].at <= clock'
  <2>0. clock \in Nat /\ clock' \in Nat /\ clock' >= clock /\ events \in Seq(Event) /\ job[c].at <= clock /\ job[c].at \in Nat
    BY JobTyped DEF IInv, TypeOK, Onward, KnowsInv, Knows, Job
  <2>1. \A i \in DOMAIN events : events[i].at <= clock /\ events[i].at \in Nat
    <3>1. \A i \in DOMAIN events : events[i] \in Event
      BY <2>0
    <3> QED
      BY <3>1 DEF Event, IInv, KnowsInv
  <2>2. CASE events' = events
    BY <2>0, <2>1, <2>2
  <2>3. ASSUME NEW t \in Targets, events' = Append(events, [target |-> t, at |-> job[c].at])
        PROVE  \A i \in DOMAIN events' : events'[i].at <= clock'
    <3>1. [target |-> t, at |-> job[c].at] \in Event
      BY <2>0 DEF Event
    <3>2. /\ DOMAIN events' = DOMAIN events \cup {Len(events) + 1}
          /\ \A i \in DOMAIN events : events'[i] = events[i]
          /\ events'[Len(events) + 1] = [target |-> t, at |-> job[c].at]
      BY <2>0, <2>3, <3>1
    <3> QED
      BY <2>0, <2>1, <3>2
  <2> QED
    BY <2>2, <2>3
<1> QED
  BY <1>1, <1>2, <1>3 DEF IInv, KnowsInv

\* Nothing is removed and no removal is forgotten.
LEMMA RemovalKept ==
    ASSUME IInv, NEW c \in Callers, Onward, Apart(c),
           name' # "present" => name # "present",
           \A f, s : Indices(f, s) \subseteq Indices(f, s)', Written \subseteq Written',
           job[c].step \in {"sync", "target"} /\ job[c].rec \in Attempts =>
              \/ job'[c].step \in {"sync", "target"} /\ job'[c].rec \in Attempts
              \/ bare' = job[c].rec
              \/ faults' # 0
    PROVE  RemovalInv'
<1>1. SUFFICES ASSUME name' # "present"
               PROVE  /\ \E d \in Deletions : Indices("execution", d)' # {}
                      /\ faults' = 0 =>
                           \/ \E d \in Deletions : OnRecord("execution", "unlink_attempted", d)'
                           \/ \E q \in Callers : job'[q].step \in {"sync", "target"} /\ job'[q].rec \in Attempts
  BY DEF RemovalInv, Attempts
<1>2. name # "present" /\ RemovalInv
  BY <1>1 DEF IInv
<1>3. \E d \in Deletions : Indices("execution", d)' # {}
  BY <1>2 DEF RemovalInv
<1>4. ASSUME faults' = 0
      PROVE  \/ \E d \in Deletions : OnRecord("execution", "unlink_attempted", d)'
             \/ \E q \in Callers : job'[q].step \in {"sync", "target"} /\ job'[q].rec \in Attempts
  <2>0. faults = 0
    BY <1>4 DEF Onward
  <2>1. CASE \E d \in Deletions : OnRecord("execution", "unlink_attempted", d)
    BY <2>1 DEF OnRecord
  <2>2. ASSUME NEW q \in Callers, job[q].step \in {"sync", "target"}, job[q].rec \in Attempts
        PROVE  \/ \E d \in Deletions : OnRecord("execution", "unlink_attempted", d)'
               \/ \E p \in Callers : job'[p].step \in {"sync", "target"} /\ job'[p].rec \in Attempts
    <3>1. CASE q # c
      BY <2>2, <3>1 DEF Apart
    <3>2. CASE q = c /\ bare' = job[c].rec
      <4>1. bare' \in Attempts /\ bare' # None
        BY <2>2, <3>2, RestrictionAssumption DEF Attempts
      <4>2. bare' \in Written'
        BY <4>1 DEF Written
      <4> QED
        BY <4>1, <4>2 DEF OnRecord, Attempts
    <3> QED
      BY <1>4, <2>2, <3>1, <3>2
  <2> QED
    BY <1>2, <2>0, <2>1, <2>2 DEF RemovalInv
<1> QED
  BY <1>3, <1>4

-----------------------------------------------------------------------------
(* The steps that persist a target or a receipt *)

LEMMA PutsKeeps ==
    ASSUME IInv, NEW c \in Callers, NEW r, Puttable(r), NEW j \in Job,
           Puts(c, r, [job EXCEPT ![c] = j]), job[c].step \notin {"sync", "target"},
           j.after # "shutting", j.after \in DeletingAfters => j.deletion \in Deletions, j.at <= clock
    PROVE  IInv'
<1>0. /\ r \in LedgerRecord /\ r # None /\ events = <<>> /\ c # None
      /\ clock \in Nat /\ faults \in Nat /\ job \in [Callers -> Job]
  BY RestrictionAssumption, BoundsAssumption DEF Puttable, IInv, TypeOK
<1>1. /\ lock = None /\ lock' = c /\ bare' = r
      /\ job' = [[job EXCEPT ![c] = j] EXCEPT ![c].step = "receipt"]
      /\ UNCHANGED <<ledger, events, clock, name, capability, receiver, faults>>
  BY DEF Puts, world
<1>2. TypeOK'
  BY <1>0, PutsTyped, JobTyped DEF IInv
<1>3. Onward
  BY <1>0, <1>1 DEF Onward
<1>4. Apart(c)
  BY <1>0, <1>1 DEF Apart
<1>5. job'[c] = [j EXCEPT !.step = "receipt"]
  BY <1>0, <1>1
<1>6. Knows(c)'
  <2>1. /\ job'[c].step = "receipt" /\ job'[c].after = j.after /\ job'[c].deletion = j.deletion
        /\ job'[c].at = j.at
    BY <1>5 DEF Job
  <2> QED
    BY <1>0, <1>1, <2>1 DEF Knows, Locked, Counted, Deleting
<1>7. RemovalInv'
  BY <1>1, <1>3, <1>4, DataKept, RemovalKept
<1> QED
  BY <1>1, <1>2, <1>3, <1>4, <1>6, <1>7, StepKeeps

\* A job with some of its fields changed.
LEMMA JobWith ==
    ASSUME TypeOK, NEW c \in Callers
    PROVE  /\ \A x \in Afters : [job[c] EXCEPT !.after = x] \in Job
           /\ \A x \in Steps : [job[c] EXCEPT !.step = x] \in Job
           /\ \A x : /\ [job EXCEPT ![c].after = x] = [job EXCEPT ![c] = [job[c] EXCEPT !.after = x]]
                     /\ [job EXCEPT ![c].step = x] = [job EXCEPT ![c] = [job[c] EXCEPT !.step = x]]
BY DEF TypeOK, Job

LEMMA SubmitKeeps ==
    ASSUME IInv, NEW c \in Callers, SubmitControl(c) \/ SubmitCorrection(c)
    PROVE  IInv'
<1>1. PICK r : Puttable(r) /\ Puts(c, r, [job EXCEPT ![c] = Idle]) /\ job[c].step = "idle"
  BY SubmitPuts, CorrectionPuts DEF IInv, LedgerInv
<1>2. /\ Idle \in Job /\ Idle.after = "idle" /\ Idle.at <= clock
  BY IdleTyped DEF Idle, IInv, TypeOK
<1> QED
  BY <1>1, <1>2, PutsKeeps DEF DeletingAfters

LEMMA RecordKeeps ==
    ASSUME IInv, NEW c \in Callers, job[c].step \in Deleting \ {"sync"},
           NEW x \in Afters, x # "shutting",
           NEW f \in Formats, NEW k \in Kinds,
           k \notin {"unlink_attempted", "capability_revoked", "descriptor_termination_confirmed"},
           f = "receipt" => k = "deletion_receipt",
           Puts(c, Record(f, k, job[c].deletion), [job EXCEPT ![c].after = x])
    PROVE  IInv'
<1>1. TypeOK /\ KnowsInv /\ Knows(c) /\ job[c] \in Job
  BY JobTyped DEF IInv, KnowsInv
<1>2. job[c].deletion \in Deletions /\ job[c].at <= clock
  BY <1>1 DEF Knows, Deleting
<1>3. Puttable(Record(f, k, job[c].deletion))
  BY <1>1, <1>2, StreamsAre, RecordPuttable DEF Puts
<1> DEFINE j == [job[c] EXCEPT !.after = x]
<1>4. /\ j \in Job /\ j.after = x /\ j.deletion = job[c].deletion /\ j.at = job[c].at
      /\ [job EXCEPT ![c].after = x] = [job EXCEPT ![c] = j]
  BY <1>1, JobWith DEF Job
<1>5. job[c].step \notin {"sync", "target"}
  BY DEF Deleting
<1> HIDE DEF j
<1> QED
  BY <1>2, <1>3, <1>4, <1>5, PutsKeeps

LEMMA ReceiptKeeps ==
    ASSUME IInv, NEW c \in Callers, PersistReceipt(c)
    PROVE  IInv'
<1>0. /\ TypeOK /\ Knows(c) /\ job[c] \in Job /\ job \in [Callers -> Job] /\ clock \in Nat /\ faults \in Nat
      /\ c # None /\ Idle \in Job /\ None \notin LedgerRecord
  BY JobTyped, IdleTyped, BoundsAssumption, RestrictionAssumption DEF IInv, KnowsInv, TypeOK
<1>1. /\ job[c].step = "receipt" /\ ledger' = Append(ledger, bare) /\ bare' = None
      /\ job' = [job EXCEPT ![c] = IF job[c].after = "idle" THEN Idle ELSE [job[c] EXCEPT !.step = job[c].after]]
      /\ lock' = IF job[c].after = "shutting" THEN c ELSE None
      /\ clock' = Max({clock, bare.at + 1})
      /\ UNCHANGED <<events, name, capability, receiver, faults>>
  BY <1>0, JobWith DEF PersistReceipt, Ends, Moves, world
<1>2. lock = c /\ bare \in LedgerRecord /\ events = <<>> /\ bare.at \in Nat
  BY <1>0, <1>1 DEF Knows, Locked, TypeOK, LedgerRecord
<1>3. clock' \in Nat /\ clock' >= clock
  <2>0. {clock, bare.at + 1} \in SUBSET Int
    BY <1>0, <1>2
  <2>1. CASE clock >= bare.at + 1
    <3>1. \A y \in {clock, bare.at + 1} : clock >= y
      BY <1>0, <2>1
    <3>2. Max({clock, bare.at + 1}) = clock
      BY <2>0, <3>1, MaxIs
    <3> QED
      BY <1>0, <1>1, <3>2
  <2>2. CASE bare.at + 1 > clock
    <3>1. \A y \in {clock, bare.at + 1} : bare.at + 1 >= y
      BY <1>0, <1>2, <2>2
    <3>2. Max({clock, bare.at + 1}) = bare.at + 1
      BY <2>0, <3>1, MaxIs
    <3> QED
      BY <1>0, <1>1, <1>2, <2>2, <3>2
  <2> QED
    BY <1>0, <1>2, <2>1, <2>2
<1>4. PICK j \in Job : /\ job' = [job EXCEPT ![c] = j] /\ job'[c] = j
                       /\ j = IF job[c].after = "idle" THEN Idle ELSE [job[c] EXCEPT !.step = job[c].after]
  <2>1. Afters \subseteq Steps /\ job[c].after \in Afters
    BY <1>0 DEF Afters, Steps, Job
  <2>2. [job[c] EXCEPT !.step = job[c].after] \in Job
    BY <1>0, <2>1, JobWith
  <2> QED
    BY <1>0, <1>1, <2>2
<1>5. Onward
  BY <1>0, <1>1, <1>3 DEF Onward
<1>6. Apart(c)
  BY <1>1, <1>2, <1>4 DEF Apart
<1>7. /\ LedgerInv' /\ BareInv' /\ AttestedInv' /\ ledger' \in Seq(LedgerRecord)
      /\ \A f, s : Indices(f, s) \subseteq Indices(f, s)'
      /\ Written \subseteq Written'
  BY <1>0, <1>1, <1>2, <1>5, DataKept
<1>8. TypeOK'
  BY <1>0, <1>1, <1>3, <1>4, <1>7 DEF TypeOK
<1>9. Knows(c)'
  <2>1. CASE job[c].after = "idle"
    BY <1>0, <1>3, <1>4, <2>1 DEF Knows, Idle, Locked, Counted, Deleting, DeletingAfters
  <2>2. CASE job[c].after # "idle"
    <3>1. /\ j.step = job[c].after /\ j.after = job[c].after /\ j.deletion = job[c].deletion
          /\ j.at = job[c].at /\ j.heads = job[c].heads
      BY <1>0, <1>4, <2>2 DEF Job
    <3>2. job[c].after \in Afters /\ job[c].at \in Nat
      BY <1>0 DEF Job
    <3>3. CASE job[c].after = "shutting"
      BY <1>0, <1>1, <1>3, <1>4, <3>1, <3>2, <3>3 DEF Knows, Locked, Counted, Deleting, DeletingAfters
    <3>4. CASE job[c].after \in DeletingAfters
      BY <1>0, <1>1, <1>3, <1>4, <3>1, <3>2, <3>4 DEF Knows, Locked, Counted, Deleting, DeletingAfters
    <3> QED
      BY <2>2, <3>2, <3>3, <3>4 DEF Afters, DeletingAfters
  <2> QED
    BY <2>1, <2>2
<1>10. RemovalInv'
  BY <1>1, <1>5, <1>6, <1>7, RemovalKept
<1> QED
  BY <1>0, <1>1, <1>2, <1>5, <1>6, <1>8, <1>9, <1>10, StepKeeps

-----------------------------------------------------------------------------
(* The steps that persist nothing *)

\* Only c's job and what it knows are at stake.
LEMMA QuietKeeps ==
    ASSUME IInv, NEW c \in Callers, NEW j \in Job, job' = [job EXCEPT ![c] = j],
           UNCHANGED <<ledgerVars, name>>,
           lock' = lock \/ (lock \in {None, c} /\ lock' \in {None, c}),
           capability' \in BOOLEAN, ~capability => ~capability',
           receiver' \in BOOLEAN, ~receiver => ~receiver',
           faults' \in {faults, faults + 1},
           Knows(c)',
           job[c].step \in {"sync", "target"} /\ job[c].rec \in Attempts =>
              (j.step \in {"sync", "target"} /\ j.rec \in Attempts) \/ faults' = faults + 1
    PROVE  IInv'
<1>0. TypeOK /\ clock \in Nat /\ faults \in Nat /\ job \in [Callers -> Job]
  BY DEF IInv, TypeOK
<1>1. TypeOK'
  BY <1>0 DEF TypeOK, ledgerVars
<1>2. Onward
  BY <1>0 DEF Onward, ledgerVars
<1>3. Apart(c)
  BY <1>0 DEF Apart, ledgerVars
<1>4. UNCHANGED <<ledger, bare, events, name>>
  BY DEF ledgerVars
<1>5. job'[c] = j
  BY <1>0
<1>6. RemovalInv'
  BY <1>0, <1>2, <1>3, <1>4, <1>5, DataKept, RemovalKept
<1> QED
  BY <1>1, <1>2, <1>3, <1>4, <1>6, StepKeeps

\* A job outside the lock knows only which deletion it is about.
LEMMA MoveKeeps ==
    ASSUME IInv, NEW c \in Callers, NEW j \in Job, job' = [job EXCEPT ![c] = j],
           UNCHANGED <<ledgerVars, world>>,
           lock' = lock \/ (lock \in {None, c} /\ lock' \in {None, c}),
           faults' \in {faults, faults + 1},
           j.step \notin Locked, j.step \in Deleting \/ j.after \in DeletingAfters => j.deletion \in Deletions,
           j.step = "revoke" => j.target \in Targets, j.at <= clock,
           job[c].step \in {"sync", "target"} => faults' = faults + 1
    PROVE  IInv'
<1>1. job'[c] = j /\ clock' = clock
  BY DEF IInv, TypeOK, ledgerVars
<1>2. Knows(c)'
  BY <1>1 DEF Knows, Locked, Counted
<1>3. UNCHANGED <<ledgerVars, name>> /\ UNCHANGED <<capability, receiver>>
  BY DEF world
<1> QED
  BY <1>2, <1>3, QuietKeeps DEF IInv, TypeOK

\* A call that ends.
LEMMA EndKeeps ==
    ASSUME IInv, NEW c \in Callers, Ends(c), UNCHANGED <<ledgerVars, world>>,
           lock' = lock \/ (lock \in {None, c} /\ lock' \in {None, c}),
           faults' \in {faults, faults + 1},
           job[c].step \in {"sync", "target"} => faults' = faults + 1
    PROVE  IInv'
<1>1. /\ Idle.step \notin Locked /\ Idle.step \notin Deleting /\ Idle.after \notin DeletingAfters
      /\ Idle.step # "revoke" /\ Idle.at <= clock
  BY DEF Idle, Locked, Deleting, DeletingAfters, IInv, TypeOK
<1> QED
  BY <1>1, IdleTyped, MoveKeeps DEF Ends

LEMMA GiveUpKeeps ==
    ASSUME IInv, NEW c \in Callers, GiveUp(c) \/ Fail(c)
    PROVE  IInv'
<1>0. Knows(c)
  BY DEF IInv, KnowsInv
<1>1. CASE GiveUp(c)
  <2>1. /\ job[c].step \notin {"sync", "target"}
        /\ lock' = lock \/ (job[c].step \in {"shutting", "unlink"} /\ lock' = None)
    BY <1>1 DEF GiveUp, Unlocked
  <2>2. lock' = lock \/ (lock \in {None, c} /\ lock' \in {None, c})
    BY <1>0, <2>1 DEF Knows, Locked
  <2> QED
    BY <1>1, <2>1, <2>2, EndKeeps DEF GiveUp, Unlocked
<1>2. CASE Fail(c)
  BY <1>2, EndKeeps DEF Fail
<1> QED
  BY <1>1, <1>2

LEMMA CallKeeps ==
    ASSUME IInv, NEW c \in Callers, CallDelete(c) \/ CallRevoke(c)
    PROVE  IInv'
<1>0. clock \in Nat
  BY DEF IInv, TypeOK
<1>1. CASE CallDelete(c)
  <2>1. PICK d \in Deletions :
           /\ job[c].step = "idle"
           /\ job' = [job EXCEPT ![c] = [Idle EXCEPT !.step = "start", !.deletion = d, !.asOf = clock]]
           /\ UNCHANGED <<ledgerVars, lock, world, faults>>
    BY <1>1 DEF CallDelete
  <2> DEFINE j == [Idle EXCEPT !.step = "start", !.deletion = d, !.asOf = clock]
  <2>2. j \in Job /\ j.step = "start" /\ j.deletion = d /\ j.at = 0
    <3>1. /\ j.step = "start" /\ j.deletion = d /\ j.at = 0
      BY DEF Idle
    <3>2. "start" \in Steps
      BY DEF Steps
    <3> QED
      BY <1>0, <3>1, <3>2, IdleTyped DEF Job
  <2> HIDE DEF j
  <2> QED
    <3>1. job' = [job EXCEPT ![c] = j]
      BY <2>1 DEF j
    <3>2. job[c].step \notin {"sync", "target"} /\ j.step \notin Locked /\ j.step # "revoke"
      BY <2>1, <2>2 DEF Locked
    <3>3. UNCHANGED <<ledgerVars, world>> /\ lock' = lock /\ faults' = faults /\ j.at <= clock
      BY <1>0, <2>1, <2>2
    <3> QED
      BY <2>2, <3>1, <3>2, <3>3, MoveKeeps
<1>2. CASE CallRevoke(c)
  <2>1. PICK t \in Targets :
           /\ job[c].step = "idle"
           /\ job' = [job EXCEPT ![c] = [Idle EXCEPT !.step = "revoke", !.at = clock, !.target = t]]
           /\ UNCHANGED <<ledgerVars, lock, world, faults>>
    BY <1>2 DEF CallRevoke
  <2> DEFINE j == [Idle EXCEPT !.step = "revoke", !.at = clock, !.target = t]
  <2>2. j \in Job /\ j.step = "revoke" /\ j.after = "idle" /\ j.at = clock /\ j.target = t
    <3>1. j.step = "revoke" /\ j.after = "idle" /\ j.at = clock /\ j.target = t
      BY DEF Idle
    <3>2. "revoke" \in Steps
      BY DEF Steps
    <3> QED
      BY <1>0, <3>1, <3>2, IdleTyped DEF Job
  <2> HIDE DEF j
  <2> QED
    <3>1. job' = [job EXCEPT ![c] = j]
      BY <2>1 DEF j
    <3>2. /\ job[c].step \notin {"sync", "target"} /\ j.step \notin Locked
          /\ j.step \notin Deleting /\ j.after \notin DeletingAfters
      BY <2>1, <2>2 DEF Locked, Deleting, DeletingAfters
    <3>3. UNCHANGED <<ledgerVars, world>> /\ lock' = lock /\ faults' = faults /\ j.at <= clock
      BY <1>0, <2>1, <2>2
    <3> QED
      BY <2>2, <3>1, <3>2, <3>3, MoveKeeps
<1> QED
  BY <1>1, <1>2

\* A deletion goes on to its next step.
LEMMA OnKeeps ==
    ASSUME IInv, NEW c \in Callers, job[c].step \in Deleting \ {"sync"},
           NEW x \in Deleting \ Locked, Moves(c, x), UNCHANGED <<ledgerVars, lock, world, faults>>
    PROVE  IInv'
<1>1. TypeOK /\ Knows(c) /\ job[c] \in Job
  BY JobTyped DEF IInv, KnowsInv
<1> DEFINE j == [job[c] EXCEPT !.step = x]
<1>4. x \in Steps /\ x # "revoke"
  BY DEF Deleting, Steps
<1>2. /\ j \in Job /\ j.step = x /\ j.after = job[c].after /\ j.deletion = job[c].deletion /\ j.at = job[c].at
      /\ job' = [job EXCEPT ![c] = j]
  BY <1>1, <1>4, JobWith DEF Job, Moves
<1>3. j.step # "revoke" /\ j.deletion \in Deletions /\ j.at <= clock /\ job[c].step \notin {"sync", "target"}
  BY <1>1, <1>2, <1>4 DEF Knows, Deleting
<1> HIDE DEF j
<1> QED
  BY <1>2, <1>3, MoveKeeps

LEMMA AppendOrReplayKeeps ==
    ASSUME IInv, NEW c \in Callers, job[c].step \in Deleting \ {"sync"},
           NEW k \in Kinds, NEW b, NEW x \in {"inspect", "destroy"},
           k \notin {"unlink_attempted", "capability_revoked", "descriptor_termination_confirmed"},
           AppendOrReplay(c, k, b, x)
    PROVE  IInv'
<1>1. x \in Afters /\ x # "shutting" /\ x \in Deleting \ Locked
  BY DEF Afters, Deleting, Locked
<1>2. CASE Puts(c, Record("execution", k, job[c].deletion), [job EXCEPT ![c].after = x])
  BY <1>1, <1>2, StreamsAre, RecordKeeps
<1>3. CASE Moves(c, x) /\ UNCHANGED <<ledgerVars, lock, world, faults>>
  BY <1>1, <1>3, OnKeeps
<1> QED
  BY <1>2, <1>3 DEF AppendOrReplay, Execution

LEMMA DeletionKeeps ==
    ASSUME IInv, NEW c \in Callers,
           \/ StartExecution(c) \/ Inspect(c) \/ AppendInventory(c)
           \/ Verify(c) \/ CheckReceipt(c) \/ AppendReceipt(c)
    PROVE  IInv'
<1>0. /\ {"execution_started", "inventory_observed", "primary_absence_verified", "deletion_receipt"} \subseteq Kinds
      /\ {"start", "inspect", "inventory", "verify", "certify", "certified"} \subseteq Deleting \ {"sync"}
      /\ {"inventory", "certified"} \subseteq Deleting \ Locked
      /\ {"certify", "idle"} \subseteq Afters
  BY KindsAre DEF ExecutionKinds, Deleting, Steps, Locked, Afters
<1>1. CASE StartExecution(c)
  BY <1>0, <1>1, AppendOrReplayKeeps DEF StartExecution
<1>2. CASE Inspect(c)
  BY <1>0, <1>2, OnKeeps DEF Inspect
<1>3. CASE AppendInventory(c)
  BY <1>0, <1>3, AppendOrReplayKeeps DEF AppendInventory
<1>4. CASE Verify(c)
  BY <1>0, <1>4, StreamsAre, RecordKeeps DEF Verify, Execution
<1>5. CASE CheckReceipt(c)
  BY <1>0, <1>5, OnKeeps DEF CheckReceipt
<1>6. CASE AppendReceipt(c)
  BY <1>0, <1>6, StreamsAre, RecordKeeps DEF AppendReceipt
<1> QED
  BY <1>1, <1>2, <1>3, <1>4, <1>5, <1>6

-----------------------------------------------------------------------------
(* The steps under the lock *)

\* Whoever has the lock and no record at hand knows how many events there are.
LEMMA LockedKeeps ==
    ASSUME IInv, NEW c \in Callers, NEW j \in Job, job' = [job EXCEPT ![c] = j],
           UNCHANGED <<ledgerVars, world, faults>>, lock \in {None, c}, lock' = c,
           j.step \in {"shutting", "unlink"}, j.heads = Len(events),
           j.step \in Deleting \/ j.after \in DeletingAfters => j.deletion \in Deletions,
           j.at <= clock, job[c].step \notin {"sync", "target"}
    PROVE  IInv'
<1>1. job'[c] = j /\ UNCHANGED <<events, clock>>
  BY DEF IInv, TypeOK, ledgerVars
<1>2. Knows(c)'
  BY <1>1 DEF Knows
<1>3. UNCHANGED <<ledgerVars, name>> /\ UNCHANGED <<capability, receiver, faults>>
  BY DEF world
<1> QED
  BY <1>2, <1>3, QuietKeeps DEF IInv, TypeOK

LEMMA TakeLockKeeps ==
    ASSUME IInv, NEW c \in Callers, CallShutdown(c) \/ TakeDestructiveLock(c)
    PROVE  IInv'
<1>0. /\ TypeOK /\ Knows(c) /\ job[c] \in Job /\ Len(events) \in Nat /\ clock \in Nat
      /\ job \in [Callers -> Job]
  BY JobTyped DEF IInv, KnowsInv, TypeOK
<1>1. CASE CallShutdown(c)
  <2>1. PICK records \in Shutdowns :
           /\ job[c].step = "idle" /\ lock = None /\ lock' = c
           /\ job' = [job EXCEPT ![c] = [Idle EXCEPT !.step = "shutting", !.heads = Len(events),
                                                     !.records = records]]
           /\ UNCHANGED <<ledgerVars, world, faults>>
    BY <1>1 DEF CallShutdown
  <2> DEFINE j == [Idle EXCEPT !.step = "shutting", !.heads = Len(events), !.records = records]
  <2>2. /\ j.step = "shutting" /\ j.heads = Len(events) /\ j.records = records /\ j.at = 0 /\ j.after = "idle"
    BY DEF Idle
  <2>3. "shutting" \in Steps /\ records \in Seq(AccessKinds)
    BY <2>1, BoundsAssumption DEF Steps
  <2>4. j \in Job
    BY <1>0, <2>3, IdleTyped DEF Job
  <2>5. job' = [job EXCEPT ![c] = j]
    BY <2>1 DEF j
  <2> HIDE DEF j
  <2>6. /\ j.step \notin Deleting /\ j.after \notin DeletingAfters /\ job[c].step \notin {"sync", "target"}
        /\ j.at <= clock /\ lock \in {None, c}
    BY <1>0, <2>1, <2>2 DEF Deleting, DeletingAfters
  <2>7. UNCHANGED <<ledgerVars, world, faults>> /\ lock' = c
    BY <2>1
  <2> QED
    BY <2>2, <2>4, <2>5, <2>6, <2>7, LockedKeeps
<1>2. CASE TakeDestructiveLock(c)
  <2> DEFINE j == [job[c] EXCEPT !.step = "unlink", !.heads = Len(events)]
  <2>1. /\ job[c].step = "destroy" /\ lock = None /\ lock' = c
        /\ UNCHANGED <<ledgerVars, world, faults>>
    BY <1>2 DEF TakeDestructiveLock
  <2>2. job' = [job EXCEPT ![c] = j]
    BY <1>0, <1>2 DEF TakeDestructiveLock
  <2>3. "unlink" \in Steps
    BY DEF Steps
  <2>4. j \in Job
    BY <1>0, <2>3 DEF Job
  <2>5. j.step = "unlink" /\ j.heads = Len(events) /\ j.deletion = job[c].deletion /\ j.at = job[c].at
    BY <1>0 DEF Job
  <2>6. j.deletion \in Deletions /\ j.at <= clock
    BY <1>0, <2>1, <2>5 DEF Knows, Deleting
  <2> HIDE DEF j
  <2> QED
    BY <2>1, <2>2, <2>4, <2>5, <2>6, LockedKeeps
<1> QED
  BY <1>1, <1>2

\* A record of the shutdown that has been seen to.
LEMMA SeenIs ==
    ASSUME TypeOK, NEW c \in Callers, job[c].records # <<>>, NEW x \in Steps, NEW r \in LedgerRecord \cup {None}
    PROVE  /\ Seen(c, x) \in Job /\ [Seen(c, x) EXCEPT !.rec = r] \in Job
           /\ Seen(c, x).step = x /\ Seen(c, x).after = "shutting" /\ Seen(c, x).deletion = job[c].deletion
           /\ Seen(c, x).at = job[c].at /\ Seen(c, x).heads = job[c].heads
<1>1. job[c] \in Job /\ "shutting" \in Afters
  BY JobTyped DEF Afters
<1>2. Tail(job[c].records) \in Seq(AccessKinds)
  BY <1>1 DEF Job
<1> QED
  BY <1>1, <1>2 DEF Seen, Job

LEMMA ReplayKeeps ==
    ASSUME IInv, NEW c \in Callers, ReplayAccess(c)
    PROVE  IInv'
<1>0. TypeOK /\ Knows(c) /\ "shutting" \in Steps /\ job[c].step = "shutting" /\ job[c].records # <<>>
  BY DEF IInv, KnowsInv, Steps, ReplayAccess
<1>1. /\ lock = c /\ lock' = c /\ UNCHANGED <<ledgerVars, world, faults>>
      /\ job' = [job EXCEPT ![c] = Seen(c, "shutting")]
  BY <1>0 DEF ReplayAccess, Knows, Locked
<1> DEFINE j == Seen(c, "shutting")
<1>2. /\ j \in Job /\ j.step = "shutting" /\ j.after = "shutting" /\ j.at = job[c].at /\ j.heads = job[c].heads
  BY <1>0, SeenIs
<1> HIDE DEF j
<1>3. j.heads = Len(events) /\ j.at <= clock /\ j.step \notin Deleting /\ j.after \notin DeletingAfters
  BY <1>0, <1>2 DEF Knows, Counted, Deleting, DeletingAfters
<1> QED
  BY <1>0, <1>1, <1>2, <1>3, LockedKeeps DEF j

\* Access records are not those a projection or an execution reads.
LEMMA AccessRecord ==
    ASSUME TypeOK, KnowsInv, NEW k \in AccessKinds, NEW s \in {"capability", "descriptor"},
           Prepared(Record("access", k, s))
    PROVE  /\ Record("access", k, s) \in LedgerRecord /\ Fits(Record("access", k, s)) /\ events = <<>>
           /\ Record("access", k, s).format = "access" /\ Record("access", k, s).kind = k
<1>1. Record("access", k, s) \in LedgerRecord
  BY KindsAre, StreamsAre, RecordTyped
<1>2. /\ Record("access", k, s).means = Record("access", k, s).kind /\ Record("access", k, s).corrects = 0
      /\ Record("access", k, s).at = clock
  BY RecordIs
<1> QED
  BY <1>1, <1>2, RecordIs, PlainFits, NothingRevoked

LEMMA EffectKeeps ==
    ASSUME IInv, NEW c \in Callers, job[c].step = "shutting", job[c].records # <<>>,
           NEW k \in AccessKinds, NEW s \in {"capability", "descriptor"},
           Effect(c, Record("access", k, s)), name' = name,
           capability' \in BOOLEAN, ~capability => ~capability',
           receiver' \in BOOLEAN, ~receiver => ~receiver',
           Attested(Record("access", k, s))'
    PROVE  IInv'
<1> DEFINE r == Record("access", k, s)
<1>0. TypeOK /\ Knows(c) /\ KnowsInv /\ "target" \in Steps /\ clock \in Nat
  BY DEF IInv, KnowsInv, Steps, TypeOK
<1>1. /\ r \in LedgerRecord /\ Prepared(r) /\ Fits(r) /\ events = <<>> /\ r.format = "access"
      /\ UNCHANGED <<ledgerVars, lock, faults>>
      /\ job' = [job EXCEPT ![c] = [Seen(c, "target") EXCEPT !.rec = r]]
  BY <1>0, AccessRecord DEF Effect
<1>2. UNCHANGED <<ledger, bare, events, clock>> /\ r' = r
  BY <1>1 DEF ledgerVars, Record
<1>3. Attested(r)'
  OBVIOUS
<1> HIDE DEF r
<1> DEFINE j == [Seen(c, "target") EXCEPT !.rec = r]
<1>4. /\ j \in Job /\ j.step = "target" /\ j.rec = r /\ j.after = "shutting" /\ j.at = job[c].at
      /\ j.heads = job[c].heads /\ j.deletion = job[c].deletion
  <2>1. Seen(c, "target") \in Job /\ j \in Job
    BY <1>0, <1>1, SeenIs
  <2>2. /\ Seen(c, "target").step = "target" /\ Seen(c, "target").after = "shutting"
        /\ Seen(c, "target").deletion = job[c].deletion
        /\ Seen(c, "target").at = job[c].at /\ Seen(c, "target").heads = job[c].heads
    BY <1>0, <1>1, SeenIs
  <2>3. \A q \in Job : LET p == [q EXCEPT !.rec = r] IN
           /\ p.rec = r /\ p.step = q.step /\ p.after = q.after /\ p.at = q.at
           /\ p.heads = q.heads /\ p.deletion = q.deletion
    BY DEF Job
  <2> QED
    BY <2>1, <2>2, <2>3
<1>5. job' = [job EXCEPT ![c] = j]
  BY <1>1
<1> HIDE DEF j
<1>6. PICK q \in LedgerRecord : q = r
  BY <1>1
<1>7. Prepared(q)' /\ Fits(q)' /\ Attested(q)'
  BY <1>1, <1>2, <1>3, <1>6, PreparedKept, SameLedger DEF Attested, Has, Indices
<1>8. job'[c] = j
  BY <1>0, <1>5 DEF TypeOK
<1>9. Knows(c)'
  <2>1. lock' = c /\ j.heads = Len(events') /\ events' = <<>> /\ j.at <= clock'
    BY <1>0, <1>1, <1>2, <1>4 DEF Knows, Locked, Counted
  <2>2. j.step \notin Deleting /\ j.after \notin DeletingAfters
    BY <1>4 DEF Deleting, DeletingAfters
  <2> QED
    BY <1>1, <1>4, <1>6, <1>7, <1>8, <2>1, <2>2 DEF Knows
<1>10. UNCHANGED <<ledgerVars, name>> /\ lock' = lock /\ faults' = faults
  BY <1>1
<1> QED
  BY <1>4, <1>5, <1>9, <1>10, QuietKeeps

LEMMA AccessKeeps ==
    ASSUME IInv, NEW c \in Callers, RevokeCapability(c) \/ TerminateReceiver(c)
    PROVE  IInv'
<1>0. capability \in BOOLEAN /\ receiver \in BOOLEAN
  BY DEF IInv, TypeOK
<1>1. CASE RevokeCapability(c)
  <2>1. /\ job[c].step = "shutting" /\ job[c].records # <<>> /\ capability' = FALSE
        /\ UNCHANGED <<name, receiver>> /\ Effect(c, Record("access", "capability_revoked", "capability"))
    BY <1>1 DEF RevokeCapability, AtHand
  <2>2. Attested(Record("access", "capability_revoked", "capability"))'
    BY <2>1 DEF Attested, Record
  <2>3. "capability_revoked" \in AccessKinds
    BY DEF AccessKinds
  <2> QED
    BY <1>0, <2>1, <2>2, <2>3, EffectKeeps
<1>2. CASE TerminateReceiver(c)
  <2>1. /\ job[c].step = "shutting" /\ job[c].records # <<>> /\ receiver' = FALSE
        /\ UNCHANGED <<name, capability>>
        /\ Effect(c, Record("access", "descriptor_termination_confirmed", "descriptor"))
    BY <1>2 DEF TerminateReceiver, AtHand
  <2>2. Attested(Record("access", "descriptor_termination_confirmed", "descriptor"))'
    BY <2>1 DEF Attested, Record
  <2>3. "descriptor_termination_confirmed" \in AccessKinds
    BY DEF AccessKinds
  <2> QED
    BY <1>0, <2>1, <2>2, <2>3, EffectKeeps
<1> QED
  BY <1>1, <1>2

LEMMA RequestKeeps ==
    ASSUME IInv, NEW c \in Callers, RequestTermination(c)
    PROVE  IInv'
<1> DEFINE r == Record("access", "descriptor_termination_requested", "descriptor")
           j == Seen(c, "receipt")
<1>0. /\ TypeOK /\ KnowsInv /\ Knows(c) /\ "receipt" \in Steps /\ clock \in Nat /\ faults \in Nat
      /\ job \in [Callers -> Job] /\ c # None
  BY BoundsAssumption DEF IInv, KnowsInv, Steps, TypeOK
<1>1. /\ job[c].step = "shutting" /\ job[c].records # <<>> /\ Prepared(r) /\ bare' = r
      /\ job' = [job EXCEPT ![c] = j]
      /\ UNCHANGED <<ledger, events, clock, lock, name, capability, receiver, faults>>
  BY DEF RequestTermination, AtHand, world
<1>2. "descriptor_termination_requested" \in Kinds /\ "access" \in Formats /\ "descriptor" \in Streams
  BY KindsAre, StreamsAre DEF AccessKinds
<1>3. Puttable(r)
  BY <1>0, <1>1, <1>2, RecordPuttable
<1>4. /\ j \in Job /\ j.step = "receipt" /\ j.after = "shutting" /\ j.at = job[c].at
      /\ j.heads = job[c].heads
  BY <1>0, <1>1, SeenIs
<1> HIDE DEF r, j
<1>5. r \in LedgerRecord /\ events = <<>> /\ r # None
  BY <1>3, RestrictionAssumption DEF Puttable
<1>6. TypeOK'
  BY <1>0, <1>1, <1>4, <1>5 DEF TypeOK
<1>7. lock = c
  BY <1>0, <1>1 DEF Knows, Locked
<1>8. Onward /\ Apart(c)
  BY <1>0, <1>1, <1>7 DEF Onward, Apart
<1>9. job'[c] = j
  BY <1>0, <1>1
<1>10. Knows(c)'
  <2>1. j.step \notin Deleting /\ j.after \notin DeletingAfters /\ j.at <= clock /\ j.heads = Len(events)
    BY <1>0, <1>1, <1>4 DEF Deleting, DeletingAfters, Knows, Counted
  <2> QED
    BY <1>1, <1>4, <1>5, <1>7, <1>9, <2>1 DEF Knows, Locked, Counted
<1>11. RemovalInv'
  BY <1>1, <1>3, <1>8, DataKept, RemovalKept
<1> QED
  BY <1>1, <1>3, <1>6, <1>8, <1>10, <1>11, StepKeeps

\* What was prepared before the effect is persisted after it, without fail.
LEMMA TargetKeeps ==
    ASSUME IInv, NEW c \in Callers, PersistTarget(c)
    PROVE  IInv'
<1>0. /\ TypeOK /\ KnowsInv /\ Knows(c) /\ "receipt" \in Steps /\ clock \in Nat /\ faults \in Nat
      /\ job \in [Callers -> Job] /\ job[c] \in Job /\ c # None /\ job[c].step = "target"
  BY BoundsAssumption DEF IInv, KnowsInv, Steps, TypeOK, PersistTarget
<1>1. PICK r \in LedgerRecord :
         r = job[c].rec /\ Prepared(r) /\ Fits(r) /\ (r \in Attempts \/ r.format = "access") /\ Attested(r)
  BY <1>0 DEF Knows
<1>2. events = <<>> /\ lock = c /\ job[c].heads = Len(events)
  BY <1>0 DEF Knows, Locked, Counted
<1>3. Puttable(r)
  BY <1>1, <1>2 DEF Puttable
<1>4. ChainReads /\ Len(events) = job[c].heads /\ Prepared(job[c].rec)
  BY <1>1, <1>2 DEF Prepared, SessionsLive
<1> DEFINE j == [job[c] EXCEPT !.step = "receipt", !.rec = None]
<1>5. /\ bare' = r /\ job' = [job EXCEPT ![c] = j]
      /\ UNCHANGED <<ledger, events, clock, lock, name, capability, receiver, faults>>
  BY <1>0, <1>1, <1>4 DEF PersistTarget, world
<1>6. /\ j \in Job /\ j.step = "receipt" /\ j.after = job[c].after /\ j.at = job[c].at
      /\ j.heads = job[c].heads /\ j.deletion = job[c].deletion
  BY <1>0 DEF Job
<1> HIDE DEF j
<1>7. r # None
  BY <1>1, RestrictionAssumption
<1>8. TypeOK'
  BY <1>0, <1>1, <1>5, <1>6 DEF TypeOK
<1>9. Onward /\ Apart(c)
  BY <1>0, <1>2, <1>5 DEF Onward, Apart
<1>10. job'[c] = j
  BY <1>0, <1>5
<1>11. Knows(c)'
  <2>1. j.step \notin Deleting /\ j.at <= clock /\ (j.after \in DeletingAfters => j.deletion \in Deletions)
    BY <1>0, <1>6 DEF Deleting, Knows
  <2> QED
    BY <1>2, <1>5, <1>6, <1>7, <1>10, <2>1 DEF Knows, Locked, Counted
<1>12. RemovalInv'
  BY <1>1, <1>3, <1>5, <1>9, DataKept, RemovalKept
<1> QED
  BY <1>3, <1>5, <1>8, <1>9, <1>11, <1>12, StepKeeps

\* A removal that may be recorded is of an execution that is on record.
LEMMA AttemptFollows ==
    ASSUME TypeOK, OrderInv, NEW r \in Attempts, Prepared(r)
    PROVE  r.stream \in Deletions /\ Indices("execution", r.stream) # {}
<1>1. r.stream \in Deletions /\ r.stream \in Streams /\ "execution" \in Formats
  BY StreamsAre DEF Attempts
<1>2. <<Leaf("execution", r.stream), "unlink_attempted">> \in ExecutionTransitions
  BY DEF Attempts, Prepared, SemanticsHold, ExecutionFits
<1> QED
  BY <1>1, <1>2, LeafIsMet DEF ExecutionTransitions

\* The record of the removal is prepared in the turn that removes.
LEMMA UnlinkKeeps ==
    ASSUME IInv, NEW c \in Callers, Unlink(c)
    PROVE  IInv'
<1>0. /\ TypeOK /\ KnowsInv /\ Knows(c) /\ OrderInv /\ job[c] \in Job /\ job \in [Callers -> Job]
      /\ clock \in Nat /\ faults \in Nat /\ bare \in LedgerRecord \cup {None}
  BY JobTyped DEF IInv, KnowsInv, LedgerInv, TypeOK
<1>1. PICK effective \in HeadAt .. (HeadAt + Window) :
         Len(events) = job[c].heads /\ RemoveName(c, effective)
  BY DEF Unlink
<1> DEFINE d == job[c].deletion
           r == [Execution("unlink_attempted", d) EXCEPT !.effective = effective]
           j == [job[c] EXCEPT !.step = "sync", !.rec = r, !.after = "verify", !.asOf = 0]
<1>2. /\ job[c].step = "unlink" /\ name = "present" /\ Prepared(r) /\ name' = "unlinked"
      /\ job' = [job EXCEPT ![c] = j]
      /\ UNCHANGED <<ledger, bare, events, clock, lock, capability, receiver, faults>>
  BY <1>0, <1>1 DEF RemoveName, ledgerVars
<1>3. d \in Deletions /\ lock = c
  BY <1>0, <1>2 DEF Knows, Deleting, Locked
<1>4. /\ r.format = "execution" /\ r.kind = "unlink_attempted" /\ r.means = "unlink_attempted"
      /\ r.stream = d /\ r.corrects = 0 /\ r.at = clock
  BY DEF Execution, Record
<1>5. r \in LedgerRecord
  <2>1. "unlink_attempted" \in Kinds
    BY KindsAre DEF ExecutionKinds
  <2>2. Execution("unlink_attempted", d) \in LedgerRecord
    BY <1>0, <1>3, <2>1, StreamsAre, RecordTyped DEF Execution
  <2>3. effective \in Nat
    BY <1>0, <1>1, HeadIsLast, RestrictionAssumption
  <2> QED
    BY <2>2, <2>3 DEF LedgerRecord
<1>6. r \in Attempts /\ events = <<>> /\ Fits(r)
  BY <1>0, <1>2, <1>3, <1>4, <1>5, PlainFits, NothingRevoked DEF Attempts
<1>7. PICK q \in Attempts : q = r /\ Prepared(q)
  BY <1>2, <1>6
<1> HIDE DEF r
<1>8. /\ j \in Job /\ j.step = "sync" /\ j.after = "verify" /\ j.at = job[c].at /\ j.rec = r
      /\ j.heads = job[c].heads /\ j.deletion = d
  <2>1. "sync" \in Steps /\ "verify" \in Afters
    BY DEF Steps, Afters
  <2> QED
    BY <1>0, <1>5, <2>1 DEF Job
<1> HIDE DEF d, j
<1>9. TypeOK'
  BY <1>0, <1>2, <1>8 DEF TypeOK
<1>10. Onward /\ Apart(c)
  BY <1>0, <1>2, <1>3 DEF Onward, Apart
<1>11. job'[c] = j
  BY <1>0, <1>2
<1>12. Knows(c)'
  <2>1. q \in LedgerRecord /\ Prepared(q)' /\ Fits(q)'
    BY <1>2, <1>6, <1>7, PreparedKept, SameLedger DEF Attempts
  <2>2. j.at <= clock' /\ j.heads = Len(events') /\ lock' = c
    BY <1>0, <1>1, <1>2, <1>3, <1>8 DEF Knows
  <2> QED
    BY <1>2, <1>3, <1>6, <1>7, <1>8, <1>11, <2>1, <2>2 DEF Knows
<1>13. RemovalInv'
  <2>1. q.stream \in Deletions /\ Indices("execution", q.stream)' # {}
    BY <1>0, <1>2, <1>7, AttemptFollows, SameLedger
  <2>2. job'[c].step = "sync" /\ job'[c].rec \in Attempts
    BY <1>6, <1>8, <1>11
  <2> QED
    BY <2>1, <2>2 DEF RemovalInv, Attempts
<1> QED
  BY <1>2, <1>9, <1>10, <1>12, <1>13, StepKeeps

\* With the directory synced the name is gone for good.
LEMMA SyncKeeps ==
    ASSUME IInv, NEW c \in Callers, Sync(c)
    PROVE  IInv'
<1>0. /\ TypeOK /\ KnowsInv /\ Knows(c) /\ job[c] \in Job /\ job \in [Callers -> Job]
      /\ clock \in Nat /\ faults \in Nat /\ "target" \in Steps
      /\ job[c].step = "sync" /\ name' = "absent" /\ Moves(c, "target")
      /\ UNCHANGED <<ledger, bare, events, clock, lock, capability, receiver, faults>>
  BY JobTyped DEF IInv, KnowsInv, TypeOK, Steps, Sync, ledgerVars
<1> DEFINE j == [job[c] EXCEPT !.step = "target"]
<1>1. PICK r \in LedgerRecord : r = job[c].rec /\ Prepared(r) /\ Fits(r) /\ r \in Attempts
  BY <1>0 DEF Knows
<1>2. /\ j \in Job /\ j.step = "target" /\ j.after = job[c].after /\ j.at = job[c].at /\ j.rec = r
      /\ j.heads = job[c].heads /\ j.deletion = job[c].deletion /\ job' = [job EXCEPT ![c] = j]
  BY <1>0, <1>1, JobWith DEF Job, Moves
<1> HIDE DEF j
<1>3. lock = c /\ events = <<>> /\ job[c].heads = Len(events)
  BY <1>0 DEF Knows, Locked, Counted
<1>4. TypeOK'
  BY <1>0, <1>2 DEF TypeOK
<1>5. job'[c] = j
  BY <1>0, <1>2
<1>6. Onward /\ Apart(c)
  BY <1>0, <1>2, <1>3 DEF Onward, Apart
<1>7. Prepared(r)' /\ Fits(r)'
  BY <1>0, <1>1, PreparedKept, SameLedger
<1>8. Attested(r)'
  BY <1>0, <1>1 DEF Attested, Attempts
<1>9. Knows(c)'
  <2>1. j.at <= clock' /\ j.heads = Len(events') /\ lock' = c /\ (j.after \in DeletingAfters => j.deletion \in Deletions)
    BY <1>0, <1>2, <1>3 DEF Knows
  <2>2. j.step \notin Deleting
    BY <1>2 DEF Deleting
  <2> QED
    BY <1>0, <1>1, <1>2, <1>3, <1>5, <1>7, <1>8, <2>1, <2>2 DEF Knows
<1>10. RemovalInv'
  <2>1. r.stream \in Deletions /\ Indices("execution", r.stream)' # {}
    BY <1>0, <1>1, AttemptFollows, SameLedger DEF IInv, LedgerInv
  <2>2. job'[c].step = "target" /\ job'[c].rec \in Attempts
    BY <1>1, <1>2, <1>5
  <2> QED
    BY <2>1, <2>2 DEF RemovalInv, Attempts
<1> QED
  BY <1>0, <1>4, <1>6, <1>9, <1>10, StepKeeps

\* An event reaches the authority while nobody has the lock.
LEMMA RevokeKeeps ==
    ASSUME IInv, NEW c \in Callers, Revoke(c)
    PROVE  IInv'
<1>0. /\ TypeOK /\ KnowsInv /\ Knows(c) /\ job[c] \in Job /\ job \in [Callers -> Job]
      /\ clock \in Nat /\ faults \in Nat /\ Idle \in Job /\ events \in Seq(Event)
      /\ job[c].step = "revoke" /\ lock = None /\ job' = [job EXCEPT ![c] = Idle]
      /\ events' = Append(events, [target |-> job[c].target, at |-> job[c].at])
      /\ UNCHANGED <<ledger, bare, clock, lock, name, capability, receiver, faults>>
  BY JobTyped, IdleTyped DEF IInv, KnowsInv, TypeOK, Revoke, Ends, world
<1>1. job[c].target \in Targets
  BY <1>0 DEF Knows
<1>2. TypeOK'
  <2>1. [target |-> job[c].target, at |-> job[c].at] \in Event
    BY <1>0, <1>1 DEF Event, Job
  <2> QED
    BY <1>0, <2>1 DEF TypeOK
<1>3. Onward /\ Apart(c)
  BY <1>0 DEF Onward, Apart
<1>4. Knows(c)'
  <2>1. job'[c] = Idle
    BY <1>0
  <2> QED
    BY <1>0, <2>1 DEF Knows, Idle, Locked, Counted, Deleting, DeletingAfters
<1>5. RemovalInv'
  BY <1>0, <1>3, DataKept, RemovalKept
<1> QED
  BY <1>0, <1>1, <1>2, <1>3, <1>4, <1>5, StepKeeps

\* Power lost: nobody knows anything any more, and a removal not synced may be undone.
LEMMA PowerKeeps ==
    ASSUME IInv, PowerLoss
    PROVE  IInv'
<1>0. /\ TypeOK /\ KnowsInv /\ clock \in Nat /\ faults \in Nat /\ Idle \in Job
      /\ name = "unlinked" /\ faults' = faults + 1 /\ job' = [c \in Callers |-> Idle] /\ lock' = None
      /\ name' \in {"present", "absent"}
      /\ UNCHANGED <<ledger, bare, events, clock, capability, receiver>>
  BY IdleTyped DEF IInv, TypeOK, PowerLoss, ledgerVars
<1>1. TypeOK'
  BY <1>0 DEF TypeOK
<1>2. Onward
  BY <1>0 DEF Onward
<1>3. LedgerInv' /\ BareInv' /\ AttestedInv'
  BY <1>0, <1>2, DataKept
<1>4. KnowsInv'
  <2>1. \A c \in Callers : job'[c] = Idle
    BY <1>0
  <2>2. \A c \in Callers : Knows(c)'
    BY <1>0, <2>1 DEF Knows, Idle, Locked, Counted, Deleting, DeletingAfters
  <2> QED
    BY <1>0, <2>2 DEF KnowsInv
<1>5. RemovalInv'
  BY <1>0, SameLedger DEF IInv, RemovalInv
<1> QED
  BY <1>1, <1>3, <1>4, <1>5 DEF IInv

LEMMA TickKeeps ==
    ASSUME IInv, Tick
    PROVE  IInv'
<1>1. PICK c \in Callers : job[c].step = "target"
  BY DEF Tick
<1>0. /\ TypeOK /\ KnowsInv /\ Knows(c) /\ job[c] \in Job /\ clock \in Nat /\ faults \in Nat
      /\ clock' = clock + 1
      /\ UNCHANGED <<ledger, bare, events, lock, job, name, capability, receiver, faults>>
  BY JobTyped DEF IInv, TypeOK, Tick, world, KnowsInv
<1>2. TypeOK'
  BY <1>0 DEF TypeOK
<1>3. Onward /\ Apart(c)
  BY <1>0 DEF Onward, Apart
<1>4. Knows(c)'
  <2>1. PICK r \in LedgerRecord : /\ r = job[c].rec /\ Prepared(r) /\ Fits(r)
                                  /\ (r \in Attempts \/ r.format = "access") /\ Attested(r)
    BY <1>0, <1>1 DEF Knows
  <2>2. Prepared(r)' /\ Fits(r)' /\ Attested(r)'
    BY <1>0, <1>3, <2>1, PreparedKept, SameLedger, AttestedKept
  <2>3. job'[c].at <= clock'
    BY <1>0 DEF Knows, Job
  <2> QED
    BY <1>0, <1>1, <2>1, <2>2, <2>3 DEF Knows
<1>5. RemovalInv'
  BY <1>0, <1>3, DataKept, RemovalKept
<1> QED
  BY <1>0, <1>2, <1>3, <1>4, <1>5, StepKeeps

LEMMA StutterKeeps ==
    ASSUME IInv, UNCHANGED vars
    PROVE  IInv'
<1>0. /\ TypeOK /\ KnowsInv /\ clock \in Nat
      /\ UNCHANGED <<ledger, bare, events, clock, lock, job, name, capability, receiver, faults>>
  BY DEF IInv, TypeOK, vars, ledgerVars
<1>1. TypeOK'
  BY <1>0 DEF TypeOK
<1>2. Onward
  BY <1>0 DEF Onward
<1>3. LedgerInv' /\ BareInv' /\ AttestedInv'
  BY <1>0, <1>2, DataKept
<1>4. \A r \in LedgerRecord : /\ Prepared(r) => Prepared(r)'
                              /\ Fits(r) => Fits(r)'
                              /\ Attested(r) => Attested(r)'
  BY <1>0, <1>2, PreparedKept, SameLedger, AttestedKept
<1>5. ASSUME NEW c \in Callers
      PROVE  Knows(c)'
  <2>1. Knows(c)
    BY <1>0 DEF KnowsInv
  <2>2. ASSUME job[c].step \in {"sync", "target"}
        PROVE  \E r \in LedgerRecord :
                  /\ r = job[c].rec /\ Prepared(r)' /\ Fits(r)'
                  /\ job[c].step = "sync" => r \in Attempts
                  /\ job[c].step = "target" => (r \in Attempts \/ r.format = "access") /\ Attested(r)'
    BY <1>4, <2>1, <2>2 DEF Knows
  <2> QED
    BY <1>0, <2>1, <2>2 DEF Knows
<1>6. KnowsInv'
  BY <1>0, <1>5 DEF KnowsInv
<1>7. RemovalInv'
  <2>1. Written' = Written
    BY <1>0 DEF Written
  <2>2. \A d : OnRecord("execution", "unlink_attempted", d)' = OnRecord("execution", "unlink_attempted", d)
    BY <2>1 DEF OnRecord
  <2> QED
    BY <1>0, <2>2, SameLedger DEF IInv, RemovalInv
<1> QED
  BY <1>1, <1>3, <1>6, <1>7 DEF IInv

LEMMA InitIs == RestrictionInit => IInv
<1> SUFFICES ASSUME RestrictionInit PROVE IInv
  OBVIOUS
<1>0. /\ ledger = <<>> /\ bare = None /\ events = <<>> /\ clock = 1 /\ lock = None
      /\ job = [c \in Callers |-> Idle] /\ name = "present" /\ capability = TRUE /\ receiver = TRUE /\ faults = 0
  BY DEF RestrictionInit
<1>1. TypeOK
  BY <1>0, IdleTyped DEF TypeOK
<1>2. LedgerInv /\ BareInv
  <2>1. \A f, s : Indices(f, s) = {}
    BY <1>0 DEF Indices
  <2> QED
    BY <1>0, <2>1 DEF LedgerInv, OrderInv, TombstoneInv, CourseInv, BareInv
<1>3. AttestedInv
  <2>1. Written = {}
    BY <1>0 DEF Written, Range
  <2> QED
    BY <2>1 DEF AttestedInv
<1>4. KnowsInv
  <2>1. \A c \in Callers : job[c] = Idle
    BY <1>0
  <2>2. \A c \in Callers : Knows(c)
    BY <1>0, <2>1 DEF Knows, Idle, Locked, Counted, Deleting, DeletingAfters
  <2> QED
    BY <1>0, <2>2 DEF KnowsInv
<1>5. RemovalInv
  BY <1>0 DEF RemovalInv
<1> QED
  BY <1>1, <1>2, <1>3, <1>4, <1>5 DEF IInv

\* The whole is an invariant.
LEMMA NextKeeps == IInv /\ [RestrictionNext]_vars => IInv'
<1> SUFFICES ASSUME IInv, [RestrictionNext]_vars PROVE IInv'
  OBVIOUS
<1>1. ASSUME NEW c \in Callers, Calls(c)
      PROVE  IInv'
  BY <1>1, SubmitKeeps, CallKeeps, TakeLockKeeps DEF Calls
<1>2. ASSUME NEW c \in Callers, Works(c)
      PROVE  IInv'
  BY <1>2, ReceiptKeeps, ReplayKeeps, AccessKeeps, RequestKeeps, TargetKeeps, DeletionKeeps,
     TakeLockKeeps, UnlinkKeeps, SyncKeeps, RevokeKeeps, GiveUpKeeps DEF Works
<1>3. ASSUME NEW c \in Callers, Fail(c)
      PROVE  IInv'
  BY <1>3, GiveUpKeeps
<1>4. CASE UNCHANGED vars
  BY <1>4, StutterKeeps
<1> QED
  BY <1>1, <1>2, <1>3, <1>4, PowerKeeps, TickKeeps DEF RestrictionNext

LEMMA Invariant == RestrictionSpec => []IInv
BY InitIs, NextKeeps, PTL DEF RestrictionSpec
-----------------------------------------------------------------------------
(* What is promised *)

\* Every record that is prepared, persisted or receipted is one the contracts know
\* (ledger.mjs), and every call, event and effect keeps its type.
THEOREM TypeCorrect == RestrictionSpec => []TypeOK
BY Invariant, PTL DEF IInv

\* An execution that has its last step has all four of them, each once and in order.
LEMMA CourseIs ==
    ASSUME TypeOK, LedgerInv, NEW d \in Deletions, Has("execution", "primary_absence_verified", d)
    PROVE  LET at(kind) == CHOOSE i \in Indices("execution", d) : ledger[i].kind = kind
           IN /\ Cardinality(Indices("execution", d)) = 4
              /\ at("execution_started") < at("inventory_observed")
              /\ at("inventory_observed") < at("unlink_attempted")
              /\ at("unlink_attempted") < at("primary_absence_verified")
<1> DEFINE I == Indices("execution", d)
           at(kind) == CHOOSE i \in I : ledger[i].kind = kind
<1>0. d \in Streams /\ I \subseteq 1 .. Len(ledger) /\ Len(ledger) \in Nat
  BY StreamsAre, IndicesAre DEF TypeOK
<1>1. /\ \A i \in I : ledger[i].kind \in ExecutionKinds
      /\ \A i, j \in I : i < j => Rank(ledger[i].kind) < Rank(ledger[j].kind)
  BY <1>0 DEF LedgerInv, CourseInv
<1>2. \A k \in ExecutionKinds : \E i \in I : ledger[i].kind = k
  <2>1. PICK v \in I : ledger[v].kind = "primary_absence_verified"
    BY DEF Has
  <2>2. \A k \in ExecutionKinds : Rank(k) < 4 => Has("execution", k, d)
    BY <1>0, <2>1, RankIs DEF LedgerInv, CourseInv
  <2>3. \A k \in ExecutionKinds : Rank(k) < 4 \/ k = "primary_absence_verified"
    BY RankIs DEF ExecutionKinds
  <2> QED
    BY <2>1, <2>2, <2>3 DEF Has
<1>3. \A i, j \in I : ledger[i].kind = ledger[j].kind => i = j
  <2> TAKE i, j \in I
  <2>1. \A k \in ExecutionKinds : Rank(k) \in Nat
    BY RankIs DEF ExecutionKinds
  <2>2. i \in Int /\ j \in Int
    BY <1>0
  <2>3. Rank(ledger[i].kind) \in Nat /\ Rank(ledger[j].kind) \in Nat
    BY <1>1, <2>1
  <2> QED
    BY <1>1, <2>2, <2>3
<1>4. \A k \in ExecutionKinds : at(k) \in I /\ ledger[at(k)].kind = k
  BY <1>2
<1>5. \A k, l \in ExecutionKinds : Rank(k) < Rank(l) => at(k) < at(l)
  <2> TAKE k, l \in ExecutionKinds
  <2>1. at(k) \in I /\ at(l) \in I /\ ledger[at(k)].kind = k /\ ledger[at(l)].kind = l
    BY <1>4
  <2> HIDE DEF at
  <2>2. at(k) \in Int /\ at(l) \in Int
    BY <1>0, <2>1
  <2>3. Rank(k) \in Nat /\ Rank(l) \in Nat
    BY RankIs DEF ExecutionKinds
  <2> QED
    BY <1>1, <2>1, <2>2, <2>3
<1> DEFINE a == at("execution_started")
           b == at("inventory_observed")
           e == at("unlink_attempted")
           v == at("primary_absence_verified")
<1>6. a < b /\ b < e /\ e < v
  BY <1>5, RankIs DEF ExecutionKinds
<1>7. I = {a, b, e, v}
  <2>1. a \in I /\ b \in I /\ e \in I /\ v \in I
    BY <1>4 DEF ExecutionKinds
  <2>2. \A i \in I : i \in {a, b, e, v}
    <3> TAKE i \in I
    <3>1. ledger[i].kind \in ExecutionKinds
      BY <1>1
    <3>2. at(ledger[i].kind) = i
      BY <1>3, <1>4, <3>1
    <3> HIDE DEF at
    <3> QED
      BY <3>1, <3>2 DEF ExecutionKinds
  <2> QED
    BY <2>1, <2>2
<1>8. a \in Int /\ b \in Int /\ e \in Int /\ v \in Int
  BY <1>0, <1>7
<1> HIDE DEF a, b, e, v
<1>9. Cardinality({a, b, e, v}) = 4
  <2>1. IsFiniteSet({}) /\ Cardinality({}) = 0
    BY FS_EmptySet
  <2>2. IsFiniteSet({a}) /\ Cardinality({a}) = 1
    BY FS_Singleton
  <2>3. IsFiniteSet({a} \cup {b}) /\ Cardinality({a} \cup {b}) = 2
    BY <1>6, <1>8, <2>2, FS_AddElement
  <2>4. IsFiniteSet(({a} \cup {b}) \cup {e}) /\ Cardinality(({a} \cup {b}) \cup {e}) = 3
    BY <1>6, <1>8, <2>3, FS_AddElement
  <2>5. Cardinality((({a} \cup {b}) \cup {e}) \cup {v}) = 4
    <3>1. v \notin ({a} \cup {b}) \cup {e}
      BY <1>6, <1>8
    <3> DEFINE S == ({a} \cup {b}) \cup {e}
    <3>2. IsFiniteSet(S) /\ Cardinality(S) = 3 /\ v \notin S
      BY <2>4, <3>1
    <3> HIDE DEF S
    <3>3. Cardinality(S \cup {v}) = 4
      BY <3>2, FS_AddElement
    <3> QED
      BY <3>3 DEF S
  <2>6. {a, b, e, v} = (({a} \cup {b}) \cup {e}) \cup {v}
    OBVIOUS
  <2> QED
    BY <2>5, <2>6
<1> QED
  BY <1>6, <1>7, <1>9 DEF a, b, e, v

\* A deletion receipt on record, and a terminal access record, tell the truth
\* (operations.mjs, access-control.mjs): for any number of callers, holds and
\* deletions, faults and power losses.
THEOREM ReceiptsAreTruthful == RestrictionSpec => []ReceiptTruthful
<1>1. IInv => ReceiptTruthful
  <2> SUFFICES ASSUME IInv PROVE ReceiptTruthful
    OBVIOUS
  <2>0. TypeOK /\ LedgerInv /\ \A r \in Written : Attested(r)
    BY DEF IInv, AttestedInv
  <2>1. TerminationTrue
    BY <2>0 DEF TerminationTrue, OnRecord, Attested
  <2>2. ASSUME NEW d \in Deletions, OnRecord("receipt", "deletion_receipt", d)
        PROVE  /\ name = "absent"
               /\ Has("execution", "primary_absence_verified", d)
    <3>1. PICK r \in Written : r.format = "receipt" /\ r.stream = d
      BY <2>2 DEF OnRecord
    <3>2. Has("execution", "unlink_attempted", d) /\ Has("execution", "primary_absence_verified", d)
      BY <2>0, <3>1 DEF Attested
    <3>3. PICK i \in Indices("execution", d) : ledger[i].kind = "unlink_attempted"
      BY <3>2 DEF Has
    <3>4. ledger[i] \in Written /\ ledger[i].format = "execution"
      BY <3>3 DEF Written, Range, Indices
    <3> QED
      BY <2>0, <3>2, <3>3, <3>4 DEF Attested
  <2>3. DeletionTrue
    BY <2>0, <2>2, CourseIs DEF DeletionTrue
  <2> QED
    BY <2>1, <2>3 DEF ReceiptTruthful
<1> QED
  BY <1>1, Invariant, PTL

\* A removal is recorded unless something failed, and however it failed, a removal
\* without its receipt is never taken for a completed deletion (operations.mjs,
\* recovery.mjs).
THEOREM RemovalsAreRecorded == RestrictionSpec => []RemovalRecorded
<1>1. IInv => RemovalRecorded
  <2> SUFFICES ASSUME IInv, name # "present" PROVE RemovalRecorded
    BY DEF RemovalRecorded
  <2>0. TypeOK /\ RemovalInv /\ (\A c \in Callers : Knows(c)) /\ \A r \in Written : Attested(r)
    BY DEF IInv, KnowsInv, AttestedInv
  <2>1. \A c \in Callers : job[c].step \in {"sync", "target"} => lock = c
    BY <2>0 DEF Knows, Locked
  <2>2. ASSUME bare = None, \A d \in Deletions : ~OnRecord("receipt", "deletion_receipt", d)
        PROVE  LedgerState = "recovery_required"
    <3>1. PICK d \in Deletions : Indices("execution", d) # {}
      BY <2>0 DEF RemovalInv
    <3>2. Indices("receipt", d) = {}
      <4>1. \A i \in Indices("receipt", d) : OnRecord("receipt", "deletion_receipt", d)
        BY <2>0 DEF Indices, Written, Range, Attested, OnRecord
      <4> QED
        BY <2>2, <4>1
    <3> QED
      BY <3>1, <3>2 DEF LedgerState, Incomplete
  <2> QED
    BY <2>0, <2>1, <2>2 DEF RemovalRecorded, RemovalInv
<1> QED
  BY <1>1, Invariant, PTL
\* Nothing is persisted or removed once there is an event or a target has lost its call.
LEMMA Silent ==
    ASSUME IInv, events # <<>> \/ (bare # None /\ lock = None), [RestrictionNext]_vars
    PROVE  UNCHANGED <<ledger, bare>> /\ (name = "present" => name' = "present")
<1>0. /\ TypeOK /\ KnowsInv /\ OrderInv /\ \A c \in Callers : Knows(c) /\ c # None
  BY BoundsAssumption DEF IInv, KnowsInv, LedgerInv
<1>1. \A c \in Callers : job[c].step \in {"receipt", "sync", "target"} => lock # None /\ events = <<>>
  BY <1>0 DEF Knows, Locked
<1>2. \A c, r, then : ~(Puts(c, r, then) /\ r.at = clock)
  BY <1>0, NothingRevoked DEF Puts, Prepared
<1>3. \A f, k, s : Record(f, k, s).at = clock
  BY RecordIs
<1>4. \A c, f, k, s, then : ~Puts(c, Record(f, k, s), then)
  BY <1>2, <1>3
<1>5. ASSUME NEW c \in Callers, Calls(c)
      PROVE  UNCHANGED <<ledger, bare, name>>
  <2>1. ~SubmitControl(c) /\ ~SubmitCorrection(c)
    <3>1. \A r, then : ~(Puttable(r) /\ Puts(c, r, then))
      BY <1>0 DEF Puttable, Puts, Prepared
    <3> QED
      BY <1>0, <3>1, SubmitPuts, CorrectionPuts
  <2> QED
    BY <1>5, <2>1 DEF Calls, CallRevoke, CallShutdown, CallDelete, ledgerVars, world
<1>6. ASSUME NEW c \in Callers, Works(c)
      PROVE  UNCHANGED <<ledger, bare, name>>
  <2>1. ~PersistReceipt(c) /\ ~PersistTarget(c) /\ ~Sync(c)
    BY <1>1 DEF PersistReceipt, PersistTarget, Sync
  <2>2. ~RequestTermination(c)
    <3> DEFINE r == Record("access", "descriptor_termination_requested", "descriptor")
    <3>1. ASSUME RequestTermination(c)
          PROVE  Prepared(r) /\ r.at = clock /\ job[c].step = "shutting"
      BY <1>3, <3>1 DEF RequestTermination, AtHand
    <3> HIDE DEF r
    <3>2. ASSUME RequestTermination(c)
          PROVE  events = <<>> /\ bare = None
      BY <1>0, <3>1, <3>2, NothingRevoked DEF Prepared
    <3> QED
      BY <3>2
  <2>3. ~Unlink(c)
    <3> DEFINE r(e) == [Execution("unlink_attempted", job[c].deletion) EXCEPT !.effective = e]
    <3>1. ASSUME NEW e, RemoveName(c, e)
          PROVE  Prepared(r(e)) /\ r(e).at = clock
      BY <3>1 DEF RemoveName, Execution, Record
    <3> HIDE DEF r
    <3>2. ASSUME NEW e, RemoveName(c, e)
          PROVE  events = <<>> /\ bare = None
      BY <1>0, <3>1, <3>2, NothingRevoked DEF Prepared
    <3> QED
      BY <3>2 DEF Unlink
  <2>4. ~Verify(c) /\ ~AppendReceipt(c)
    BY <1>4 DEF Verify, AppendReceipt, Execution
  <2>5. CASE StartExecution(c) \/ AppendInventory(c)
    <3>1. UNCHANGED <<ledgerVars, lock, world, faults>>
      BY <1>4, <2>5 DEF StartExecution, AppendInventory, AppendOrReplay, Execution
    <3> QED
      BY <3>1 DEF ledgerVars, world
  <2>6. CASE ReplayAccess(c) \/ Inspect(c) \/ TakeDestructiveLock(c) \/ CheckReceipt(c) \/ GiveUp(c) \/ Revoke(c)
    BY <2>6 DEF ReplayAccess, Inspect, TakeDestructiveLock, CheckReceipt, GiveUp, Revoke, ledgerVars, world
  <2>7. CASE RevokeCapability(c) \/ TerminateReceiver(c)
    BY <2>7 DEF RevokeCapability, TerminateReceiver, Effect, ledgerVars
  <2> QED
    BY <1>6, <2>1, <2>2, <2>3, <2>4, <2>5, <2>6, <2>7 DEF Works
<1>7. ASSUME NEW c \in Callers, Fail(c)
      PROVE  UNCHANGED <<ledger, bare, name>>
  BY <1>7 DEF Fail, ledgerVars, world
<1>8. CASE PowerLoss
  BY <1>8 DEF PowerLoss, ledgerVars
<1>9. CASE Tick \/ UNCHANGED vars
  BY <1>9 DEF Tick, vars, ledgerVars, world
<1> QED
  BY <1>5, <1>6, <1>7, <1>8, <1>9 DEF RestrictionNext

\* From the first revocation on, and after a call lost its receipt, no call in flight
\* persists or removes anything (authority.mjs, ledger.mjs).
THEOREM RevocationSilences == RestrictionSpec => SilentAfterRevocation
<1>1. IInv /\ [RestrictionNext]_vars =>
         [events # <<>> \/ (bare # None /\ lock = None) =>
            UNCHANGED <<ledger, bare>> /\ (name = "present" => name' = "present")]_vars
  BY Silent
<1> QED
  BY <1>1, Invariant, PTL DEF RestrictionSpec, SilentAfterRevocation
\* What a projection as of a time that is not past counts: the last record of a
\* stream, unless it is a withdrawal.
LEMMA LastCounts ==
    ASSUME TypeOK, OrderInv, NEW s \in AnyDeletion, NEW streams, s \in streams, NEW kinds,
           Indices("control", s) # {}, Leaf("control", s) \in kinds,
           Leaf("control", s) # "control_withdrawn", NEW asOf \in Nat, asOf >= HeadAt
    PROVE  /\ Max(Indices("control", s)) \in Active(asOf, streams, kinds)
           /\ \A i \in Active(asOf, streams, kinds) :
                ledger[i].stream = s =>
                  Max(SameStream(i, Active(asOf, streams, kinds))) = Max(Indices("control", s))
<1> DEFINE m == Max(Indices("control", s))
           A == Active(asOf, streams, kinds)
<1>0. s \in Streams /\ "control" \in Formats /\ Indices("control", s) \subseteq 1 .. Len(ledger)
      /\ Len(ledger) \in Nat /\ DOMAIN ledger = 1 .. Len(ledger)
  BY StreamsAre, IndicesAre DEF AnyDeletion, TypeOK
<1>1. /\ m \in Indices("control", s) /\ (\A i \in Indices("control", s) : m >= i)
      /\ Leaf("control", s) = ledger[m].means
  BY <1>0, LastRecord
<1>2. m \in DOMAIN ledger /\ ledger[m].format = "control" /\ ledger[m].stream = s
  BY <1>1 DEF Indices
<1> HIDE DEF m
<1>3. ledger[m].kind # "control_withdrawn"
  BY <1>1, <1>2 DEF OrderInv, Sound
<1>4. ledger[m].effective <= asOf
  <2>1. ledger[m] \in LedgerRecord
    BY <1>2 DEF TypeOK
  <2>2. ledger[m].effective \in Nat /\ ledger[m].at \in Nat /\ HeadAt \in Nat
    BY <2>1, HeadIsLast DEF LedgerRecord
  <2>3. ledger[m].effective <= ledger[m].at /\ ledger[m].at <= HeadAt
    BY <1>2, HeadIsLast DEF OrderInv, Sound
  <2> QED
    BY <2>2, <2>3
<1>5. m \notin Superseded
  <2>1. ASSUME NEW k \in DOMAIN ledger, ledger[k].corrects = m
        PROVE  FALSE
    <3>1. m # 0 /\ m \in Int /\ k \in Int
      BY <1>0, <1>2
    <3>2. m \in 1 .. (k - 1) /\ ledger[k].format = "control" /\ ledger[k].stream = s
      BY <1>2, <2>1, <3>1 DEF OrderInv, Sound
    <3>3. k \in Indices("control", s)
      BY <2>1, <3>2 DEF Indices
    <3> QED
      BY <1>1, <3>1, <3>2, <3>3
  <2> QED
    BY <2>1 DEF Superseded
<1>6. m \in A
  BY <1>1, <1>2, <1>3, <1>4, <1>5 DEF Active
<1>7. ASSUME NEW i \in A, ledger[i].stream = s
      PROVE  Max(SameStream(i, A)) = m
  <2>1. SameStream(i, A) \subseteq Indices("control", s)
    BY <1>7 DEF SameStream, Active, Indices
  <2>2. m \in SameStream(i, A)
    BY <1>2, <1>6, <1>7 DEF SameStream
  <2>3. \A j \in SameStream(i, A) : m >= j
    BY <1>1, <2>1
  <2>4. SameStream(i, A) \in SUBSET Int
    BY <1>0, <2>1
  <2> HIDE DEF A
  <2> QED
    BY <2>2, <2>3, <2>4, MaxIs
<1> QED
  BY <1>6, <1>7 DEF m

\* No hold is active at the head or later: none is open.
LEMMA NoHoldIsOpen ==
    ASSUME TypeOK, OrderInv, NEW asOf \in Nat, asOf >= HeadAt, ~ActiveHold(asOf)
    PROVE  ~OpenHold
<1> SUFFICES ASSUME NEW h \in Holds, Leaf("control", h) = "hold_imposed" PROVE FALSE
  BY DEF OpenHold
<1> DEFINE kinds == {"hold_imposed", ReleaseOf["hold_imposed"]}
           A == Active(asOf, AnyDeletion, kinds)
           m == Max(Indices("control", h))
<1>1. h \in AnyDeletion /\ h \in Streams /\ "control" \in Formats
  BY StreamsAre DEF AnyDeletion
<1>2. Indices("control", h) # {}
  BY <1>1, LeafIsMet
<1>3. ledger[m].means = "hold_imposed" /\ ledger[m].stream = h
  BY <1>1, <1>2, LastRecord DEF Indices
<1>4. "hold_imposed" \in kinds
  OBVIOUS
<1> HIDE DEF kinds
<1>5. m \in A /\ \A i \in A : ledger[i].stream = h => Max(SameStream(i, A)) = m
  BY <1>1, <1>2, <1>4, LastCounts
<1> HIDE DEF m
<1>6. m \in Leaves(A)
  BY <1>3, <1>5 DEF Leaves
<1> QED
  BY <1>3, <1>6 DEF ActiveHold, AnyActive, kinds

\* An active authorization and a tombstone: the tombstone has not been revoked.
LEMMA TombstoneStands ==
    ASSUME TypeOK, LedgerInv, NEW asOf \in Nat, asOf >= HeadAt, NEW d \in Deletions,
           Tombstoned(asOf, {d}), AuthorizationActive(asOf, {d})
    PROVE  Grounds(d)
<1> DEFINE revoked == "deletion_authorization_revoked"
           kinds == {"deletion_authorized", "deletion_authorization_revoked", "deletion_denied"}
           A == Active(asOf, {d}, kinds)
           m == Max(Indices("control", d))
<1>1. OrderInv /\ d \in AnyDeletion /\ d \in Streams /\ "control" \in Formats
  BY StreamsAre DEF AnyDeletion, LedgerInv
<1>2. PICK t \in Indices("control", d) : ledger[t].means = "tombstone_applied"
  <2>1. PICK t : t \in Active(asOf, {d}, {"tombstone_applied"})
    BY DEF Tombstoned, Latest, Leaves
  <2> QED
    BY <2>1 DEF Active, Indices
<1>3. Leaf("control", d) \in {"tombstone_applied", revoked}
  BY <1>1, <1>2 DEF LedgerInv, TombstoneInv
<1>4. ASSUME Leaf("control", d) = revoked
      PROVE  FALSE
  <2>1. revoked \in kinds
    OBVIOUS
  <2>2. PICK i \in Latest(A) : ledger[i].means = "deletion_authorized"
    BY DEF AuthorizationActive
  <2>3. i \in A /\ i = Max(SameStream(i, A))
    BY <2>2 DEF Latest, Leaves
  <2>4. ledger[i].stream = d
    BY <2>3 DEF Active
  <2> HIDE DEF kinds
  <2>5. i = m
    BY <1>1, <1>2, <1>4, <2>1, <2>3, <2>4, LastCounts
  <2>6. ledger[m].means = revoked
    BY <1>1, <1>2, <1>4, LastRecord
  <2> HIDE DEF m
  <2> QED
    BY <2>2, <2>5, <2>6
<1> QED
  BY <1>3, <1>4 DEF Grounds

\* Access that is shut down on record is off.
LEMMA AccessIsOff ==
    ASSUME TypeOK, OrderInv, AttestedInv, AccessShutdown
    PROVE  ~capability /\ ~receiver
<1>1. ASSUME NEW s \in {"capability", "descriptor"}, NEW k, Leaf("access", s) = k, k # "none"
      PROVE  \E r \in Written : r.format = "access" /\ r.kind = k
  <2> DEFINE m == Max(Indices("access", s))
  <2>1. m \in Indices("access", s) /\ ledger[m].means = k
    BY <1>1, StreamsAre, LeafIsMet, LastRecord
  <2> HIDE DEF m
  <2>2. m \in DOMAIN ledger /\ ledger[m].format = "access" /\ ledger[m].kind = k
    BY <2>1 DEF Indices, OrderInv, Sound
  <2>3. ledger[m] \in Written
    BY <2>2, RestrictionAssumption DEF Written, Range, TypeOK
  <2> QED
    BY <2>2, <2>3
<1>2. \E r \in Written : r.format = "access" /\ r.kind = "capability_revoked"
  BY <1>1 DEF AccessShutdown
<1>3. \E r \in Written : r.format = "access" /\ r.kind = "descriptor_termination_confirmed"
  BY <1>1 DEF AccessShutdown
<1> QED
  BY <1>2, <1>3 DEF AttestedInv, Attested

\* The turn in which the name is removed.
LEMMA UnlinkAllowed ==
    ASSUME IInv, NEW c \in Callers, Unlink(c)
    PROVE  /\ ~OpenHold /\ events = <<>> /\ ~capability /\ ~receiver
           /\ lock = c /\ Grounds(job[c].deletion)
<1>0. /\ TypeOK /\ KnowsInv /\ Knows(c) /\ LedgerInv /\ OrderInv /\ AttestedInv
  BY DEF IInv, KnowsInv, LedgerInv
<1>1. PICK d \in Deletions : d = job[c].deletion
  BY <1>0 DEF Knows, Unlink, RemoveName, Deleting
<1>2. PICK effective \in HeadAt .. (HeadAt + Window) :
         Eligible(effective, {d}) /\ RemoveName(c, effective)
  BY <1>1 DEF Unlink
<1>3. effective \in Nat /\ effective >= HeadAt
  BY <1>0, HeadIsLast, RestrictionAssumption
<1>4. /\ Tombstoned(effective, {d}) /\ AuthorizationActive(effective, {d})
      /\ AccessShutdown /\ ~ActiveHold(effective)
  BY <1>2 DEF Eligible
<1>5. ~OpenHold /\ Grounds(d)
  BY <1>0, <1>3, <1>4, NoHoldIsOpen, TombstoneStands
<1>6. ~capability /\ ~receiver
  BY <1>0, <1>4, AccessIsOff
<1>7. lock = c
  BY <1>0, <1>2 DEF RemoveName, Knows, Locked
<1>8. events = <<>>
  <2> DEFINE r == [Execution("unlink_attempted", d) EXCEPT !.effective = effective]
  <2>1. Prepared(r) /\ r.at = clock
    BY <1>1, <1>2 DEF RemoveName, Execution, Record
  <2> HIDE DEF r
  <2> QED
    BY <1>0, <2>1, NothingRevoked
<1> QED
  BY <1>1, <1>5, <1>6, <1>7, <1>8

\* The name is removed by that turn only.
LEMMA RemovalAllowed ==
    ASSUME IInv, [RestrictionNext]_vars, name = "present", name' = "unlinked"
    PROVE  /\ ~OpenHold /\ events = <<>> /\ ~capability /\ ~receiver
           /\ \E c \in Callers : lock = c /\ Grounds(job[c].deletion)
<1>1. ASSUME NEW c \in Callers, Works(c)
      PROVE  Unlink(c)
  BY <1>1 DEF Works, PersistReceipt, ReplayAccess, RevokeCapability, RequestTermination, TerminateReceiver,
     PersistTarget, StartExecution, Inspect, AppendInventory, AppendOrReplay, TakeDestructiveLock, Sync,
     Verify, CheckReceipt, AppendReceipt, Revoke, GiveUp, Puts, world
<1>2. ASSUME NEW c \in Callers, Calls(c) \/ Fail(c)
      PROVE  FALSE
  BY <1>2 DEF Calls, SubmitControl, SubmitCorrection, Submit, CallRevoke, CallShutdown, CallDelete, Fail,
     Puts, world
<1>3. ~PowerLoss /\ ~Tick /\ ~(UNCHANGED vars)
  BY DEF PowerLoss, Tick, vars, world
<1> QED
  BY <1>1, <1>2, <1>3, UnlinkAllowed DEF RestrictionNext

\* The primary name is removed only while no hold is open in any stream, the
\* tombstone of the operation stands, nothing is revoked, and the capability and
\* the receiver are off (operations.mjs).
THEOREM RemovalsAreAllowed == RestrictionSpec => RemovedOnlyWhenAllowed
<1>1. IInv /\ [RestrictionNext]_vars =>
         [name = "present" /\ name' = "unlinked" =>
            /\ ~OpenHold /\ events = <<>> /\ ~capability /\ ~receiver
            /\ \E c \in Callers : lock = c /\ Grounds(job[c].deletion)]_vars
  BY RemovalAllowed
<1> QED
  BY <1>1, Invariant, PTL DEF RestrictionSpec, RemovedOnlyWhenAllowed
=============================================================================

---- MODULE EvidenceTables ----
(***************************************************************************)
(* The evidence tables of the Atlas database (migration 005): the rows, the *)
(* insert triggers that guard each table, and the order in which the fixed *)
(* writer fills the tables (src/d9/data-plane/plan.mjs).                    *)
(*                                                                         *)
(* A bundle's rows are [table |-> set of records].  A row is named by its   *)
(* code <<seq, n>>: its bundle's sequence and its place in the manifest.    *)
(* An artifact is named by its content.  A run that produced something has  *)
(* one output, which shares its code.  Locations, principals, digests and   *)
(* HTTP fields are abstracted; times are small integers.                    *)
(***************************************************************************)
EXTENDS Integers, FiniteSets, Sequences, Relation, SequencesExt

CONSTANTS
  Bodies,       \* artifacts of the byte layer retrieved_body
  Derived,      \* artifacts of the byte layer derived_output
  None

Artifacts == Bodies \cup Derived

ASSUME EvidenceAssumption == Bodies \cap Derived = {} /\ None \notin Artifacts \cup (Nat \X Nat)

\* PLAN_TABLES, without receipts, locations and redirects.
PlanTables == <<"artifacts", "events", "custody", "runs", "outputs", "candidates">>
Tables == Range(PlanTables)
NoRows == [t \in Tables |-> {}]
Merge(a, b) == [t \in Tables |-> a[t] \cup b[t]]

Code(r) == <<r.seq, r.n>>
Earlier(r, s) == r.seq < s.seq \/ (r.seq = s.seq /\ r.n < s.n)
Available == {"placed", "relocated", "restored"}
Makes(method) == IF method = "content_decoding" THEN {"decoded_body"}
                 ELSE {"extracted_text", "diagnostic"}

(* The triggers.  db holds the rows already inserted; b is the receipt of the   *)
(* transaction, [seq, created], inserted before every other row.                *)
InsertReceipt(receipts, b) ==
  /\ b.seq = Cardinality(receipts) + 1
  /\ \A p \in receipts : p.seq = b.seq - 1 => p.created <= b.created

InsertArtifact(db, b, r) ==
  /\ r.recorded <= b.created
  /\ \A a \in db.artifacts : a.art # r.art

InsertEvent(db, b, r) ==
  /\ r.started <= r.completed /\ r.recorded <= b.created
  /\ r.artifact # None =>
       \E a \in db.artifacts : a.art = r.artifact /\ a.art \in Bodies /\ a.recorded <= r.recorded
  /\ r.basis # None => \E e \in db.events :
       Code(e) = r.basis /\ e.outcome = "retrieved_retained" /\ e.completed < r.started
  /\ (r.artifact # None) <=> (r.outcome = "retrieved_retained")
  /\ r.outcome = "not_modified" => r.basis # None

Succession(p, r) ==
  \/ r.kind = "restored" /\ p.kind \in {"restricted", "quarantined", "tombstoned"}
  \/ /\ p.kind # "tombstoned"
     /\ \/ r.kind = "relocated" /\ p.kind \in Available /\ r.backend # p.backend
        \/ r.kind \in {"restricted", "quarantined", "tombstoned"}

InsertCustody(db, b, r) ==
  /\ r.occurred <= r.recorded /\ r.recorded <= b.created
  /\ \E a \in db.artifacts : a.art = r.art /\ a.recorded <= r.recorded
  /\ (r.kind = "placed") <=> (r.pred = None)
  /\ IF r.pred = None
     THEN \A c \in db.custody : c.pred = None => <<c.art, c.copy>> # <<r.art, r.copy>>
     ELSE \E p \in db.custody :
            /\ Code(p) = r.pred /\ p.art = r.art /\ p.copy = r.copy
            /\ p.recorded < r.recorded /\ p.occurred <= r.occurred
            /\ \A s \in db.custody : s.pred # r.pred
            /\ Succession(p, r)

InsertRun(db, b, r) ==
  LET heldAt(c) == c.art = r.input /\ c.seq <= b.seq /\ c.occurred <= r.started
  IN /\ r.n = Cardinality({q \in db.runs : q.seq = b.seq}) + 1
     /\ r.started <= r.recorded /\ r.recorded <= b.created
     /\ \E a \in db.artifacts : a.art = r.input /\ a.recorded <= r.started
     /\ r.method = "content_decoding" => r.input \in Bodies
     /\ \E c \in db.custody :
          /\ heldAt(c) /\ c.kind \in Available
          /\ ~\E s \in db.custody : s.pred = Code(c) /\ heldAt(s)
     /\ IF r.input \in Bodies
        THEN \E e \in db.events : e.artifact = r.input /\ e.completed <= r.started
        ELSE \E o \in db.outputs : o.art = r.input /\ Earlier(o, r)

\* The artifacts reached from a along the inserted runs and outputs.
Flow(runs, outputs) ==
  [e \in Artifacts \X Artifacts |->
     \E q \in runs, o \in outputs : Code(o) = Code(q) /\ q.input = e[1] /\ o.art = e[2]]
Reaches(runs, outputs, a, z) ==
  ReflexiveTransitiveClosure(Flow(runs, outputs), Artifacts)[<<a, z>>]

InsertOutput(db, b, r) ==
  \E q \in db.runs, a \in db.artifacts :
    /\ Code(q) = Code(r) /\ a.art = r.art
    /\ q.outcome = "succeeded" /\ r.kind \in Makes(q.method)
    /\ ~Reaches(db.runs, db.outputs, r.art, q.input)
    /\ r.art \in Derived /\ a.recorded <= q.recorded
    /\ q.started <= r.produced /\ r.produced <= q.recorded
    /\ \/ a.seq < b.seq \/ r.produced <= a.recorded
       \/ \E o \in db.outputs : o.art = r.art /\ Earlier(o, r)

InsertCandidate(db, b, r) ==
  /\ r.recorded <= b.created
  /\ \E o \in db.outputs, q \in db.runs :
       /\ Code(o) = r.run /\ Code(q) = r.run /\ o.kind # "diagnostic"
       /\ q.outcome = "succeeded" /\ q.recorded <= r.recorded
  /\ IF r.pred = None
     THEN \A c \in db.candidates : c.pred = None => c.chain # r.chain
     ELSE \E p \in db.candidates :
            /\ Code(p) = r.pred /\ p.chain = r.chain /\ p.recorded < r.recorded
            /\ \A s \in db.candidates : s.pred # r.pred

Insert(t, db, b, r) ==
  CASE t = "artifacts" -> InsertArtifact(db, b, r)
    [] t = "events" -> InsertEvent(db, b, r)
    [] t = "custody" -> InsertCustody(db, b, r)
    [] t = "runs" -> InsertRun(db, b, r)
    [] t = "outputs" -> InsertOutput(db, b, r)
    [] t = "candidates" -> InsertCandidate(db, b, r)

\* The rows of one table enter in manifest order, each against those before it.
InsertsAll(t, db, b, rows) ==
  \A r \in rows : Insert(t, [db EXCEPT ![t] = @ \cup {q \in rows : q.n < r.n}], b, r)
====

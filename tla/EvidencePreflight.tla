---- MODULE EvidencePreflight ----
(***************************************************************************)
(* The semantic preflight of one evidence bundle, which must refuse before  *)
(* any transaction whatever the tables would refuse                         *)
(* (src/d9/data-plane/preflight.mjs).                                       *)
(*                                                                         *)
(* ctx holds what earlier bundles left: their rows and receipts.  m is the  *)
(* manifest: seq, created, required (the bundles it pins) and rows.  A check *)
(* of row r reads the rows of m that come before r.                         *)
(***************************************************************************)
EXTENDS EvidenceTables

\* Mutant: the receipts of earlier bundles, with the rows of every bundle.
ContextOfAllRows(accepted, before) ==
  [receipts |-> {[seq |-> k, created |-> accepted[k].created] :
                   k \in {k \in DOMAIN accepted : k < before}},
   rows |-> [t \in Tables |-> UNION {accepted[k].rows[t] : k \in DOMAIN accepted}]]
ContextOf(accepted, before) ==
  LET prior == {k \in DOMAIN accepted : k < before}
  IN [receipts |-> {[seq |-> k, created |-> accepted[k].created] : k \in prior},
      rows |-> [t \in Tables |-> UNION {accepted[k].rows[t] : k \in prior}]]

\* What the maps of the preflight hold when it has read the manifest down to r.
Seen(ctx, m) == Merge(ctx.rows, m.rows)
Before(ctx, m, ts, r) ==
  Merge(ctx.rows, [t \in Tables |-> IF t \in ts THEN {q \in m.rows[t] : q.n < r.n} ELSE m.rows[t]])

Pinned(m, seq) == seq = m.seq \/ seq \in m.required

HeaderOk(ctx, m) ==
  /\ m.required \subseteq {p.seq : p \in ctx.receipts}
  /\ m.seq = Cardinality(ctx.receipts) + 1
  /\ \A p \in ctx.receipts : p.seq = m.seq - 1 => p.seq \in m.required /\ p.created <= m.created

ArtifactOk(ctx, m, r) ==
  /\ r.recorded <= m.created
  /\ \A a \in Before(ctx, m, {"artifacts"}, r).artifacts : a.art # r.art

EventOk(ctx, m, r) ==
  LET seen == Before(ctx, m, {"events"}, r)
  IN /\ r.started <= r.completed /\ r.completed <= r.recorded /\ r.recorded <= m.created
     /\ r.artifact # None => \E a \in seen.artifacts :
          a.art = r.artifact /\ Pinned(m, a.seq) /\ a.recorded <= r.recorded
     /\ r.basis # None => \E e \in seen.events :
          /\ Code(e) = r.basis /\ e.outcome = "retrieved_retained"
          /\ e.completed < r.started /\ Pinned(m, e.seq)
     /\ IF r.outcome = "retrieved_retained" THEN r.artifact \in Bodies ELSE r.artifact = None
     /\ r.outcome = "not_modified" => r.basis # None

\* Mutant: a copy may be relocated to the backend that holds it.
RelocatesFreely(p, r) ==
  IF p.kind = "tombstoned" THEN r.kind = "restored"
  ELSE IF r.kind = "restored" THEN p.kind \in {"restricted", "quarantined"}
  ELSE IF r.kind = "relocated" THEN p.kind \in Available
  ELSE r.kind \in {"restricted", "quarantined", "tombstoned"}
SuccessorOk(p, r) ==
  IF p.kind = "tombstoned" THEN r.kind = "restored"
  ELSE IF r.kind = "restored" THEN p.kind \in {"restricted", "quarantined"}
  ELSE IF r.kind = "relocated" THEN p.kind \in Available /\ p.backend # r.backend
  ELSE r.kind \in {"restricted", "quarantined", "tombstoned"}

CustodyOk(ctx, m, r) ==
  LET seen == Before(ctx, m, {"custody"}, r)
  IN /\ r.occurred <= r.recorded /\ r.recorded <= m.created
     /\ \E a \in seen.artifacts : a.art = r.art /\ Pinned(m, a.seq) /\ a.recorded <= r.recorded
     /\ IF r.kind = "placed"
        THEN /\ r.pred = None
             /\ ~\E c \in seen.custody : c.pred = None /\ c.art = r.art /\ c.copy = r.copy
        ELSE \E p \in seen.custody :
               /\ Code(p) = r.pred /\ Pinned(m, p.seq) /\ p.art = r.art /\ p.copy = r.copy
               /\ p.recorded < r.recorded /\ p.occurred <= r.occurred
               /\ ~\E s \in seen.custody : s.pred = r.pred
               /\ SuccessorOk(p, r)

\* The leaves of an artifact's custody as of a time, as known through a bundle.
CustodyAt(custody, art, asOf, through) ==
  LET known == {c \in custody : c.art = art /\ c.seq <= through /\ c.occurred <= asOf}
  IN {c \in known : ~\E s \in known : s.pred = Code(c)}
AvailableAt(custody, art, at, through) ==
  \E c \in CustodyAt(custody, art, at, through) : c.kind \in Available
HeldFor(custody, art, at, through) ==
  \/ AvailableAt(custody, art, at, through)
  \/ \E c \in custody : c.art = art /\ c.seq <= through /\ c.occurred >= at /\ c.kind \in Available

\* Every new artifact is placed by the bundle that introduces it, a new body was
\* retrieved by it, and what was retrieved is held.
PlacedOk(m) == \A a \in m.rows.artifacts :
  \E c \in m.rows.custody : c.art = a.art /\ c.kind = "placed"
OriginOk(m) == \A a \in m.rows.artifacts : a.art \in Bodies =>
  \E e \in m.rows.events : e.artifact = a.art /\ e.completed <= a.recorded
RetrievalsHeld(ctx, m) == \A e \in m.rows.events : e.artifact # None =>
  HeldFor(Seen(ctx, m).custody, e.artifact, e.completed, m.seq)
CustodyComplete(ctx, m) == PlacedOk(m) /\ OriginOk(m) /\ RetrievalsHeld(ctx, m)

\* The runs in the order of bundle and ordinal.
InOrder(runs) ==
  [i \in 1..Cardinality(runs) |->
     CHOOSE q \in runs : Cardinality({p \in runs : Earlier(p, q)}) = i - 1]

\* Bodies that were retained, and then, run by run in order, what a run on grounded
\* input produced.
GroundedIn(events, runs, outputs) ==
  LET step(known, q) ==
        IF q.input \in known THEN known \cup {o.art : o \in {o \in outputs : Code(o) = Code(q)}}
        ELSE known
  IN FoldLeft(step, {e.artifact : e \in events} \ {None}, InOrder(runs))

\* The runs of earlier bundles are checked again before the manifest's own are read.
\* That none closes a loop is checked again too: their acceptance (RunOutputsOk) had the
\* same edges before it, and rows do not change.
LineageStands(ctx, m) == \A q \in ctx.rows.runs :
  q.input \in GroundedIn(Seen(ctx, m).events, {p \in ctx.rows.runs : Earlier(p, q)}, ctx.rows.outputs)

RunOk(ctx, m, r) ==
  LET seen == Before(ctx, m, {"runs", "outputs"}, r)
  IN /\ r.input \in GroundedIn(seen.events, seen.runs, seen.outputs)
     /\ \E a \in seen.artifacts : a.art = r.input /\ Pinned(m, a.seq) /\ a.recorded <= r.started
     /\ r.started <= r.recorded /\ r.recorded <= m.created
     /\ AvailableAt(seen.custody, r.input, r.started, m.seq)
     /\ r.method = "content_decoding" => r.input \in Bodies

\* o is what run r says it produced.
OutputOk(ctx, m, r, o) ==
  LET seen == Before(ctx, m, {"runs", "outputs"}, r)
  IN /\ r.outcome = "succeeded" /\ o.art \in Derived /\ o.kind \in Makes(r.method)
     /\ ~Reaches(seen.runs, seen.outputs, o.art, r.input)
     /\ r.started <= o.produced /\ o.produced <= r.recorded
     /\ \E a \in seen.artifacts :
          /\ a.art = o.art /\ Pinned(m, a.seq) /\ a.recorded <= r.recorded
          /\ a.seq = m.seq /\ ~(\E p \in seen.outputs : p.art = o.art) => o.produced <= a.recorded
     /\ HeldFor(seen.custody, o.art, o.produced, m.seq)

RunOutputsOk(ctx, m, r) ==
  LET made == {o \in m.rows.outputs : o.n = r.n}
  IN /\ \A o \in made : OutputOk(ctx, m, r, o)
     /\ r.method = "content_decoding" /\ r.outcome = "succeeded" => made # {}

\* Mutant: new derived artifacts are looked for only in a manifest with runs.
GroundedIfRun(ctx, m) ==
  LET seen == Seen(ctx, m)
  IN m.rows.runs # {} =>
       \A a \in m.rows.artifacts :
         a.art \in Derived => a.art \in GroundedIn(seen.events, seen.runs, seen.outputs)
DerivedGrounded(ctx, m) ==
  LET seen == Seen(ctx, m)
  IN \A a \in m.rows.artifacts : a.art \in Derived => a.art \in GroundedIn(seen.events, seen.runs, seen.outputs)

CandidateOk(ctx, m, r) ==
  LET seen == Before(ctx, m, {"candidates"}, r)
  IN /\ r.recorded <= m.created
     /\ \E q \in seen.runs, o \in seen.outputs :
          /\ Code(q) = r.run /\ Code(o) = r.run /\ o.kind # "diagnostic"
          /\ Pinned(m, q.seq) /\ q.recorded <= r.recorded
     /\ IF r.pred = None THEN ~\E c \in seen.candidates : c.pred = None /\ c.chain = r.chain
        ELSE \E p \in seen.candidates :
               /\ Code(p) = r.pred /\ Pinned(m, p.seq) /\ p.chain = r.chain
               /\ p.recorded < r.recorded
               /\ ~\E c \in seen.candidates : c.pred = r.pred

\* The bundles whose rows m refers to, by each reference the preflight follows.
Used(ctx, m) ==
  LET art(x) == {a.seq : a \in {a \in ctx.rows.artifacts : a.art = x}}
      code(c) == IF c = None THEN {} ELSE {c[1]}
      R == m.rows
  IN UNION ({art(e.artifact) \cup code(e.basis) : e \in R.events}
       \cup {art(c.art) \cup code(c.pred) : c \in R.custody}
       \cup {art(q.input) : q \in R.runs} \cup {art(o.art) : o \in R.outputs}
       \cup {code(c.run) \cup code(c.pred) : c \in R.candidates}) \ {m.seq}

DependenciesUsed(ctx, m) == m.required \subseteq Used(ctx, m) \cup {m.seq - 1}

PreflightAccepts(ctx, m) ==
  /\ HeaderOk(ctx, m)
  /\ \A r \in m.rows.artifacts : ArtifactOk(ctx, m, r)
  /\ \A r \in m.rows.events : EventOk(ctx, m, r)
  /\ \A r \in m.rows.custody : CustodyOk(ctx, m, r)
  /\ CustodyComplete(ctx, m) /\ LineageStands(ctx, m)
  /\ \A r \in m.rows.runs : RunOk(ctx, m, r) /\ RunOutputsOk(ctx, m, r)
  /\ DerivedGrounded(ctx, m)
  /\ \A r \in m.rows.candidates : CandidateOk(ctx, m, r)
  /\ DependenciesUsed(ctx, m)
====

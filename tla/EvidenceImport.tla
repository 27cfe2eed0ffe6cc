---- MODULE EvidenceImport ----
(***************************************************************************)
(* The import of evidence bundles: a manifest is read and checked by the   *)
(* semantic preflight, planned, and written by the fixed writer into a     *)
(* disposable candidate in one transaction; the candidate, once verified,  *)
(* is the source of the next import (src/d9/data-plane/coordinator.mjs,    *)
(* preflight.mjs, plan.mjs, writer-worker.mjs, verifier.mjs).              *)
(*                                                                         *)
(* A manifest is chosen row by row when the preflight's loops reach the     *)
(* row: they read it in order and look back only, except for the checks     *)
(* made when a list has been read.  The bootstrap bundle, which holds only  *)
(* principals, is accepted before the model starts: its bundle k is the     *)
(* code's sequence k + 1, and the pin to the bootstrap is left out.         *)
(***************************************************************************)
EXTENDS EvidencePreflight

CONSTANT Scenarios  \* bounds: the families of histories to explore, each a record of
  \*   rows     how many rows of each list bundle k may hold, rows[k][list]
  \*   artifacts, copies, backends, chains, kinds   the values its rows may carry
  \*   created, times   creation times of bundles; times, or tuples of times, by list

ASSUME ScenarioAssumption ==
  \A s \in Scenarios :
    /\ s.artifacts \subseteq Artifacts /\ s.created \subseteq Nat
    /\ s.times.artifacts \subseteq Nat /\ s.times.candidates \subseteq Nat
    /\ s.times.events \subseteq Nat \X Nat \X Nat
    /\ s.times.custody \subseteq Nat \X Nat /\ s.times.runs \subseteq Nat \X Nat

Outcomes == {"refused", "rejected", "failed", "verified", "drift", "unavailable", "no_op"}

ASSUME OutcomeAssumption == None \notin Outcomes

VARIABLES
  scenario,    \* which of them this history belongs to
  accepted,    \* the accepted bundles: [created, required, rows]
  manifest,    \* the manifest being imported, or None
  phase,       \* "idle", the list being read, "writing", "verifying"
  inserted,    \* how many of PlanTables the transaction has filled
  outcome      \* how the last call ended

importVars == <<scenario, accepted, manifest, phase, inserted, outcome>>

Reading == <<"artifacts", "events", "custody", "runs", "candidates">>
Context == ContextOf(accepted, Len(accepted) + 1)
Size(t) == Cardinality(manifest.rows[t])
Bound(t) == scenario.rows[manifest.seq][t]
With(t, r) == [manifest EXCEPT !.rows[t] = @ \cup {r}]
CodesOf(t) == {Code(r) : r \in Seen(Context, manifest)[t]} \cup {None}

ImportInit ==
  /\ scenario \in Scenarios
  /\ accepted = <<>> /\ manifest = None /\ phase = "idle" /\ inserted = 0 /\ outcome = None

CallEnds(result) ==
  /\ manifest' = None /\ phase' = "idle" /\ inserted' = 0 /\ outcome' = result

\* A call with a manifest whose bundle code and digest are not accepted yet.
ReadHeader(created, required) ==
  LET m == [seq |-> Len(accepted) + 1, created |-> created, required |-> required, rows |-> NoRows]
  IN /\ phase = "idle" /\ Len(accepted) < Len(scenario.rows)
     /\ HeaderOk(Context, m)
     /\ manifest' = m /\ phase' = Reading[1] /\ outcome' = None
     /\ UNCHANGED <<accepted, inserted>>

\* The rows a manifest may hold next, whether the preflight accepts them or not.
ArtifactRows ==
  [seq : {manifest.seq}, n : {Size("artifacts") + 1},
   art : scenario.artifacts, recorded : scenario.times.artifacts]
EventRows ==
  {[seq |-> manifest.seq, n |-> Size("events") + 1, started |-> w[1], completed |-> w[2],
    recorded |-> w[3], outcome |-> o, artifact |-> a, basis |-> b] :
     w \in scenario.times.events, o \in {"retrieved_retained", "not_modified", "network_failed"},
     a \in (scenario.artifacts \cap Bodies) \cup {None}, b \in CodesOf("events")}
CustodyRows ==
  {[seq |-> manifest.seq, n |-> Size("custody") + 1, occurred |-> w[1], recorded |-> w[2],
    art |-> a, copy |-> c, kind |-> k, pred |-> p, backend |-> b] :
     w \in scenario.times.custody, a \in scenario.artifacts, c \in scenario.copies,
     k \in scenario.kinds, p \in CodesOf("custody"), b \in scenario.backends}
RunRows ==
  {[seq |-> manifest.seq, n |-> Size("runs") + 1, started |-> w[1], recorded |-> w[2],
    input |-> a, method |-> m, outcome |-> o] :
     w \in scenario.times.runs, a \in scenario.artifacts, m \in {"content_decoding", "parser"},
     o \in {"succeeded", "failed"}}
OutputRows ==
  [seq : {manifest.seq}, n : {Size("runs") + 1}, art : scenario.artifacts \cap Derived,
   kind : {"decoded_body", "extracted_text", "diagnostic"},
   produced : UNION {{w[1], w[2]} : w \in scenario.times.runs}]
CandidateRows ==
  [seq : {manifest.seq}, n : {Size("candidates") + 1}, chain : scenario.chains,
   pred : CodesOf("candidates"), run : CodesOf("runs") \ {None}, recorded : scenario.times.candidates]

Read(t, Rows, Ok(_, _, _)) ==
  /\ phase = t /\ Size(t) < Bound(t)
  /\ \E r \in Rows : Ok(Context, With(t, r), r) /\ manifest' = With(t, r)
  /\ UNCHANGED <<accepted, phase, inserted, outcome>>

ReadArtifact == Read("artifacts", ArtifactRows, ArtifactOk)
ReadEvent == Read("events", EventRows, EventOk)
ReadCustody == Read("custody", CustodyRows, CustodyOk)
ReadCandidate == Read("candidates", CandidateRows, CandidateOk)

WithRun(r, made) ==
  [manifest EXCEPT !.rows.runs = @ \cup {r}, !.rows.outputs = @ \cup made]
ReadRun ==
  /\ phase = "runs" /\ Size("runs") < Bound("runs")
  /\ \E r \in RunRows :
       /\ RunOk(Context, WithRun(r, {}), r)
       /\ \E made \in {{}} \cup {{o} : o \in OutputRows} :
            /\ RunOutputsOk(Context, WithRun(r, made), r)
            /\ manifest' = WithRun(r, made)
  /\ UNCHANGED <<accepted, phase, inserted, outcome>>

\* What is checked when a list has been read.
ListOk(t) ==
  CASE t = "custody" -> CustodyComplete(Context, manifest) /\ LineageStands(Context, manifest)
    [] t = "runs" -> DerivedGrounded(Context, manifest)
    [] t = "candidates" -> DependenciesUsed(Context, manifest)
    [] OTHER -> TRUE

NextList == \E i \in 1..(Len(Reading) - 1) :
  /\ phase = Reading[i] /\ ListOk(phase)
  /\ phase' = Reading[i + 1]
  /\ UNCHANGED <<accepted, manifest, inserted, outcome>>

\* The next row of the manifest, or the list just read, fails its check: the call ends
\* before any transaction.
Refuse == phase \in Range(Reading) /\ CallEnds("refused") /\ UNCHANGED accepted

\* The plan is the manifest's rows; the worker begins its transaction on the clone.
Plan ==
  /\ phase = "candidates" /\ ListOk(phase)
  /\ IF InsertReceipt(Context.receipts, manifest)
     THEN /\ phase' = "writing" /\ UNCHANGED <<accepted, manifest, inserted, outcome>>
     ELSE CallEnds("rejected") /\ UNCHANGED accepted

\* The rows the transaction sees.
Database == Merge(Context.rows,
  [t \in Tables |-> IF \E i \in 1..inserted : PlanTables[i] = t THEN manifest.rows[t] ELSE {}])

WriteTable ==
  /\ phase = "writing" /\ inserted < Len(PlanTables)
  /\ LET t == PlanTables[inserted + 1]
     IN IF InsertsAll(t, Database, manifest, manifest.rows[t])
        THEN /\ inserted' = inserted + 1
             /\ UNCHANGED <<accepted, manifest, phase, outcome>>
        ELSE CallEnds("rejected") /\ UNCHANGED accepted

Commit ==
  /\ phase = "writing" /\ inserted = Len(PlanTables)
  /\ phase' = "verifying" /\ UNCHANGED <<accepted, manifest, inserted, outcome>>

\* The worker is killed or exceeds its time limit: the candidate is disposed of.
WorkerDies == phase = "writing" /\ CallEnds("failed") /\ UNCHANGED accepted

\* Verification: each bundle up to through is checked again against the bundles before
\* it, and every current copy among their rows is opened, unless it is tombstoned.
Bundle(b, seq) == [seq |-> seq, created |-> b.created, required |-> b.required, rows |-> b.rows]
Replay(bundles, k) == PreflightAccepts(ContextOf(bundles, k), Bundle(bundles[k], k))
Openable(custody) == \A c \in custody :
  c.kind \in Available \cup {"tombstoned"} \/ \E s \in custody : s.pred = Code(c)
Verification(bundles, through, good) ==
  IF \E k \in 1..through : ~Replay(bundles, k) THEN "drift"
  ELSE IF ~Openable(ContextOf(bundles, through + 1).rows.custody) THEN "unavailable"
  ELSE good

\* The candidate is kept only if all of it verifies, the earlier bundles too.
Candidate == Append(accepted, [created |-> manifest.created, required |-> manifest.required,
                               rows |-> manifest.rows])
Conclude ==
  /\ phase = "verifying"
  /\ LET verdict == Verification(Candidate, Len(Candidate), "verified")
     IN /\ accepted' = IF verdict = "verified" THEN Candidate ELSE accepted
        /\ CallEnds(verdict)

\* A call with an accepted manifest.
Verify(k) ==
  /\ phase = "idle" /\ CallEnds(Verification(accepted, k, "no_op")) /\ UNCHANGED accepted

ImportNext == UNCHANGED scenario /\
  \/ \E created \in scenario.created, required \in SUBSET DOMAIN accepted : ReadHeader(created, required)
  \/ ReadArtifact \/ ReadEvent \/ ReadCustody \/ ReadRun \/ ReadCandidate
  \/ NextList \/ Refuse \/ Plan \/ WriteTable \/ Commit \/ WorkerDies \/ Conclude
  \/ \E k \in DOMAIN accepted : Verify(k)

ImportSpec == ImportInit /\ [][ImportNext]_importVars
====

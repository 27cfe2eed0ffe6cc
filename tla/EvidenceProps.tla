---- MODULE EvidenceProps ----
(***************************************************************************)
(* What the import of evidence bundles promises.                            *)
(***************************************************************************)
EXTENDS EvidenceImport

\* A run of the manifest consumes what only another run of the same manifest made.
Chained == \E q \in manifest.rows.runs :
  q.input \in Derived /\ \A o \in Context.rows.outputs : o.art # q.input

\* preflight.mjs against the triggers of migration 005: two statements of one set of
\* rules.  Whatever rows earlier bundles left and whatever order a manifest lists its
\* own in, the writer's transaction refuses nothing the preflight accepted, but for a
\* run chained to another run of the same manifest (README, section 6).
AcceptedIsWritten == [][outcome # "rejected" /\ outcome' = "rejected" => Chained]_importVars

\* verifier.mjs: a bundle once written passes the preflight again, against the bundles
\* before it, whatever later bundles have done to the same artifacts and chains: so no
\* bundle is refused for what an earlier one holds, and no accepted one turns to drift.
ReplayAccepts == outcome # "drift"

Evidence == Context.rows

\* preflight.mjs: every derived artifact on record was produced by a run, and every run
\* worked on a body retained before it started, or on what a run before it in bundle and
\* ordinal produced: so no lineage is circular, whichever bundles hold its links.
LineageGrounded ==
  /\ \A a \in Evidence.artifacts : a.art \in Derived =>
       \E o \in Evidence.outputs : o.art = a.art
  /\ \A q \in Evidence.runs :
       IF q.input \in Bodies
       THEN \E e \in Evidence.events :
              e.artifact = q.input /\ e.seq <= q.seq /\ e.completed <= q.started
       ELSE \E o \in Evidence.outputs : o.art = q.input /\ Earlier(o, q)
====

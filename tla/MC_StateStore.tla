--------------------------- MODULE MC_StateStore ---------------------------
(***************************************************************************)
(* Instances of StateStore for TLC.                                        *)
(***************************************************************************)
EXTENDS StateStoreProps, TLC

CONSTANTS p1, p2, o1

TwoProcs == {p1, p2}
OneOp == {o1}

Symmetry == Permutations(TwoProcs)

\* Kills may precede every step of the publish recovery but those between a
\* link or a rename and its fsync, which a resumed recovery does not repeat ...
DurableSteps == PublishRecoveryPcs \ {"r.linksync", "r.headsync"}

\* ... or but those inside the removal of append.lock and inside the
\* replacement of HEAD, which leave what a retry does not recognize.
ResumableSteps == PublishRecoveryPcs \ {"r.rmdir", "r.rename"}

Kills == {"kill"}
KillsAndErrors == {"kill", "ioerror"}
AllFaults == {"kill", "ioerror", "power"}
=============================================================================

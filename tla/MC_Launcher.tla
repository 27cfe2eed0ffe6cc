---- MODULE MC_Launcher ----
(* An instance of Launcher for TLC. *)
EXTENDS LauncherProps, TLC

CONSTANTS o1, o2, n1, n2

OneWindow == {[wait |-> 0, lasts |-> 4]}

\* Random ids never meet those of a record.
Drawn == {[op |-> o2, nonce |-> n2]}
Named == {[op |-> o1, nonce |-> n1]}
====

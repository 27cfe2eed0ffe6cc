----------------------------- MODULE DurableLog -----------------------------
(***************************************************************************)
(* What the protected control store promises its callers: a log that grows *)
(* one entry at a time, never changes an entry, and never gives up one     *)
(* whose append has returned.  A power loss may drop entries nobody was    *)
(* told about, from the end.                                               *)
(***************************************************************************)
EXTENDS Naturals, Sequences

CONSTANTS Entry,   \* what can be appended
          Lossy    \* power losses can happen

VARIABLES log,     \* the entries, oldest first
          known    \* how many of them a caller has been told about

vars == <<log, known>>

TypeOK == log \in Seq(Entry) /\ known \in 0 .. Len(log)

Init == log = <<>> /\ known = 0

AppendEntry ==
    /\ Len(log') = Len(log) + 1
    /\ log'[Len(log')] \in Entry
    /\ SubSeq(log', 1, Len(log)) = log
    /\ known' = known

\* Learning of an entry implies learning of its predecessors.
Acknowledge ==
    /\ known' \in known .. Len(log)
    /\ log' = log

Lose ==
    /\ Lossy
    /\ \E n \in known .. Len(log) : log' = SubSeq(log, 1, n)
    /\ known' = known

Next == AppendEntry \/ Acknowledge \/ Lose

Spec == Init /\ [][Next]_vars
=============================================================================

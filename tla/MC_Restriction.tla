---- MODULE MC_Restriction ----
(* Instances of Restriction for TLC. *)
EXTENDS RestrictionProps

ShutdownsMC ==
  {<<"capability_revoked", "descriptor_termination_requested", "descriptor_termination_confirmed">>}

CONSTANTS c1, c2, h1, d1, t1
====

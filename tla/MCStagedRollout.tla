--------------------------- MODULE MCStagedRollout ---------------------------
(* Targets of one architecture: one canary, and the others; the leader may *)
(* be among them.                                                          *)
EXTENDS StagedRollout

CONSTANTS a, b, l, c

OneArch == [n \in Targets |-> "linux"]
=============================================================================

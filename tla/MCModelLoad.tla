----------------------------- MODULE MCModelLoad -----------------------------
(* One host for TLC: the names of its ports, libraries, tokens and         *)
(* incarnations.                                                           *)
EXTENDS ModelLoad

CONSTANTS p1, l1, l2, c1, c2, i1, i2, i3, i4
=============================================================================

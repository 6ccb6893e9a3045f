--------------------------- MODULE MCWorkItemLease ---------------------------
(***************************************************************************)
(* Instances of WorkItemLease for TLC: one slot per host, ceilings of two  *)
(* attempts instead of five.                                               *)
(***************************************************************************)
EXTENDS WorkItemLease, TLC

CONSTANTS i1, i2, h1, s1

OneHost  == s1 :> h1
NoBlock  == [i \in Items |-> {}]
ItemSymmetry == Permutations({i1, i2})
I2AfterI1 == i1 :> {} @@ i2 :> {i1}
=============================================================================

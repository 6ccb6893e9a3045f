--------------------------- MODULE MCDeferredQueue ---------------------------
(***************************************************************************)
(* Instances of DeferredQueue for TLC.  Times are scaled down to a few     *)
(* units in the order they have in the code: the claim's 2 minutes, the    *)
(* backoff of 5, 25, 125 and 240 minutes, the 2 hours of the cap and of    *)
(* the recovery loops.                                                     *)
(***************************************************************************)
EXTENDS DeferredQueue, TLC

CONSTANTS w1, w2, t1, t2

\* t1: the backup fan-out, pinned to a node and staggered; t2: an operator's
\* task that any node may run.
FanOut   == t1 :> "node_online" @@ t2 :> "immediate"
OnFirst  == [t \in Tasks |-> w1]
HomeW1   == t1 :> w1 @@ t2 :> None
AtOne    == [t \in Tasks |-> 1]
Staggers == t1 :> {0, 1} @@ t2 :> {0}
Two      == [t \in Tasks |-> 2]
OneThenTwo == t1 :> 1 @@ t2 :> 2
OneSlot  == [w \in Workers |-> 1]
Backoff  == [n \in 1 .. MaxPower |-> IF n = 1 THEN 1 ELSE 2]
=============================================================================

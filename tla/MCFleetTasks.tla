---------------------------- MODULE MCFleetTasks ----------------------------
(* A wave of one target x beside a review that any computer may run.       *)
EXTENDS FleetTasks

CONSTANTS x, y, p, b, r, v

MCKind ==
  [t \in Tasks |-> CASE t = p -> "compound" [] t = b -> "build" [] t = r -> "restart" [] OTHER -> "review"]
MCEligible == [t \in Tasks |-> Computers]
MCExcludes == [t \in Tasks |-> IF t \in {b, r} THEN {x} ELSE {}]
MCSoftware == [t \in Wave |-> x]
MCParent == [t \in Tasks |-> IF t \in {b, r} THEN p ELSE None]
MCDependsOn == [t \in Tasks |-> IF t = r THEN b ELSE None]
=============================================================================

-------------------------- MODULE MCLeaderElection --------------------------
(* Small fleets for TLC.  n1 is the most preferred candidate.              *)
EXTENDS LeaderElection

CONSTANTS n1, n2, n3

MCRank == [n \in Nodes |-> CASE n = n1 -> 1 [] n = n2 -> 2 [] OTHER -> 3]
MCNoSkew == [n \in Nodes |-> 0]
MCFastClock == [n \in Nodes |-> IF n = n2 THEN 1 ELSE 0]
MCAllCommands == Nodes \X OptNode
MCHandovers == {<<n1, None>>, <<n1, n2>>}
MCWait == [n \in Nodes |-> 1]
=============================================================================

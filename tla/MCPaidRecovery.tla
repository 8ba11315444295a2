--------------------------- MODULE MCPaidRecovery ---------------------------
(* Backends, runs and World Labs nodes are alike. *)
EXTENDS PaidRecovery, TLC

MCEveryId == Id
MCOperations == Start \X {"op"}
Alike == Permutations(Proc) \cup Permutations(Run) \cup Permutations(Node)
=============================================================================

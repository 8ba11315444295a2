-------------------------- MODULE MCExecutionRuns --------------------------
(* Backends that share the Stop journal; a paid run and a free one. *)
EXTENDS ExecutionRuns, TLC

CONSTANTS paid, free, p1, p2

SentTwice == {<<p1, paid>>}

Backends == Permutations(Proc)
=============================================================================

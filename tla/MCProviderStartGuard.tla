------------------------ MODULE MCProviderStartGuard ------------------------
(* Two backends, two runs, two nodes of one paid kind and one of the other. *)
EXTENDS ProviderStartGuard, TLC

CONSTANTS p1, p2, r1, r2, env1, env2, exp1, environment, export

MCKindOf == [k \in Key |-> IF k = exp1 THEN export ELSE environment]
\* Compacting r2 sets every bit of r1, a false positive of the filter.
MCHashBits == (r1 :> {1}) @@ (r2 :> {1, 2})
Backends == Permutations(Proc) \cup Permutations(Key \ {exp1})
=============================================================================

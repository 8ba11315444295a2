----------------------------- MODULE MCApprovals -----------------------------
(* Two nodes and a wire; a proposal that sets the upper node, wires it and    *)
(* runs the lower one, and a proposal that sets and runs the lower one.       *)
EXTENDS Approvals, TLC

CONSTANTS up, down, v, w, first, second, one, two

MCWire == {<<up, down>>}
MCOffers == {
  [params |-> up :> w, edges |-> MCWire, run |-> {down}],
  [params |-> down :> w, edges |-> {}, run |-> {down}]}
MCCanvases == {[value |-> [n \in Node |-> v], wires |-> {}]}
Interchangeable == Permutations(Proposal) \cup Permutations(Tab)
=============================================================================

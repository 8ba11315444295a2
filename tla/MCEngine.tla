------------------------------ MODULE MCEngine ------------------------------
(* Small graphs with the joins that are hard: a gate above or below a       *)
(* fan-out, both branches of one gate, an outer context beside its items,   *)
(* two edges between two nodes, and one that no run may have.               *)
EXTENDS Engine

CONSTANTS list, gate, each, left, join, pass, fail

\* A graph of edges that leave by pass, and of edges that leave the gate by fail.
Of(order, passing, failing) ==
  [order |-> order,
   edges |-> {<<e[1], pass, e[2]>> : e \in passing} \cup {<<gate, fail, n>> : n \in failing}]

MCGraphs == {
  Of(<<list, gate, left, join>>, {<<list, gate>>, <<gate, left>>, <<left, join>>}, {join}),
  Of(<<list, gate, each, join>>, {<<list, gate>>, <<list, each>>, <<gate, join>>, <<each, join>>}, {}),
  Of(<<gate, each, left, join>>, {<<gate, each>>, <<each, left>>, <<left, join>>, <<gate, join>>}, {}),
  Of(<<list, each, join>>, {<<list, each>>, <<each, join>>, <<list, join>>}, {}),
  Of(<<list, each, gate, left>>, {<<list, each>>, <<each, gate>>, <<gate, left>>, <<list, left>>}, {}),
  Of(<<gate, left, join>>, {<<gate, join>>, <<left, join>>}, {join}),
  Of(<<list, gate, left, each, join>>,
     {<<list, join>>, <<gate, left>>, <<left, join>>, <<left, each>>}, {each}),
  Of(<<list, gate, each, join>>, {<<list, join>>, <<gate, each>>, <<each, join>>}, {})}
=============================================================================

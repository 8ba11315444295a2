------------------------------- MODULE Engine -------------------------------
(***************************************************************************)
(* One run of a graph (execution/engine.py, _execute_graph): nodes start   *)
(* when every edge into them has delivered, a few at a time; a batch or an *)
(* iterator fans its items out, and every node below runs once per item; a *)
(* gate withholds ports and what is below a withheld port is skipped; one  *)
(* failed node holds its descendants back; a Stop cancels the nodes that   *)
(* are in flight, waits for them and writes the manifest.                  *)
(*                                                                         *)
(* A value on an edge is abstracted to the item context it belongs to and  *)
(* to the ports withheld with it. A replay from the cache delivers what a  *)
(* handler delivered before, so it is one of the answers of Answer.        *)
(***************************************************************************)
EXTENDS Integers, Sequences, FiniteSets, SequencesExt

CONSTANTS
  Node,         \* nodes
  Batch,        \* nodes that fan out their own items
  Iterator,     \* nodes that fan out an array they receive
  Gate,         \* nodes with conditional ports
  Port,         \* the output ports
  Graphs,       \* what may be submitted: the nodes in topological order, and
                \* edges <<source, port, target>>
  Cap,          \* batch_size_cap
  MaxItems,     \* bound: items of one array
  Concurrency,  \* max_parallel_nodes
  MaxStops      \* bound: Stops of the run

FanOut == Batch \cup Iterator

ASSUME GraphAssumption ==
  /\ Batch \cap Iterator = {} /\ Gate \cap FanOut = {} /\ FanOut \cup Gate \subseteq Node
  /\ \A g \in Graphs :
       /\ g.order \in Seq(Node) /\ IsInjective(g.order) /\ IsFiniteSet(g.edges)
       /\ \A e \in g.edges : /\ e[2] \in Port /\ e[3] \notin Batch
                             /\ \E i, j \in DOMAIN g.order :
                                  i < j /\ e[1] = g.order[i] /\ e[3] = g.order[j]
ASSUME BoundAssumption == {Cap, Concurrency} \subseteq Nat \ {0} /\ {MaxItems, MaxStops} \subseteq Nat

VARIABLES
  graph,      \* the submitted graph
  ready,      \* nodes whose edges have all delivered, in order
  remaining,  \* edges of a node that have not delivered yet
  task,       \* run_node's task of a node
  todo,       \* contexts a node still has to run in
  now,        \* the context whose handler is running, in a set
  outputs,    \* of each node: the ports withheld, by context
  skipped,    \* of each node: the contexts it was skipped in
  done,       \* tasks of the last wait whose result is not read yet
  read,       \* tasks whose result was read
  phase,      \* of the run
  cut,        \* whether a Stop interrupted the cleanup
  stops,      \* Stops so far
  manifest    \* outputs the run's manifest lists

queue == <<graph, ready, remaining>>
nodes == <<task, todo, now, outputs, skipped>>
vars  == <<queue, nodes, done, read, phase, cut, stops, manifest>>

Alive == {"made", "planning", "busy", "cancelled"}
Over  == {"ok", "failed", "raised", "gone"}
Ended == {"complete", "stopped", "broken"}

edges == graph.edges

Parents(E, n) == {e[1] : e \in {d \in E : d[3] = n}}

\* Every node above n: those in every set that holds n's parents and the parents of its members.
Above(E, n) ==
  {m \in Node : \A S \in SUBSET Node :
     Parents(E, n) \subseteq S /\ (\A k \in S : Parents(E, k) \subseteq S) => m \in S}

\* The fan-out nodes above n, as _iterator_validation_errors collects them.
Axes(E, n) == Above(E, n) \cap FanOut

\* No node takes items of two fan-outs of which neither is above the other.
Joinable(E) ==
  \A n \in Node : \A l, r \in Axes(E, n) : l = r \/ l \in Axes(E, r) \/ r \in Axes(E, l)

EdgesInto(E, n) == Cardinality({e \in E : e[3] = n})
Recorded == UNION {{n} \X DOMAIN outputs[n] : n \in Node}

\* The nodes of S, in topological order.
Sorted(S) ==
  LET before(m, n) == \E i, j \in DOMAIN graph.order : i < j /\ m = graph.order[i] /\ n = graph.order[j]
  IN {s \in [1..Cardinality(S) -> S] : ToSet(s) = S /\ \A i, j \in DOMAIN s : i < j => before(s[i], s[j])}

TypeOK ==
  /\ graph \in Graphs
  /\ ToSet(ready) \subseteq Node /\ Len(ready) = Cardinality(ToSet(ready))
  /\ \A n \in Node :
       /\ remaining[n] \in 0..EdgesInto(edges, n)
       /\ task[n] \in Alive \cup Over \cup {"none"}
       /\ Cardinality(now[n]) <= 1 /\ now[n] \cap todo[n] = {}
       /\ (todo[n] \cup now[n]) \cap (DOMAIN outputs[n] \cup skipped[n]) = {}
       /\ DOMAIN outputs[n] \cap skipped[n] = {}
       /\ \A c \in DOMAIN outputs[n] : outputs[n][c] \subseteq (IF n \in Gate THEN Port ELSE {})
  /\ \A n \in FanOut : Cardinality(DOMAIN outputs[n]) <= Cap
  /\ done \subseteq Node /\ read \subseteq Node /\ done \cap read = {}
  /\ phase \in {"loop", "stopping", "unwinding"} \cup Ended
  /\ cut \in BOOLEAN /\ stops \in 0..MaxStops /\ manifest \subseteq Recorded

Init ==
  /\ graph \in {g \in Graphs : Joinable(g.edges)}
  /\ remaining = [n \in Node |-> EdgesInto(edges, n)]
  /\ ready \in Sorted({n \in ToSet(graph.order) : EdgesInto(edges, n) = 0})
  /\ task = [n \in Node |-> "none"]
  /\ todo = [n \in Node |-> {}] /\ now = [n \in Node |-> {}]
  /\ outputs = [n \in Node |-> <<>>] /\ skipped = [n \in Node |-> {}]
  /\ done = {} /\ read = {} /\ phase = "loop" /\ cut = FALSE /\ stops = 0 /\ manifest = {}

-----------------------------------------------------------------------------
\* The contexts of a node that its children see: a skipped one counts.
Seen(m) == DOMAIN outputs[m] \cup skipped[m]

\* A mutant of Contexts: one parent that reaches a context is enough.
ContextsOfAny(n) ==
  LET all == UNION {Seen(m) : m \in Parents(edges, n)}
  IN IF Parents(edges, n) = {} THEN {<<>>} ELSE {c \in all : ~ \E d \in all : IsStrictPrefix(c, d)}

\* invocation_contexts: an outer context broadcasts to its items, siblings
\* join on the exact item.
Contexts(n) ==
  LET all == UNION {Seen(m) : m \in Parents(edges, n)}
      leaves == {c \in all : ~ \E d \in all : IsStrictPrefix(c, d)}
  IN IF Parents(edges, n) = {} THEN {<<>>}
     ELSE {c \in leaves : \A m \in Parents(edges, n) : \E k \in Seen(m) : IsPrefix(k, c)}

\* k is the context of m that a context c below it takes its value from.
Closest(k, m, c) ==
  k \in Seen(m) /\ IsPrefix(k, c) /\ \A j \in Seen(m) : IsPrefix(j, c) => Len(j) <= Len(k)

\* A mutant of HeldBack: what a skipped node leaves out is not asked for.
HeldBackByGate(n, c) ==
  \E e \in edges : e[3] = n /\ \E k \in DOMAIN outputs[e[1]] :
    Closest(k, e[1], c) /\ e[2] \in outputs[e[1]][k]

\* skip_cause: an edge into n comes from a skipped invocation or from a
\* withheld port.
HeldBack(n, c) ==
  \E e \in edges : e[3] = n /\ \E k \in Seen(e[1]) :
    Closest(k, e[1], c) /\ (k \in skipped[e[1]] \/ e[2] \in outputs[e[1]][k])

\* run_node up to its first handler: a node skipped in every context, or
\* with no context at all, is over.
Begin(n) ==
  LET all == Contexts(n)
      held == {c \in all : HeldBack(n, c)}
  IN
  /\ task[n] = "made"
  /\ skipped' = [skipped EXCEPT ![n] = held]
  /\ todo' = [todo EXCEPT ![n] = all \ held]
  /\ task' = [task EXCEPT ![n] =
       IF held = all /\ (all # {} \/ n \notin FanOut) THEN "ok"
       ELSE IF n \in FanOut THEN "planning" ELSE "busy"]
  /\ UNCHANGED <<queue, now, outputs, done, read, phase, cut, stops, manifest>>

\* A mutant of Fits: each array is held to the cap, the node is not.
FitsEach(n, items) == \A c \in todo[n] : Cardinality({i \in items : Front(i) = c}) <= Cap

\* len(planned) > cap fails the node before any item goes out.
Fits(n, items) == Cardinality(items) <= Cap

\* A batch or an iterator plans its items and records one output for each; an
\* iterator without an array fails.
Plan(n) ==
  /\ task[n] = "planning"
  /\ \/ \E count \in [todo[n] -> 0..MaxItems] :
          LET items == UNION {{Append(c, <<n, i>>) : i \in 1..count[c]} : c \in todo[n]}
          IN /\ \A c \in todo[n] : count[c] <= Cap
             /\ IF Fits(n, items)
                THEN /\ outputs' = [outputs EXCEPT ![n] = [c \in items |-> {}]]
                     /\ task' = [task EXCEPT ![n] = "ok"]
                ELSE /\ task' = [task EXCEPT ![n] = "failed"]
                     /\ UNCHANGED outputs
     \/ n \in Iterator /\ todo[n] # {} /\ task' = [task EXCEPT ![n] = "failed"] /\ UNCHANGED outputs
  /\ todo' = [todo EXCEPT ![n] = {}]
  /\ UNCHANGED <<queue, now, skipped, done, read, phase, cut, stops, manifest>>

\* run_invocation begins; the folder of an item may fail to be made, which
\* raises out of the task.
Call(n) ==
  /\ task[n] = "busy" /\ now[n] = {}
  /\ \E c \in todo[n] :
       /\ todo' = [todo EXCEPT ![n] = @ \ {c}]
       /\ \/ now' = [now EXCEPT ![n] = {c}] /\ UNCHANGED task
          \/ c # <<>> /\ task' = [task EXCEPT ![n] = "raised"] /\ UNCHANGED now
  /\ UNCHANGED <<queue, outputs, skipped, done, read, phase, cut, stops, manifest>>

\* The handler, or the cache, answers: outputs with some ports of a gate
\* withheld, or an error, which ends the node.
Answer(n) ==
  /\ task[n] = "busy" /\ now[n] # {}
  /\ now' = [now EXCEPT ![n] = {}]
  /\ \/ /\ \E held \in SUBSET (IF n \in Gate THEN Port ELSE {}) :
             outputs' = [outputs EXCEPT ![n] =
               [c \in DOMAIN @ \cup now[n] |-> IF c \in now[n] THEN held ELSE @[c]]]
        /\ task' = [task EXCEPT ![n] = IF todo[n] = {} THEN "ok" ELSE "busy"]
     \/ task' = [task EXCEPT ![n] = "failed"] /\ UNCHANGED outputs
  /\ UNCHANGED <<queue, todo, skipped, done, read, phase, cut, stops, manifest>>

-----------------------------------------------------------------------------
\* A mutant of Running: a task that was read is not popped.
RunningEver == {n \in Node : task[n] # "none"}

Running == {n \in Node : task[n] # "none"} \ read

\* The loop makes a task for the next ready node.
Launch ==
  /\ phase = "loop" /\ done = {} /\ ready # <<>> /\ Cardinality(Running) < Concurrency
  /\ task' = [task EXCEPT ![Head(ready)] = "made"]
  /\ ready' = Tail(ready)
  /\ UNCHANGED <<graph, remaining, todo, now, outputs, skipped, done, read, phase, cut, stops, manifest>>

\* asyncio.wait returns every task that is over.
Wait ==
  /\ phase = "loop" /\ done = {}
  /\ ready = <<>> \/ Cardinality(Running) >= Concurrency
  /\ done' = {n \in Running : task[n] \in Over}
  /\ done' # {}
  /\ UNCHANGED <<queue, nodes, read, phase, cut, stops, manifest>>

\* A mutant of Delivered: one edge of each pair of nodes counts.
DeliveredOnce(n) == [m \in Node |-> remaining[m] - (IF n \in Parents(edges, m) THEN 1 ELSE 0)]

\* Every edge out of n has delivered.
Delivered(n) == [m \in Node |-> remaining[m] - Cardinality({e \in edges : e[1] = n /\ e[3] = m})]

\* A mutant of Succeeded: a failed node delivers too.
SucceededOrNot(n) == task[n] \in {"ok", "failed"}

Succeeded(n) == task[n] = "ok"

\* The loop reads one result; the children of a node that succeeded become
\* ready in topological order.
Read(n) ==
  /\ phase = "loop" /\ n \in done /\ task[n] # "raised"
  /\ done' = done \ {n} /\ read' = read \cup {n}
  /\ IF Succeeded(n)
     THEN /\ remaining' = Delivered(n)
          /\ \E next \in Sorted({m \in ToSet(graph.order) : remaining[m] > 0 /\ remaining'[m] = 0}) :
               ready' = ready \o next
     ELSE UNCHANGED <<remaining, ready>>
  /\ UNCHANGED <<graph, nodes, phase, cut, stops, manifest>>

\* The finally of the run cancels every task that is not over.
Cancelled == [n \in Node |-> IF task[n] \in Alive THEN "cancelled" ELSE task[n]]

\* task.result() raises, or the Stop reaches the loop: the finally begins.
Unwind ==
  /\ \/ phase = "stopping"
     \/ phase = "loop" /\ \E n \in done : task[n] = "raised"
  /\ phase' = "unwinding" /\ task' = Cancelled
  /\ UNCHANGED <<queue, todo, now, outputs, skipped, done, read, cut, stops, manifest>>

\* A handler ran its cleanup.
Cleanup(n) ==
  /\ task[n] = "cancelled"
  /\ task' = [task EXCEPT ![n] = "gone"]
  /\ UNCHANGED <<queue, todo, now, outputs, skipped, done, read, phase, cut, stops, manifest>>

Written == Recorded

\* The manifest, after every task is over; a Stop that cancelled the gather
\* leaves before it.
Settle ==
  /\ phase = "unwinding" /\ \A n \in Node : task[n] \notin Alive
  /\ manifest' = IF cut THEN {} ELSE Written
  /\ phase' = IF stops > 0 THEN "stopped" ELSE "broken"
  /\ UNCHANGED <<queue, nodes, done, read, cut, stops>>

\* Nothing ready, nothing running: the manifest, then GraphComplete.
Complete ==
  /\ phase = "loop" /\ done = {} /\ ready = <<>> /\ Running = {}
  /\ manifest' = Written /\ phase' = "complete"
  /\ UNCHANGED <<queue, nodes, done, read, cut, stops>>

\* ExecutionRunRegistry.cancel, which cancels the run's task again when it is
\* "cancelling" already. The loop sees it at its next turn, so the nodes may
\* still take a step; in the finally it interrupts the gather.
Stop ==
  /\ stops < MaxStops /\ stops' = stops + 1
  /\ \/ phase = "loop" /\ phase' = "stopping" /\ UNCHANGED cut
     \/ /\ phase = "unwinding" /\ \E n \in Node : task[n] = "cancelled"
        /\ cut' = TRUE /\ UNCHANGED phase
  /\ UNCHANGED <<queue, nodes, done, read, manifest>>

-----------------------------------------------------------------------------
Loop == Launch \/ Wait \/ Unwind \/ Settle \/ Complete \/ \E n \in Node : Read(n)
Step(n) == Begin(n) \/ Plan(n) \/ Call(n) \/ Answer(n) \/ Cleanup(n)
Next == Loop \/ Stop \/ \E n \in Node : Step(n)

Spec == Init /\ [][Next]_vars

\* The event loop gives every task its turn, and a handler answers or fails:
\* its calls have timeouts.
LiveSpec == Spec /\ WF_vars(Loop) /\ \A n \in Node : WF_vars(Step(n))

-----------------------------------------------------------------------------
\* A node starts only when every node above it has succeeded; a failure
\* holds all of its descendants back, by any path and however many edges
\* join two nodes (remaining_dependencies).
StartsAfterParents ==
  \A n \in Node : task[n] # "none" => \A m \in Above(edges, n) : task[m] = "ok"

\* The fan-out that is nearest above n: the others are above it.
Nearest(n) == CHOOSE a \in Axes(edges, n) : Axes(edges, n) \ {a} \subseteq Axes(edges, a)
Items(n) == IF Axes(edges, n) = {} THEN {<<>>} ELSE Seen(Nearest(n))

\* A node that succeeded ran, or was skipped, once for every item of the
\* nearest fan-out above it, whatever else it joins: no item is lost and none
\* is multiplied ("Nebula will not implicitly multiply generation requests").
RunsOncePerItem ==
  \A n \in Node \ FanOut : task[n] = "ok" => Seen(n) = Items(n)

\* Something above n withheld the way to it, for this item.
ClosedAbove(n, c) ==
  LET ways == {e \in edges : e[3] \in Above(edges, n) \cup {n}}
  IN \E e \in ways : \E k \in DOMAIN outputs[e[1]] : e[2] \in outputs[e[1]][k] /\ IsPrefix(k, c)

\* A node is skipped for exactly the items for which some gate above it, near
\* or far, closed a port that leads to it (gating.py: "the same rule" for the
\* descendants of a skipped node).
SkippedExactly ==
  \A n \in Node : task[n] = "ok" =>
    /\ \A c \in skipped[n] : ClosedAbove(n, c)
    /\ \A c \in DOMAIN outputs[n] : ~ClosedAbove(n, c)

\* When GraphComplete goes out every node has succeeded, failed, or has a
\* failed node above it.
CompleteMeansAll ==
  phase = "complete" => \A n \in ToSet(graph.order) :
    \/ task[n] \in {"ok", "failed"}
    \/ task[n] = "none" /\ \E m \in Above(edges, n) : task[m] = "failed"

\* A run that ended has no node in flight, and its manifest lists all that was
\* recorded ("A failed or cancelled batch still owns every successful earlier
\* artifact"), unless a second Stop came while the first was cleaning up.
EndIsSettled ==
  phase \in Ended => /\ \A n \in Node : task[n] \notin Alive
                     /\ cut \/ manifest = Recorded

\* Manifest settlement "therefore also runs when cancellation unwinds this
\* task" (_execute_graph).
EndIsWritten == phase \in Ended => manifest = Recorded

\* Every run ends, whatever fails in it.
RunEnds == <>(phase \in Ended)
=============================================================================

---------------------------- MODULE EngineProofs ----------------------------
(***************************************************************************)
(* Proofs about Engine, for every graph, cap, width and number of Stops.   *)
(*                                                                         *)
(* The loop: Sched says that a node is owed one delivery for each edge     *)
(* whose source has not passed (Counted), that what is owed nothing is in  *)
(* the queue or was started (Queued), and what the loop knows of the tasks *)
(* (Reads). It is inductive, and StartsAfterParents and CompleteMeansAll   *)
(* follow from it.                                                         *)
(*                                                                         *)
(* The items: Works says what a node that began runs and skips, in terms   *)
(* of the contexts its parents left. Those are settled when it starts, so  *)
(* Works is inductive with Sched. SkippedExactly and RunsOncePerItem then  *)
(* follow for one state, down the graph: the first node for which one      *)
(* fails has only nodes above it for which it holds.                       *)
(***************************************************************************)
EXTENDS Engine, SequenceTheorems, FiniteSetTheorems, WellFoundedInduction, TLAPS

(* Contexts and their prefixes. *)

\* The contexts: the items, of which fan-outs, that a value belongs to.
Ctx == Seq(Node \X Nat)

\* Prefixes, item by item.
LEMMA PrefixFacts ==
  ASSUME NEW s \in Ctx, NEW t \in Ctx
  PROVE  IsPrefix(s, t) <=> Len(s) <= Len(t) /\ \A i \in 1..Len(s) : s[i] = t[i]
<1>1. Len(s) \in Nat /\ Len(t) \in Nat /\ DOMAIN s = 1..Len(s) /\ DOMAIN t = 1..Len(t)
  BY LenProperties DEF Ctx
<1>2. ASSUME Len(s) <= Len(t)
      PROVE  /\ SubSeq(s, 1, Len(s)) = [i \in 1..Len(s) |-> s[i]]
             /\ SubSeq(t, 1, Len(s)) = [i \in 1..Len(s) |-> t[i]]
  BY <1>1, <1>2
<1> QED BY <1>1, <1>2 DEF IsPrefix

\* "Prefix of" is an order, and the prefixes of one context are ordered by it.
LEMMA PrefixOrder ==
  ASSUME NEW s \in Ctx, NEW t \in Ctx, NEW u \in Ctx
  PROVE  /\ IsPrefix(s, s) /\ IsPrefix(<<>>, s) /\ <<>> \in Ctx
         /\ IsPrefix(s, t) /\ IsPrefix(t, u) => IsPrefix(s, u)
         /\ IsPrefix(s, t) /\ IsPrefix(t, s) => s = t
         /\ IsPrefix(s, u) /\ IsPrefix(t, u) => IsPrefix(s, t) \/ IsPrefix(t, s)
<1>1. Len(s) \in Nat /\ Len(t) \in Nat /\ Len(u) \in Nat
  BY LenProperties DEF Ctx
<1>2. <<>> \in Ctx /\ Len(<<>>) = 0
  BY EmptySeq DEF Ctx
<1>3. IsPrefix(s, s) /\ IsPrefix(<<>>, s)
  BY <1>1, <1>2, PrefixFacts
<1>4. ASSUME IsPrefix(s, t), IsPrefix(t, u) PROVE IsPrefix(s, u)
  BY <1>1, <1>4, PrefixFacts
<1>5. ASSUME IsPrefix(s, t), IsPrefix(t, s) PROVE s = t
  <2>1. Len(s) = Len(t) /\ \A i \in 1..Len(s) : s[i] = t[i]
    BY <1>1, <1>5, PrefixFacts
  <2> QED BY <2>1, SeqEqual DEF Ctx
<1>6. ASSUME IsPrefix(s, u), IsPrefix(t, u) PROVE IsPrefix(s, t) \/ IsPrefix(t, s)
  BY <1>1, <1>6, PrefixFacts
<1> QED BY <1>2, <1>3, <1>4, <1>5, <1>6

\* The prefixes of a context with one item more.
LEMMA PrefixOfItem ==
  ASSUME NEW s \in Ctx, NEW b \in Ctx, NEW x \in Node \X Nat
  PROVE  /\ Append(b, x) \in Ctx /\ IsPrefix(b, Append(b, x)) /\ b # Append(b, x)
         /\ IsPrefix(s, Append(b, x)) => s = Append(b, x) \/ IsPrefix(s, b)
<1>1. Len(s) \in Nat /\ Len(b) \in Nat
  BY LenProperties DEF Ctx
<1>2. /\ Append(b, x) \in Ctx /\ Len(Append(b, x)) = Len(b) + 1
      /\ \A i \in 1..Len(b) : Append(b, x)[i] = b[i]
  BY AppendProperties DEF Ctx
<1>3. IsPrefix(b, Append(b, x)) /\ b # Append(b, x)
  <2>1. Len(b) <= Len(Append(b, x)) /\ Len(b) # Len(Append(b, x))
    BY <1>1, <1>2
  <2>2. \A i \in 1..Len(b) : b[i] = Append(b, x)[i]
    BY <1>2
  <2>3. IsPrefix(b, Append(b, x)) <=>
          Len(b) <= Len(Append(b, x)) /\ \A i \in 1..Len(b) : b[i] = Append(b, x)[i]
    BY <1>2, PrefixFacts
  <2> QED BY <2>1, <2>2, <2>3
<1>4. ASSUME IsPrefix(s, Append(b, x)), s # Append(b, x) PROVE IsPrefix(s, b)
  <2>1. Len(s) <= Len(b) + 1 /\ \A i \in 1..Len(s) : s[i] = Append(b, x)[i]
    BY <1>2, <1>4, PrefixFacts
  <2>2. Len(s) # Len(b) + 1
    BY <1>2, <1>4, <2>1, SeqEqual DEF Ctx
  <2>3. Len(s) <= Len(b)
    BY <1>1, <2>1, <2>2
  <2> QED BY <1>1, <1>2, <2>1, <2>3, PrefixFacts
<1> QED BY <1>2, <1>3, <1>4

-----------------------------------------------------------------------------
(* The graph. *)

\* m is before n in the order of the graph.
Before(m, n) == \E i, j \in DOMAIN graph.order : i < j /\ m = graph.order[i] /\ n = graph.order[j]

\* What the assumption says of the submitted graph.
LEMMA GraphFacts ==
  ASSUME graph \in Graphs
  PROVE  /\ graph.order \in Seq(Node) /\ IsInjective(graph.order) /\ IsFiniteSet(edges)
         /\ DOMAIN graph.order \subseteq Nat
         /\ \A e \in edges : e[1] \in Node /\ e[3] \in Node /\ Before(e[1], e[3])
                             /\ e[2] \in Port /\ e[3] \notin Batch
<1>1. /\ graph.order \in Seq(Node) /\ IsInjective(graph.order) /\ IsFiniteSet(edges)
      /\ \A e \in edges : Before(e[1], e[3]) /\ e[2] \in Port /\ e[3] \notin Batch
  BY GraphAssumption DEF edges, Before
<1>2. DOMAIN graph.order = 1..Len(graph.order) /\ Len(graph.order) \in Nat
  BY <1>1, LenProperties
<1>3. \A e \in edges : e[1] \in Node /\ e[3] \in Node
  BY <1>1, <1>2, ElementOfSeq DEF Before
<1> QED BY <1>1, <1>2, <1>3

\* The order of the graph is one.
LEMMA BeforeFacts ==
  ASSUME graph \in Graphs
  PROVE  /\ \A m, n : Before(m, n) => m \in Node /\ n \in Node /\ m # n
         /\ \A l, m, n : Before(l, m) /\ Before(m, n) => Before(l, n)
<1>1. \A i, j \in DOMAIN graph.order : graph.order[i] = graph.order[j] => i = j
  BY GraphFacts DEF IsInjective
<1>2. /\ DOMAIN graph.order \subseteq Nat /\ \A i \in DOMAIN graph.order : graph.order[i] \in Node
  BY GraphFacts, LenProperties, ElementOfSeq
<1>3. ASSUME NEW m, NEW n, Before(m, n) PROVE m \in Node /\ n \in Node /\ m # n
  BY <1>1, <1>2, <1>3 DEF Before
<1>4. ASSUME NEW l, NEW m, NEW n, Before(l, m), Before(m, n) PROVE Before(l, n)
  <2>1. PICK i, j \in DOMAIN graph.order : i < j /\ l = graph.order[i] /\ m = graph.order[j]
    BY <1>4 DEF Before
  <2>2. PICK p, q \in DOMAIN graph.order : p < q /\ m = graph.order[p] /\ n = graph.order[q]
    BY <1>4 DEF Before
  <2>3. j = p /\ i < q
    <3>1. j = p
      BY <1>1, <2>1, <2>2
    <3>2. i \in Nat /\ p \in Nat /\ q \in Nat
      BY <1>2
    <3> QED BY <2>1, <2>2, <3>1, <3>2
  <2> QED BY <2>1, <2>2, <2>3 DEF Before
<1> QED BY <1>3, <1>4

\* Above a node are its parents, their parents and so on, and nothing else: what holds of
\* the parents, and goes up, holds of all.
LEMMA AboveFacts ==
  ASSUME graph \in Graphs, NEW n \in Node
  PROVE  /\ Parents(edges, n) \subseteq Above(edges, n) /\ Above(edges, n) \subseteq Node
         /\ \A m \in Above(edges, n) : Parents(edges, m) \subseteq Above(edges, n)
         /\ \A S \in SUBSET Node :
              Parents(edges, n) \subseteq S /\ (\A m \in S : Parents(edges, m) \subseteq S)
              => Above(edges, n) \subseteq S
<1>1. \A m \in Node : Parents(edges, m) \subseteq Node
  BY GraphFacts DEF Parents
<1>2. Parents(edges, n) \subseteq Above(edges, n)
  BY <1>1 DEF Above
<1>3. ASSUME NEW m \in Above(edges, n), NEW p \in Parents(edges, m) PROVE p \in Above(edges, n)
  <2>1. ASSUME NEW S \in SUBSET Node, Parents(edges, n) \subseteq S,
               \A k \in S : Parents(edges, k) \subseteq S
        PROVE  p \in S
    BY <1>3, <2>1 DEF Above
  <2>2. p \in Node
    BY <1>1, <1>3 DEF Above
  <2> QED BY <2>1, <2>2 DEF Above
<1> QED BY <1>2, <1>3 DEF Above

\* A node above n is before it; above a node above n is above n; and what is above n is a
\* parent of n or above one.
LEMMA AboveOrder ==
  ASSUME graph \in Graphs, NEW n \in Node
  PROVE  /\ \A m \in Above(edges, n) : Before(m, n) /\ Above(edges, m) \subseteq Above(edges, n)
         /\ \A m \in Above(edges, n) : \E p \in Parents(edges, n) : m = p \/ m \in Above(edges, p)
         /\ Parents(edges, n) = {} => Above(edges, n) = {}
<1>1. ASSUME NEW m \in Node, NEW p \in Parents(edges, m) PROVE p \in Node /\ Before(p, m)
  BY <1>1, GraphFacts DEF Parents
<1>2. ASSUME NEW m \in Above(edges, n) PROVE Before(m, n)
  <2> DEFINE S == {k \in Node : Before(k, n)}
  <2>1. Parents(edges, n) \subseteq S /\ \A k \in S : Parents(edges, k) \subseteq S
    BY <1>1, BeforeFacts
  <2>2. Above(edges, n) \subseteq S
    BY <2>1, AboveFacts
  <2> QED BY <2>2
<1>3. ASSUME NEW m \in Above(edges, n) PROVE Above(edges, m) \subseteq Above(edges, n)
  <2>1. m \in Node /\ Above(edges, n) \in SUBSET Node
    BY AboveFacts
  <2>2. /\ Parents(edges, m) \subseteq Above(edges, n)
        /\ \A k \in Above(edges, n) : Parents(edges, k) \subseteq Above(edges, n)
    BY AboveFacts
  <2> QED BY <2>1, <2>2, AboveFacts
<1>4. \A m \in Above(edges, n) : \E p \in Parents(edges, n) : m = p \/ m \in Above(edges, p)
  <2> DEFINE S == {m \in Node : \E p \in Parents(edges, n) : m = p \/ m \in Above(edges, p)}
  <2>1. Parents(edges, n) \subseteq S
    BY <1>1
  <2>2. ASSUME NEW m \in S, NEW k \in Parents(edges, m) PROVE k \in S
    <3>1. PICK p \in Parents(edges, n) : m = p \/ m \in Above(edges, p)
      OBVIOUS
    <3>2. p \in Node /\ k \in Node
      BY <1>1, <2>2
    <3>3. k \in Above(edges, p)
      BY <2>2, <3>1, <3>2, AboveFacts
    <3> QED BY <3>2, <3>3
  <2> HIDE DEF S
  <2>3. S \in SUBSET Node
    BY DEF S
  <2>4. Above(edges, n) \subseteq S
    BY <2>1, <2>2, <2>3, AboveFacts
  <2> QED BY <2>4 DEF S
<1>5. Parents(edges, n) = {} => Above(edges, n) = {}
  BY <1>4
<1> QED BY <1>2, <1>3, <1>4, <1>5

\* A set of naturals has a least one.
LEMMA LeastNatural ==
  ASSUME NEW T \in SUBSET Nat, T # {}
  PROVE  \E x \in T : \A y \in T : x <= y
<1> DEFINE R == {ss \in Nat \X Nat : ss[1] < ss[2]}
<1>1. IsWellFoundedOn(R, Nat)
  BY NatLessThanWellFounded DEF OpToRel
<1>2. \A x, y \in Nat : <<y, x>> \in R <=> y < x
  OBVIOUS
<1> HIDE DEF R
<1>3. PICK x \in T : \A y \in T : <<y, x>> \notin R
  BY <1>1, WFMin
<1>4. ASSUME NEW y \in T PROVE x <= y
  <2>1. x \in Nat /\ y \in Nat /\ ~(y < x)
    BY <1>2, <1>3
  <2> QED BY <2>1
<1> QED BY <1>4

\* Of some nodes of the graph, one is the first and one the last.
LEMMA Extremes ==
  ASSUME graph \in Graphs, NEW S, S # {}, S \subseteq ToSet(graph.order)
  PROVE  /\ \E m \in S : \A k \in S : ~Before(k, m)
         /\ \E m \in S : \A k \in S : k = m \/ Before(k, m)
<1> DEFINE o == graph.order
           N == Len(o)
<1>1. N \in Nat /\ DOMAIN o = 1..N /\ \A i, j \in 1..N : o[i] = o[j] => i = j
  BY GraphFacts, LenProperties DEF IsInjective
<1>2. \A k \in S : \E i \in 1..N : o[i] = k
  BY <1>1 DEF ToSet
<1>3. \E m \in S : \A k \in S : ~Before(k, m)
  <2> DEFINE T == {i \in 1..N : o[i] \in S}
  <2>1. T \in SUBSET Nat /\ T # {}
    BY <1>1, <1>2
  <2>2. PICK i \in T : \A j \in T : i <= j
    BY <2>1, LeastNatural
  <2>3. ASSUME NEW k \in S, Before(k, o[i]) PROVE FALSE
    <3>1. PICK p, q \in 1..N : p < q /\ k = o[p] /\ o[i] = o[q]
      BY <1>1, <2>3 DEF Before
    <3>2. p \in T /\ i = q /\ i \in 1..N
      BY <1>1, <2>3, <3>1
    <3>3. i <= p /\ i \in Nat /\ p \in Nat
      BY <1>1, <2>2, <3>2
    <3> QED BY <3>1, <3>2, <3>3
  <2> QED BY <2>3
<1>4. \E m \in S : \A k \in S : k = m \/ Before(k, m)
  <2> DEFINE P == {i \in 1..N : o[i] \in S}
             T == {N - i : i \in P}
  <2>1. T \in SUBSET Nat /\ T # {}
    <3>1. P # {}
      BY <1>2
    <3>2. \A i \in P : N - i \in Nat
      BY <1>1
    <3> QED BY <3>1, <3>2
  <2>2. PICK j \in T : \A h \in T : j <= h
    <3> HIDE DEF T
    <3> QED BY <2>1, LeastNatural
  <2>3. PICK i \in P : j = N - i
    BY <2>2
  <2>4. ASSUME NEW k \in S PROVE k = o[i] \/ Before(k, o[i])
    <3>1. PICK p \in 1..N : o[p] = k
      BY <1>2
    <3>2. p \in P
      BY <2>4, <3>1
    <3>3. N - i <= N - p
      <4>1. N - p \in T
        BY <3>2
      <4> QED BY <2>2, <2>3, <4>1
    <3>4. p = i \/ p < i
      <4>1. p \in Nat /\ i \in Nat /\ N \in Nat
        BY <1>1, <2>3, <3>2
      <4> QED BY <3>3, <4>1
    <3>5. p < i => Before(k, o[i])
      BY <1>1, <2>3, <3>1 DEF Before
    <3> QED BY <3>1, <3>4, <3>5
  <2> QED BY <2>3, <2>4
<1> QED BY <1>3, <1>4

-----------------------------------------------------------------------------
(* The loop. *)

\* The types of the variables.
Types ==
  /\ graph \in Graphs
  /\ ready \in Seq(Node) /\ remaining \in [Node -> Nat]
  /\ task \in [Node -> Alive \cup Over \cup {"none"}]
  /\ todo \in [Node -> SUBSET Ctx] /\ now \in [Node -> SUBSET Ctx] /\ skipped \in [Node -> SUBSET Ctx]
  /\ DOMAIN outputs = Node /\ \A n \in Node : DOMAIN outputs[n] \subseteq Ctx
  /\ done \subseteq Node /\ read \subseteq Node
  /\ phase \in {"loop", "stopping", "unwinding"} \cup Ended
  /\ cut \in BOOLEAN /\ stops \in 0..MaxStops

\* The edges that have not delivered yet, and that the loop counts them.
Passed(m) == m \in read /\ task[m] = "ok"
Owed(n) == {e \in edges : e[3] = n /\ ~Passed(e[1])}
Counted == \A n \in Node : remaining[n] = Cardinality(Owed(n))

\* What is ready is owed nothing and was not started; a node of the graph that is owed
\* nothing is ready or was started.
Queued ==
  /\ \A i, j \in DOMAIN ready : ready[i] = ready[j] => i = j
  /\ \A n \in ToSet(ready) : task[n] = "none" /\ remaining[n] = 0
  /\ \A n \in Node : task[n] # "none" => remaining[n] = 0
  /\ \A n \in ToSet(graph.order) : remaining[n] = 0 => n \in ToSet(ready) \/ task[n] # "none"

\* What the loop knows of the tasks.
Reads ==
  /\ done \cap read = {} /\ \A n \in done : task[n] \in Over
  /\ \A n \in read : task[n] \in {"ok", "failed"}
  /\ phase \in {"loop", "stopping"} => \A n \in Node : task[n] \notin {"cancelled", "gone"}
  /\ phase = "complete" => ready = <<>> /\ \A n \in Node : task[n] # "none" => n \in read
  /\ phase \in Ended => \A n \in Node : task[n] \notin Alive

\* The loop's books: an inductive invariant.
Sched == Types /\ Counted /\ Queued /\ Reads

\* What is owed can be counted.
LEMMA OwedFacts ==
  ASSUME Types, NEW n \in Node
  PROVE  /\ IsFiniteSet(Owed(n)) /\ Cardinality(Owed(n)) \in Nat
         /\ Cardinality(Owed(n)) = 0 <=> Owed(n) = {}
<1>1. IsFiniteSet(edges) /\ Owed(n) \in SUBSET edges
  BY GraphFacts DEF Types, Owed
<1>2. IsFiniteSet(Owed(n))
  BY <1>1, FS_Subset
<1> QED BY <1>2, FS_CardinalityType, FS_EmptySet

\* A node that was started has all of its parents passed, and so has each node above it.
LEMMA StartedFacts ==
  ASSUME Types, Counted, Queued, NEW n \in Node, task[n] # "none"
  PROVE  /\ \A p \in Parents(edges, n) : p \in Node /\ Passed(p)
         /\ \A m \in Above(edges, n) : m \in Node /\ task[m] = "ok"
<1>1. ASSUME NEW k \in Node, task[k] # "none"
      PROVE  \A p \in Parents(edges, k) : p \in Node /\ Passed(p)
  <2>1. Owed(k) = {}
    BY <1>1, OwedFacts DEF Counted, Queued
  <2>2. \A e \in edges : e[1] \in Node
    BY GraphFacts DEF Types
  <2> QED BY <2>1, <2>2 DEF Parents, Owed
<1>2. \A m \in Above(edges, n) : m \in Node /\ task[m] = "ok"
  <2> DEFINE S == {m \in Node : task[m] = "ok"}
  <2>1. Parents(edges, n) \subseteq S /\ \A k \in S : Parents(edges, k) \subseteq S
    BY <1>1 DEF Passed
  <2> HIDE DEF S
  <2>2. S \in SUBSET Node
    BY DEF S
  <2>3. Above(edges, n) \subseteq S
    BY <2>1, <2>2, AboveFacts DEF Types
  <2> QED BY <2>3 DEF S
<1> QED BY <1>1, <1>2

\* A step of the tasks leaves the loop's books as they are.
LEMMA TasksStep ==
  ASSUME Sched, UNCHANGED <<graph, ready, remaining, done, read>>,
         \A n \in Node : task[n] \in Over \cup {"none"} => task'[n] = task[n],
         \A n \in Node : task[n] \in Alive => task'[n] \notin {"none"},
         phase' \in {"loop", "stopping"} =>
           phase \in {"loop", "stopping"} /\ \A n \in Node : task'[n] \notin {"cancelled", "gone"},
         phase' \in Ended => phase' = phase
  PROVE  Counted' /\ Queued' /\ Reads'
<1> USE DEF Sched
<1>1. \A n \in Node : task[n] \in Alive \cup Over \cup {"none"}
  BY DEF Types
<1>2. \A n \in Node : task'[n] = "none" <=> task[n] = "none"
  BY <1>1 DEF Over
<1>3. \A n \in read : task'[n] = task[n]
  BY DEF Reads, Types, Over
<1>4. edges' = edges /\ \A e \in edges : e[1] \in Node
  BY GraphFacts DEF edges, Types
<1>5. \A e \in edges : Passed(e[1])' <=> Passed(e[1])
  BY <1>3, <1>4 DEF Passed
<1>6. \A n \in Node : Owed(n)' = Owed(n)
  BY <1>4, <1>5 DEF Owed
<1>7. Counted'
  BY <1>6 DEF Counted
<1>8. ToSet(ready) \subseteq Node /\ ToSet(graph.order) \subseteq Node
  BY GraphFacts, LenProperties, ElementOfSeq DEF Types, ToSet
<1>9. Queued'
  BY <1>2, <1>8 DEF Queued, ToSet
<1>10. \A n \in done : task'[n] \in Over
  BY DEF Reads, Types
<1>11. phase' = "complete" => ready = <<>> /\ \A n \in Node : task'[n] # "none" => n \in read
  BY <1>2 DEF Reads, Ended
<1>12. ASSUME phase' \in Ended PROVE \A n \in Node : task'[n] \notin Alive
  BY <1>1, <1>12 DEF Reads
<1>13. Reads'
  BY <1>3, <1>10, <1>11, <1>12 DEF Reads
<1> QED BY <1>7, <1>9, <1>13

\* The nodes sorted are those nodes, once each.
LEMMA SortedFacts ==
  ASSUME graph \in Graphs, NEW S \in SUBSET ToSet(graph.order), NEW s \in Sorted(S)
  PROVE  s \in Seq(Node) /\ ToSet(s) = S /\ \A i, j \in DOMAIN s : s[i] = s[j] => i = j
<1>1. s \in [1..Cardinality(S) -> S] /\ ToSet(s) = S /\ \A i, j \in DOMAIN s : i < j => Before(s[i], s[j])
  BY DEF Sorted, Before
<1>2. Cardinality(S) \in Nat
  <2>1. graph.order \in Surjection(1..Len(graph.order), ToSet(graph.order)) /\ Len(graph.order) \in Nat
    BY GraphFacts, LenProperties DEF ToSet, Surjection
  <2>2. IsFiniteSet(ToSet(graph.order))
    BY <2>1, FS_Interval, FS_Surjection
  <2> QED BY <2>2, FS_Subset, FS_CardinalityType
<1>3. S \subseteq Node
  BY GraphFacts, LenProperties, ElementOfSeq DEF ToSet
<1>4. s \in Seq(Node)
  <2>1. s \in [1..Cardinality(S) -> Node]
    BY <1>1, <1>3
  <2> QED BY <1>2, <2>1, SeqDef
<1>5. ASSUME NEW i \in DOMAIN s, NEW j \in DOMAIN s, s[i] = s[j] PROVE i = j
  <2>1. i \in Nat /\ j \in Nat
    BY <1>1, <1>2
  <2>2. ~(i < j) /\ ~(j < i)
    BY <1>1, <1>5, BeforeFacts
  <2> QED BY <2>1, <2>2
<1> QED BY <1>1, <1>4, <1>5

-----------------------------------------------------------------------------
(* Types. *)

\* The contexts of a node are contexts of its parents, or the outermost one.
LEMMA ContextsTyped ==
  ASSUME Types, NEW n \in Node
  PROVE  Contexts(n) \subseteq Ctx /\ \A m \in Node : Seen(m) \subseteq Ctx
<1>1. \A m \in Node : Seen(m) \subseteq Ctx
  BY DEF Types, Seen
<1>2. Parents(edges, n) \subseteq Node
  BY GraphFacts DEF Parents, Types
<1>3. <<>> \in Ctx
  BY EmptySeq DEF Ctx
<1> QED BY <1>1, <1>2, <1>3 DEF Contexts

\* run_node up to its first handler keeps the types.
LEMMA BeginTyped == ASSUME Types, NEW n \in Node, Begin(n) PROVE Types'
<1> DEFINE held == {c \in Contexts(n) : HeldBack(n, c)}
           to == IF held = Contexts(n) /\ (Contexts(n) # {} \/ n \notin FanOut) THEN "ok"
                 ELSE IF n \in FanOut THEN "planning" ELSE "busy"
<1>1. /\ skipped' = [skipped EXCEPT ![n] = held] /\ todo' = [todo EXCEPT ![n] = Contexts(n) \ held]
      /\ task' = [task EXCEPT ![n] = to]
      /\ UNCHANGED <<queue, now, outputs, done, read, phase, cut, stops>>
  BY DEF Begin
<1>2. held \subseteq Ctx /\ Contexts(n) \ held \subseteq Ctx /\ to \in Alive \cup Over
  BY ContextsTyped DEF Alive, Over
<1> HIDE DEF held, to
<1> QED BY <1>1, <1>2 DEF Types, queue

\* A plan keeps the types: an item is a context.
LEMMA PlanTyped == ASSUME Types, NEW n \in Node, Plan(n) PROVE Types'
<1>1. /\ todo' = [todo EXCEPT ![n] = {}]
      /\ UNCHANGED <<queue, now, skipped, done, read, phase, cut, stops>>
  BY DEF Plan
<1>2. \/ task' = [task EXCEPT ![n] = "failed"] /\ outputs' = outputs
      \/ \E count \in [todo[n] -> 0..MaxItems] :
           LET items == UNION {{Append(c, <<n, i>>) : i \in 1..count[c]} : c \in todo[n]}
           IN task' = [task EXCEPT ![n] = "ok"] /\ outputs' = [outputs EXCEPT ![n] = [c \in items |-> {}]]
  BY DEF Plan
<1>3. CASE task' = [task EXCEPT ![n] = "failed"] /\ outputs' = outputs
  BY <1>1, <1>3 DEF Types, queue, Over
<1>4. ASSUME NEW count \in [todo[n] -> 0..MaxItems], NEW items, task' = [task EXCEPT ![n] = "ok"],
             items = UNION {{Append(c, <<n, i>>) : i \in 1..count[c]} : c \in todo[n]},
             outputs' = [outputs EXCEPT ![n] = [c \in items |-> {}]]
      PROVE  Types'
  <2>1. items \subseteq Ctx
    <3>1. ASSUME NEW c \in todo[n], NEW i \in 1..count[c] PROVE Append(c, <<n, i>>) \in Ctx
      <4>1. c \in Ctx /\ count[c] \in 0..MaxItems /\ MaxItems \in Nat
        BY BoundAssumption DEF Types
      <4>2. i \in Nat
        BY <4>1
      <4> QED BY <4>1, <4>2, PrefixOfItem
    <3>2. ASSUME NEW x \in items PROVE \E c \in todo[n] : \E i \in 1..count[c] : x = Append(c, <<n, i>>)
      BY <1>4, <3>2
    <3> QED BY <3>1, <3>2
  <2>2. DOMAIN outputs' = Node /\ \A m \in Node : DOMAIN outputs'[m] \subseteq Ctx
    BY <1>4, <2>1 DEF Types
  <2>3. task' \in [Node -> Alive \cup Over \cup {"none"}]
    BY <1>4 DEF Types, Over
  <2> QED BY <1>1, <2>2, <2>3 DEF Types, queue
<1> QED BY <1>2, <1>3, <1>4

\* A call keeps the types.
LEMMA CallTyped == ASSUME Types, NEW n \in Node, Call(n) PROVE Types'
<1>1. UNCHANGED <<queue, outputs, skipped, done, read, phase, cut, stops>>
  BY DEF Call
<1>2. PICK c \in todo[n] :
        /\ todo' = [todo EXCEPT ![n] = @ \ {c}]
        /\ \/ now' = [now EXCEPT ![n] = {c}] /\ task' = task
           \/ now' = now /\ task' = [task EXCEPT ![n] = "raised"]
  BY DEF Call
<1>3. todo' \in [Node -> SUBSET Ctx] /\ now' \in [Node -> SUBSET Ctx]
  <2>1. todo[n] \ {c} \in SUBSET Ctx /\ {c} \in SUBSET Ctx
    BY <1>2 DEF Types
  <2> QED BY <1>2, <2>1 DEF Types
<1>4. task' \in [Node -> Alive \cup Over \cup {"none"}]
  BY <1>2 DEF Types, Over
<1> QED BY <1>1, <1>3, <1>4 DEF Types, queue

\* An answer keeps the types.
LEMMA AnswerTyped == ASSUME Types, NEW n \in Node, Answer(n) PROVE Types'
<1>1. now' = [now EXCEPT ![n] = {}] /\ UNCHANGED <<queue, todo, skipped, done, read, phase, cut, stops>>
  BY DEF Answer
<1>2. task' \in [Node -> Alive \cup Over \cup {"none"}]
  BY DEF Answer, Types, Alive, Over
<1>3. DOMAIN outputs' = Node /\ \A m \in Node : DOMAIN outputs'[m] \subseteq Ctx
  BY DEF Answer, Types
<1>4. now' \in [Node -> SUBSET Ctx]
  BY <1>1 DEF Types
<1> QED BY <1>1, <1>2, <1>3, <1>4 DEF Types, queue

\* A launch keeps the types.
LEMMA LaunchTyped == ASSUME Types, Launch PROVE Types'
<1>1. /\ ready # <<>> /\ ready' = Tail(ready) /\ task' = [task EXCEPT ![Head(ready)] = "made"]
      /\ UNCHANGED <<graph, remaining, todo, now, outputs, skipped, done, read, phase, cut, stops>>
  BY DEF Launch
<1>2. ready' \in Seq(Node)
  BY <1>1, HeadTailProperties DEF Types
<1>3. task' \in [Node -> Alive \cup Over \cup {"none"}]
  BY <1>1 DEF Types, Alive
<1> QED BY <1>1, <1>2, <1>3 DEF Types

\* What the loop delivers comes off what is owed.
LEMMA DeliveredFacts ==
  ASSUME Sched, NEW n \in Node, Read(n)
  PROVE  /\ Counted' /\ remaining' \in [Node -> Nat]
         /\ \A m \in Node : remaining'[m] <= remaining[m]
         /\ task[n] # "ok" => remaining' = remaining
<1> USE DEF Sched
<1>1. /\ n \in done /\ n \notin read /\ read' = read \cup {n} /\ task' = task /\ edges' = edges
      /\ \A m \in Node : remaining[m] = Cardinality(Owed(m)) /\ remaining[m] \in Nat
  BY DEF Read, Reads, Types, Counted, nodes, edges
<1>2. CASE task[n] = "ok"
  <2>1. remaining' = Delivered(n)
    BY <1>2 DEF Read, Succeeded
  <2>2. ASSUME NEW m \in Node
        PROVE  remaining'[m] = Cardinality(Owed(m)') /\ remaining'[m] \in Nat /\ remaining'[m] <= remaining[m]
    <3> DEFINE Now == {e \in edges : e[1] = n /\ e[3] = m}
    <3>1. Owed(m)' = Owed(m) \ Now /\ Owed(m) \cap Now = Now
      BY <1>1, <1>2 DEF Owed, Passed
    <3>2. IsFiniteSet(Owed(m)) /\ Cardinality(Owed(m)) \in Nat
      BY OwedFacts
    <3> HIDE DEF Now
    <3>3. /\ IsFiniteSet(Owed(m) \ Now)
          /\ Cardinality(Owed(m) \ Now) = Cardinality(Owed(m)) - Cardinality(Owed(m) \cap Now)
      BY <3>2, FS_Difference
    <3>4. IsFiniteSet(Now)
      BY <3>1, <3>2, FS_Subset
    <3>5. Cardinality(Now) \in Nat /\ Cardinality(Owed(m) \ Now) \in Nat
      BY <3>3, <3>4, FS_CardinalityType
    <3>6. remaining'[m] = remaining[m] - Cardinality(Now)
      BY <2>1 DEF Delivered, Now
    <3>7. remaining'[m] = Cardinality(Owed(m)')
      BY <1>1, <3>1, <3>3, <3>6
    <3> QED BY <1>1, <3>1, <3>3, <3>5, <3>6, <3>7
  <2>3. remaining' = [m \in Node |-> remaining'[m]]
    BY <2>1 DEF Delivered
  <2>4. remaining' \in [Node -> Nat]
    BY <2>2, <2>3
  <2> QED BY <1>2, <2>2, <2>4 DEF Counted
<1>3. CASE task[n] # "ok"
  <2>1. remaining' = remaining
    BY <1>3 DEF Read, Succeeded
  <2>2. \A m \in Node : Owed(m)' = Owed(m)
    BY <1>1, <1>3 DEF Owed, Passed
  <2> QED BY <1>1, <1>3, <2>1, <2>2 DEF Counted, Types
<1> QED BY <1>2, <1>3

\* What becomes ready when the loop reads a result.
LEMMA ReadyFacts ==
  ASSUME Sched, NEW n \in Node, Read(n)
  PROVE  \E s \in Seq(Node) :
           /\ ready' = ready \o s /\ \A i, j \in DOMAIN s : s[i] = s[j] => i = j
           /\ ToSet(s) = {m \in ToSet(graph.order) : remaining[m] > 0 /\ remaining'[m] = 0}
<1> USE DEF Sched
<1>1. CASE task[n] = "ok"
  <2> DEFINE S == {m \in ToSet(graph.order) : remaining[m] > 0 /\ remaining'[m] = 0}
  <2>1. PICK s \in Sorted(S) : ready' = ready \o s
    BY <1>1 DEF Read, Succeeded
  <2> HIDE DEF S
  <2>2. S \in SUBSET ToSet(graph.order)
    BY DEF S
  <2>3. s \in Seq(Node) /\ ToSet(s) = S /\ \A i, j \in DOMAIN s : s[i] = s[j] => i = j
    BY <2>2, SortedFacts DEF Types
  <2> QED BY <2>1, <2>3 DEF S
<1>2. CASE task[n] # "ok"
  <2>1. ready' = ready /\ remaining' = remaining
    BY <1>2 DEF Read, Succeeded
  <2>2. <<>> \in Seq(Node) /\ ready = ready \o <<>> /\ DOMAIN <<>> = {}
    BY EmptySeq, ConcatEmptySeq DEF Types
  <2>3. ToSet(<<>>) = {}
    BY <2>2 DEF ToSet
  <2>4. ToSet(graph.order) \subseteq Node
    BY GraphFacts, LenProperties, ElementOfSeq DEF Types, ToSet
  <2>5. {m \in ToSet(graph.order) : remaining[m] > 0 /\ remaining'[m] = 0} = {}
    BY <2>1, <2>4 DEF Types
  <2> QED BY <2>1, <2>2, <2>3, <2>5
<1> QED BY <1>1, <1>2

\* The loop's reading of a result keeps the types.
LEMMA ReadTyped == ASSUME Sched, NEW n \in Node, Read(n) PROVE Types'
<1>1. /\ done' = done \ {n} /\ read' = read \cup {n}
      /\ UNCHANGED <<graph, nodes, phase, cut, stops>>
  BY DEF Read
<1>2. ready' \in Seq(Node)
  <2>1. PICK s \in Seq(Node) : ready' = ready \o s
    BY ReadyFacts
  <2> QED BY <2>1, ConcatProperties DEF Sched, Types
<1>3. remaining' \in [Node -> Nat]
  BY DeliveredFacts
<1> QED BY <1>1, <1>2, <1>3 DEF Sched, Types, nodes

\* The rest of the loop, and a Stop.
LEMMA OthersTyped ==
  ASSUME Types, \/ Wait \/ Unwind \/ Settle \/ Complete \/ Stop \/ UNCHANGED vars
                \/ \E n \in Node : Cleanup(n)
  PROVE  Types'
<1>1. graph' = graph /\ ready' = ready /\ remaining' = remaining
  BY DEF Wait, Unwind, Settle, Complete, Stop, Cleanup, vars, queue
<1>2. todo' = todo /\ now' = now /\ skipped' = skipped /\ outputs' = outputs /\ read' = read
  BY DEF Wait, Unwind, Settle, Complete, Stop, Cleanup, vars, nodes
<1>3. task' \in [Node -> Alive \cup Over \cup {"none"}]
  BY DEF Wait, Unwind, Settle, Complete, Stop, Cleanup, vars, nodes, Types, Alive, Over, Cancelled
<1>4. done' \subseteq Node
  BY DEF Wait, Unwind, Settle, Complete, Stop, Cleanup, vars, Types, Running
<1>5. phase' \in {"loop", "stopping", "unwinding"} \cup Ended
  BY DEF Wait, Unwind, Settle, Complete, Stop, Cleanup, vars, Types, Ended
<1>6. cut' \in BOOLEAN
  BY DEF Wait, Unwind, Settle, Complete, Stop, Cleanup, vars, Types
<1>7. stops' \in 0..MaxStops
  <2>1. MaxStops \in Nat
    BY BoundAssumption
  <2>2. stops' = stops \/ (stops < MaxStops /\ stops' = stops + 1)
    BY DEF Wait, Unwind, Settle, Complete, Stop, Cleanup, vars
  <2> QED BY <2>1, <2>2 DEF Types
<1> QED BY <1>1, <1>2, <1>3, <1>4, <1>5, <1>6, <1>7 DEF Types

\* The node at the head of the queue starts.
LEMMA LaunchQueued == ASSUME Sched, Launch PROVE Counted' /\ Queued' /\ Reads'
<1> USE DEF Sched
<1> DEFINE h == Head(ready)
<1>1. /\ phase = "loop" /\ ready # <<>> /\ ready' = Tail(ready) /\ task' = [task EXCEPT ![h] = "made"]
      /\ UNCHANGED <<graph, remaining, todo, now, outputs, skipped, done, read, phase>>
  BY DEF Launch
<1>2. /\ Len(ready) \in Nat \ {0} /\ DOMAIN ready = 1..Len(ready) /\ h = ready[1] /\ h \in Node
      /\ DOMAIN ready' = 1..(Len(ready) - 1) /\ \A i \in 1..(Len(ready) - 1) : ready'[i] = ready[i + 1]
  BY <1>1, HeadTailProperties, LenProperties, ElementOfSeq, EmptySeq DEF Types
<1>3. /\ task[h] = "none" /\ remaining[h] = 0
  BY <1>2 DEF Queued, ToSet
<1>4. \A i \in DOMAIN ready' : i + 1 \in DOMAIN ready /\ ready'[i] = ready[i + 1] /\ i + 1 # 1
  BY <1>2
<1>5. ToSet(ready') = ToSet(ready) \ {h}
  <2>1. ASSUME NEW x \in ToSet(ready') PROVE x \in ToSet(ready) /\ x # h
    BY <1>2, <1>4, <2>1 DEF ToSet, Queued
  <2>2. ASSUME NEW x \in ToSet(ready), x # h PROVE x \in ToSet(ready')
    <3>1. PICK i \in 1..Len(ready) : x = ready[i]
      BY <1>2 DEF ToSet
    <3>2. i # 1 /\ i - 1 \in 1..(Len(ready) - 1)
      BY <1>2, <2>2, <3>1
    <3>3. ready'[i - 1] = ready[(i - 1) + 1] /\ (i - 1) + 1 = i
      BY <1>2, <3>2
    <3> QED BY <1>2, <3>1, <3>2, <3>3 DEF ToSet
  <2> QED BY <2>1, <2>2
<1>6. \A m \in Node : task'[m] = IF m = h THEN "made" ELSE task[m]
  BY <1>1 DEF Types
<1>7. edges' = edges /\ (\A e \in edges : e[1] \in Node) /\ ToSet(graph.order) \subseteq Node
  BY <1>1, GraphFacts, LenProperties, ElementOfSeq DEF edges, Types, ToSet
<1>8. \A m \in Node : Passed(m)' <=> Passed(m)
  BY <1>1, <1>3, <1>6 DEF Passed
<1>9. Counted'
  BY <1>1, <1>7, <1>8 DEF Counted, Owed
<1>10. \A i, j \in DOMAIN ready' : ready'[i] = ready'[j] => i = j
  <2>1. ASSUME NEW i \in DOMAIN ready', NEW j \in DOMAIN ready', ready'[i] = ready'[j] PROVE i = j
    <3>1. i + 1 = j + 1
      BY <1>4, <2>1 DEF Queued
    <3> QED BY <1>2, <3>1
  <2> QED BY <2>1
<1>11. ToSet(ready) \subseteq Node
  BY LenProperties, ElementOfSeq DEF Types, ToSet
<1>12. Queued'
  BY <1>1, <1>3, <1>5, <1>6, <1>7, <1>10, <1>11 DEF Queued
<1>13. Reads'
  BY <1>1, <1>3, <1>6 DEF Reads, Ended, Types, Over
<1> QED BY <1>9, <1>12, <1>13

\* A result is read, and what it was the last to owe becomes ready.
LEMMA ReadQueued == ASSUME Sched, NEW n \in Node, Read(n) PROVE Counted' /\ Queued' /\ Reads'
<1> USE DEF Sched
<1>1. /\ phase = "loop" /\ n \in done /\ task[n] # "raised" /\ done' = done \ {n} /\ read' = read \cup {n}
      /\ UNCHANGED <<graph, task, phase>>
  BY DEF Read, nodes
<1>2. Counted' /\ remaining' \in [Node -> Nat] /\ (\A m \in Node : remaining'[m] <= remaining[m])
  BY DeliveredFacts
<1>3. PICK s \in Seq(Node) :
        /\ ready' = ready \o s /\ \A i, j \in DOMAIN s : s[i] = s[j] => i = j
        /\ ToSet(s) = {m \in ToSet(graph.order) : remaining[m] > 0 /\ remaining'[m] = 0}
  BY ReadyFacts
<1> DEFINE A == Len(ready)
           B == Len(s)
<1>4. /\ A \in Nat /\ B \in Nat /\ DOMAIN ready = 1..A /\ DOMAIN s = 1..B /\ DOMAIN ready' = 1..(A + B)
      /\ \A i \in 1..A : ready'[i] = ready[i]
      /\ \A i \in (A + 1)..(A + B) : ready'[i] = s[i - A] /\ i - A \in 1..B
  BY <1>3, ConcatProperties, LenProperties DEF Types
<1>5. ToSet(graph.order) \subseteq Node /\ ToSet(ready) \subseteq Node
  BY GraphFacts, LenProperties, ElementOfSeq DEF Types, ToSet
<1>6. ToSet(ready) \cap ToSet(s) = {}
  <2>1. \A m \in ToSet(ready) : remaining[m] = 0
    BY DEF Queued
  <2> QED BY <1>3, <2>1
<1>7. \A i \in 1..(A + B) : i \in 1..A \/ i \in (A + 1)..(A + B)
  BY <1>4
<1>8. ToSet(ready') = ToSet(ready) \cup ToSet(s)
  <2>1. ASSUME NEW x \in ToSet(ready') PROVE x \in ToSet(ready) \cup ToSet(s)
    BY <1>4, <1>7, <2>1 DEF ToSet
  <2>2. ASSUME NEW x \in ToSet(ready) PROVE x \in ToSet(ready')
    <3>1. PICK i \in 1..A : x = ready[i]
      BY <1>4 DEF ToSet
    <3>2. i \in 1..(A + B)
      BY <1>4
    <3> QED BY <1>4, <3>1, <3>2 DEF ToSet
  <2>3. ASSUME NEW x \in ToSet(s) PROVE x \in ToSet(ready')
    <3>1. PICK i \in 1..B : x = s[i]
      BY <1>4 DEF ToSet
    <3>2. A + i \in (A + 1)..(A + B) /\ A + i \in 1..(A + B) /\ (A + i) - A = i
      BY <1>4
    <3> QED BY <1>4, <3>1, <3>2 DEF ToSet
  <2> QED BY <2>1, <2>2, <2>3
<1>9. \A i, j \in DOMAIN ready' : ready'[i] = ready'[j] => i = j
  <2>1. ASSUME NEW i \in 1..(A + B), NEW j \in 1..(A + B), ready'[i] = ready'[j] PROVE i = j
    <3>1. CASE i \in 1..A /\ j \in 1..A
      BY <1>4, <2>1, <3>1 DEF Queued
    <3>2. CASE i \in (A + 1)..(A + B) /\ j \in (A + 1)..(A + B)
      <4>1. i - A = j - A
        BY <1>3, <1>4, <2>1, <3>2
      <4> QED BY <1>4, <4>1
    <3>3. CASE i \in 1..A /\ j \in (A + 1)..(A + B)
      BY <1>4, <1>6, <2>1, <3>3 DEF ToSet
    <3>4. CASE j \in 1..A /\ i \in (A + 1)..(A + B)
      BY <1>4, <1>6, <2>1, <3>4 DEF ToSet
    <3> QED BY <1>7, <3>1, <3>2, <3>3, <3>4
  <2> QED BY <1>4, <2>1
<1>10. \A m \in Node : remaining[m] = 0 => remaining'[m] = 0
  BY <1>2 DEF Types
<1>11. \A m \in ToSet(s) : task[m] = "none"
  BY <1>3, <1>5 DEF Queued
<1>12. \A m \in ToSet(ready') : task'[m] = "none" /\ remaining'[m] = 0
  BY <1>1, <1>3, <1>5, <1>8, <1>10, <1>11 DEF Queued
<1>13. \A m \in Node : task'[m] # "none" => remaining'[m] = 0
  BY <1>1, <1>10 DEF Queued
<1>14. ASSUME NEW m \in ToSet(graph.order), remaining'[m] = 0 PROVE m \in ToSet(ready') \/ task[m] # "none"
  <2>1. CASE remaining[m] = 0
    BY <1>8, <2>1 DEF Queued
  <2>2. CASE remaining[m] # 0
    <3>1. remaining[m] > 0
      BY <1>5, <2>2 DEF Types
    <3> QED BY <1>3, <1>8, <1>14, <3>1
  <2> QED BY <2>1, <2>2
<1>15. Queued'
  BY <1>1, <1>9, <1>12, <1>13, <1>14 DEF Queued
<1>16. task[n] \in {"ok", "failed"}
  BY <1>1 DEF Reads, Types, Over
<1>17. Reads'
  BY <1>1, <1>16 DEF Reads, Ended
<1> QED BY <1>2, <1>15, <1>17

\* The rest of the loop, and a Stop.
LEMMA LoopQueued ==
  ASSUME Sched, Wait \/ Settle \/ Complete \/ Stop \/ UNCHANGED vars
  PROVE  Counted' /\ Queued' /\ Reads'
<1> USE DEF Sched
<1>1. UNCHANGED <<queue, nodes, read>>
  BY DEF Wait, Settle, Complete, Stop, vars
<1>2. Counted' /\ Queued'
  BY <1>1 DEF Counted, Queued, Owed, Passed, edges, queue, nodes
<1>3. CASE Wait
  BY <1>1, <1>2, <1>3 DEF Wait, Reads, Running, queue, nodes, Ended
<1>4. CASE Settle
  BY <1>1, <1>2, <1>4 DEF Settle, Reads, queue, nodes, Ended
<1>5. CASE Complete
  <2>1. \A n \in Node : task[n] # "none" => n \in read
    BY <1>5 DEF Complete, Running
  <2> QED BY <1>1, <1>2, <1>5, <2>1 DEF Complete, Reads, queue, nodes, Ended, Alive
<1>6. CASE Stop
  BY <1>1, <1>2, <1>6 DEF Stop, Reads, queue, nodes, Ended
<1>7. CASE UNCHANGED vars
  BY <1>1, <1>2, <1>7 DEF vars, Reads, queue, nodes
<1> QED BY <1>2, <1>3, <1>4, <1>5, <1>6, <1>7

\* The tasks: only Alive ones move, and not back to none.
LEMMA TasksQueued ==
  ASSUME Sched, Unwind \/ \E n \in Node : Step(n)
  PROVE  Counted' /\ Queued' /\ Reads'
<1> USE DEF Sched
<1>1. CASE Unwind
  <2>1. task' = [n \in Node |-> IF task[n] \in Alive THEN "cancelled" ELSE task[n]]
        /\ phase' = "unwinding" /\ UNCHANGED <<graph, ready, remaining, done, read>>
    BY <1>1 DEF Unwind, Cancelled, queue
  <2>2. \A n \in Node : task[n] \in Over \cup {"none"} => task'[n] = task[n]
    BY <2>1 DEF Over, Alive
  <2>3. \A n \in Node : task[n] \in Alive => task'[n] # "none"
    BY <2>1
  <2> QED BY <2>1, <2>2, <2>3, TasksStep DEF Ended
<1>2. ASSUME NEW n \in Node, Step(n) PROVE Counted' /\ Queued' /\ Reads'
  <2>1. /\ task[n] \in Alive /\ UNCHANGED <<graph, ready, remaining, done, read, phase>>
    BY <1>2 DEF Step, Begin, Plan, Call, Answer, Cleanup, queue, Alive
  <2>2. \E to \in Alive \cup Over : task' = [task EXCEPT ![n] = to] /\ (to = "gone" => task[n] = "cancelled")
                                    /\ (to = "cancelled" => task[n] = "cancelled")
    <3>1. CASE Begin(n)
      <4> DEFINE held == {c \in Contexts(n) : HeldBack(n, c)}
                 to == IF held = Contexts(n) /\ (Contexts(n) # {} \/ n \notin FanOut) THEN "ok"
                       ELSE IF n \in FanOut THEN "planning" ELSE "busy"
      <4>1. task' = [task EXCEPT ![n] = to] /\ to \in {"ok", "planning", "busy"}
        BY <3>1 DEF Begin
      <4> HIDE DEF to
      <4> QED BY <4>1 DEF Alive, Over
    <3>2. CASE Plan(n)
      BY <3>2 DEF Plan, Over
    <3>3. CASE Call(n)
      <4>1. task' = task \/ task' = [task EXCEPT ![n] = "raised"]
        BY <3>3 DEF Call
      <4>2. task = [task EXCEPT ![n] = task[n]]
        BY DEF Types
      <4> QED BY <2>1, <3>3, <4>1, <4>2 DEF Call, Over
    <3>4. CASE Answer(n)
      BY <3>4 DEF Answer, Alive, Over
    <3>5. CASE Cleanup(n)
      BY <3>5 DEF Cleanup, Over
    <3> QED BY <1>2, <3>1, <3>2, <3>3, <3>4, <3>5 DEF Step
  <2>3. \A m \in Node : m # n => task'[m] = task[m]
    BY <2>2 DEF Types
  <2>4. task'[n] # "none" /\ (phase \in {"loop", "stopping"} => task'[n] \notin {"cancelled", "gone"})
    BY <1>2, <2>2 DEF Types, Reads, Alive, Over
  <2>5. \A m \in Node : task[m] \in Over \cup {"none"} => task'[m] = task[m]
    BY <2>1, <2>3 DEF Over, Alive
  <2>6. phase' \in {"loop", "stopping"} => \A m \in Node : task'[m] \notin {"cancelled", "gone"}
    BY <2>1, <2>3, <2>4 DEF Reads
  <2>7. \A m \in Node : task[m] \in Alive => task'[m] # "none"
    BY <2>3, <2>4 DEF Alive
  <2> QED BY <2>1, <2>5, <2>6, <2>7, TasksStep
<1> QED BY <1>1, <1>2

\* The loop's books are right at the start.
LEMMA InitSched == Init => Sched
<1> SUFFICES ASSUME Init PROVE Sched
  OBVIOUS
<1> DEFINE S == {n \in ToSet(graph.order) : EdgesInto(edges, n) = 0}
<1>1. /\ graph \in Graphs /\ ready \in Sorted(S) /\ remaining = [n \in Node |-> EdgesInto(edges, n)]
      /\ task = [n \in Node |-> "none"] /\ todo = [n \in Node |-> {}] /\ now = [n \in Node |-> {}]
      /\ outputs = [n \in Node |-> <<>>] /\ skipped = [n \in Node |-> {}]
      /\ done = {} /\ read = {} /\ phase = "loop" /\ cut = FALSE /\ stops = 0
  BY DEF Init
<1>2. S \in SUBSET ToSet(graph.order) /\ ToSet(graph.order) \subseteq Node
  BY <1>1, GraphFacts, LenProperties, ElementOfSeq DEF ToSet
<1>3. \A n \in Node : EdgesInto(edges, n) = Cardinality(Owed(n)) /\ EdgesInto(edges, n) \in Nat
  <2>1. \A n \in Node : Owed(n) = {e \in edges : e[3] = n}
    BY <1>1 DEF Owed, Passed
  <2>2. IsFiniteSet(edges)
    BY <1>1, GraphFacts
  <2>3. ASSUME NEW n \in Node PROVE Cardinality({e \in edges : e[3] = n}) \in Nat
    <3>1. {e \in edges : e[3] = n} \in SUBSET edges
      OBVIOUS
    <3> QED BY <2>2, <3>1, FS_Subset, FS_CardinalityType
  <2> QED BY <2>1, <2>3 DEF EdgesInto
<1>4. ready \in Seq(Node) /\ ToSet(ready) = S /\ \A i, j \in DOMAIN ready : ready[i] = ready[j] => i = j
  <2> HIDE DEF S
  <2> QED BY <1>1, <1>2, SortedFacts
<1>5. Types
  <2>1. DOMAIN outputs = Node /\ \A n \in Node : DOMAIN outputs[n] = {}
    BY <1>1, EmptySeq
  <2>2. stops \in 0..MaxStops
    BY <1>1, BoundAssumption
  <2>3. remaining \in [Node -> Nat]
    BY <1>1, <1>3
  <2> QED BY <1>1, <1>4, <2>1, <2>2, <2>3 DEF Types
<1>6. Counted
  BY <1>1, <1>3 DEF Counted
<1>7. Queued
  BY <1>1, <1>2, <1>4 DEF Queued
<1>8. Reads
  BY <1>1 DEF Reads, Ended
<1> QED BY <1>5, <1>6, <1>7, <1>8 DEF Sched

\* Every step keeps them right.
LEMMA SchedNext == Sched /\ [Next]_vars => Sched'
<1> SUFFICES ASSUME Sched, [Next]_vars PROVE Sched'
  OBVIOUS
<1>1. CASE Launch
  BY <1>1, LaunchTyped, LaunchQueued DEF Sched
<1>2. CASE Unwind
  BY <1>2, OthersTyped, TasksQueued DEF Sched
<1>3. CASE Wait \/ Settle \/ Complete \/ Stop \/ UNCHANGED vars
  BY <1>3, OthersTyped, LoopQueued DEF Sched
<1>4. ASSUME NEW n \in Node, Read(n) PROVE Sched'
  BY <1>4, ReadTyped, ReadQueued DEF Sched
<1>5. ASSUME NEW n \in Node, Step(n) PROVE Sched'
  <2>1. Types'
    BY <1>5, BeginTyped, PlanTyped, CallTyped, AnswerTyped, OthersTyped DEF Step, Sched
  <2> QED BY <1>5, <2>1, TasksQueued DEF Sched
<1> QED BY <1>1, <1>2, <1>3, <1>4, <1>5 DEF Next, Loop

\* The loop's books are right in every reachable state.
THEOREM SchedAlways == Spec => []Sched
BY InitSched, SchedNext, PTL DEF Spec

\* A node starts only when every node above it has succeeded: the loop launches what is
\* owed no delivery, and only a success delivers.
THEOREM StartsAfterParentsAlways == Spec => []StartsAfterParents
<1>1. Sched => StartsAfterParents
  BY StartedFacts DEF Sched, StartsAfterParents
<1> QED BY <1>1, SchedAlways, PTL

\* When GraphComplete goes out, a node that was never started has a failed node above it:
\* the first such node is owed a delivery by a node that failed.
THEOREM CompleteMeansAllAlways == Spec => []CompleteMeansAll
<1>1. Sched => CompleteMeansAll
  <2> SUFFICES ASSUME Sched, phase = "complete", NEW n \in ToSet(graph.order), task[n] \notin {"ok", "failed"}
               PROVE  task[n] = "none" /\ \E m \in Above(edges, n) : task[m] = "failed"
    BY DEF CompleteMeansAll
  <2> USE DEF Sched
  <2>1. /\ graph \in Graphs /\ ready = <<>> /\ n \in Node /\ ToSet(graph.order) \subseteq Node
        /\ \A m \in Node : task[m] # "none" => m \in read /\ task[m] \in {"ok", "failed"}
    <3>1. ToSet(graph.order) \subseteq Node
      BY GraphFacts, LenProperties, ElementOfSeq DEF Types, ToSet
    <3>2. n \in Node
      BY <3>1
    <3>3. graph \in Graphs
      BY DEF Types
    <3>4. ready = <<>> /\ \A m \in Node : task[m] # "none" => m \in read /\ task[m] \in {"ok", "failed"}
      BY DEF Reads
    <3> QED BY <3>1, <3>2, <3>3, <3>4
  <2> DEFINE S == {m \in Above(edges, n) \cup {n} : task[m] = "none"}
  <2>2. Above(edges, n) \subseteq ToSet(graph.order)
    BY <2>1, AboveOrder DEF Before, ToSet
  <2>3. S \subseteq ToSet(graph.order) /\ n \in S
    BY <2>1, <2>2
  <2>4. PICK m \in S : \A k \in S : ~Before(k, m)
    <3> HIDE DEF S
    <3> QED BY <2>1, <2>3, Extremes
  <2>5. m \in Node /\ m \in ToSet(graph.order) /\ task[m] = "none"
    BY <2>1, <2>3, <2>4
  <2>6. ToSet(ready) = {}
    BY <2>1 DEF ToSet
  <2>7. remaining[m] # 0
    BY <2>5, <2>6 DEF Queued
  <2>8. PICK e \in edges : e[3] = m /\ ~Passed(e[1])
    BY <2>5, <2>7, OwedFacts DEF Counted, Owed
  <2>9. e[1] \in Above(edges, n)
    <3>1. e[1] \in Parents(edges, m)
      BY <2>8 DEF Parents
    <3> QED BY <2>1, <2>4, <3>1, AboveFacts
  <2>10. e[1] \in Node /\ Before(e[1], m)
    BY <2>1, <2>8, GraphFacts
  <2>11. task[e[1]] # "none"
    BY <2>4, <2>9, <2>10
  <2>12. task[e[1]] = "failed"
    BY <2>1, <2>8, <2>10, <2>11 DEF Passed
  <2> QED BY <2>5, <2>1, <2>9, <2>12, <2>3
<1> QED BY <1>1, SchedAlways, PTL

-----------------------------------------------------------------------------
(* What a node works on. *)

\* What a node has at each point of run_node.
WorkOf(n) ==
  /\ task[n] \in {"none", "made"} =>
       todo[n] = {} /\ now[n] = {} /\ DOMAIN outputs[n] = {} /\ skipped[n] = {}
  /\ task[n] = "planning" => n \in FanOut /\ DOMAIN outputs[n] = {}
  /\ n \in FanOut => task[n] # "busy" /\ now[n] = {}
  /\ task[n] = "ok" => todo[n] = {} /\ now[n] = {}
  /\ now[n] = {} \/ \E c \in Ctx : now[n] = {c}
  /\ now[n] \cap todo[n] = {} /\ (todo[n] \cup now[n]) \cap (DOMAIN outputs[n] \cup skipped[n]) = {}
  /\ DOMAIN outputs[n] \cap skipped[n] = {}
  /\ \A c \in DOMAIN outputs[n] : outputs[n][c] \subseteq (IF n \in Gate THEN Port ELSE {})
  /\ n \in FanOut => Cardinality(DOMAIN outputs[n]) <= Cap

\* What a node that began runs and skips: the contexts its parents left it, which a
\* fan-out extends by its items.
Item(n, b, c) == \E i \in Nat : c = Append(b, <<n, i>>)
Began(n) == task[n] \notin {"none", "made"}
Runs(n) == todo[n] \cup now[n] \cup (IF n \in FanOut THEN {} ELSE DOMAIN outputs[n])
PlacedOf(n) ==
  Began(n) =>
    /\ \A c \in skipped[n] : c \in Contexts(n) /\ HeldBack(n, c)
    /\ \A c \in Runs(n) : c \in Contexts(n) /\ ~HeldBack(n, c)
    /\ n \in FanOut => \A c \in DOMAIN outputs[n] :
         \E b \in Contexts(n) : Item(n, b, c) /\ ~HeldBack(n, b)
    /\ n \notin FanOut /\ task[n] \in {"busy", "ok"} => Contexts(n) \subseteq Runs(n) \cup skipped[n]

\* What all of the nodes work on: inductive, with Sched.
Works == \A n \in Node : WorkOf(n) /\ PlacedOf(n)

\* A step of one node leaves every other node as it is.
StepOf(n) ==
  /\ UNCHANGED graph
  /\ \A m \in Node : m # n => /\ task'[m] = task[m] /\ todo'[m] = todo[m] /\ now'[m] = now[m]
                              /\ outputs'[m] = outputs[m] /\ skipped'[m] = skipped[m]

\* A node steps between its start and its success.
LEMMA StepFacts ==
  ASSUME Types, NEW n \in Node, Step(n)
  PROVE  StepOf(n) /\ task[n] # "ok" /\ task[n] # "none"
<1>1. task[n] # "ok" /\ task[n] # "none" /\ UNCHANGED graph
  BY DEF Step, Begin, Plan, Call, Answer, Cleanup, queue
<1> SUFFICES ASSUME NEW m \in Node, m # n
             PROVE  /\ task'[m] = task[m] /\ todo'[m] = todo[m] /\ now'[m] = now[m]
                    /\ outputs'[m] = outputs[m] /\ skipped'[m] = skipped[m]
  BY <1>1 DEF StepOf
<1>2. CASE Begin(n)
  BY <1>2 DEF Begin, Types
<1>3. CASE Plan(n)
  BY <1>3 DEF Plan, Types
<1>4. CASE Call(n)
  BY <1>4 DEF Call, Types
<1>5. CASE Answer(n)
  BY <1>5 DEF Answer, Types
<1>6. CASE Cleanup(n)
  BY <1>6 DEF Cleanup, Types
<1> QED BY <1>2, <1>3, <1>4, <1>5, <1>6 DEF Step

\* The rest of the steps make a task, or cancel one.
LEMMA LoopFacts ==
  ASSUME Sched, [Loop \/ Stop]_vars
  PROVE  /\ UNCHANGED <<graph, todo, now, outputs, skipped>>
         /\ \A m \in Node : \/ task'[m] = task[m]
                            \/ task[m] = "none" /\ task'[m] = "made"
                            \/ task[m] \in Alive /\ task'[m] = "cancelled"
<1>1. CASE Launch
  <2>1. Head(ready) \in Node /\ task[Head(ready)] = "none" /\ task' = [task EXCEPT ![Head(ready)] = "made"]
    <3>1. ready # <<>> /\ task' = [task EXCEPT ![Head(ready)] = "made"]
      BY <1>1 DEF Launch
    <3>2. /\ Len(ready) \in Nat \ {0} /\ DOMAIN ready = 1..Len(ready)
          /\ Head(ready) = ready[1] /\ Head(ready) \in Node
      BY <3>1, HeadTailProperties, LenProperties, ElementOfSeq, EmptySeq DEF Sched, Types
    <3> QED BY <3>1, <3>2 DEF Sched, Queued, ToSet
  <2> QED BY <1>1, <2>1 DEF Launch, Sched, Types
<1>2. CASE Unwind
  BY <1>2 DEF Unwind, Cancelled, queue
<1>3. CASE Wait \/ Settle \/ Complete \/ Stop \/ UNCHANGED vars
  BY <1>3 DEF Wait, Settle, Complete, Stop, vars, queue, nodes
<1>4. ASSUME NEW n \in Node, Read(n)
      PROVE  UNCHANGED <<graph, todo, now, outputs, skipped, task>>
  BY <1>4 DEF Read, nodes
<1> QED BY <1>1, <1>2, <1>3, <1>4 DEF Loop

\* A node that succeeded keeps what it recorded and skipped.
LEMMA Frozen ==
  ASSUME Sched, [Next]_vars
  PROVE  /\ edges' = edges
         /\ \A m \in Node : task[m] = "ok" =>
              task'[m] = "ok" /\ outputs'[m] = outputs[m] /\ skipped'[m] = skipped[m]
<1>1. CASE [Loop \/ Stop]_vars
  BY <1>1, LoopFacts DEF Alive, edges
<1>2. ASSUME NEW n \in Node, Step(n)
      PROVE  /\ edges' = edges
             /\ \A m \in Node : task[m] = "ok" =>
                  task'[m] = "ok" /\ outputs'[m] = outputs[m] /\ skipped'[m] = skipped[m]
  BY <1>2, StepFacts DEF StepOf, Sched, edges
<1> QED BY <1>1, <1>2 DEF Next

\* So what a node that was started sees of its parents is settled.
LEMMA ContextsSame ==
  ASSUME Sched, [Next]_vars, NEW n \in Node, task[n] # "none"
  PROVE  Contexts(n)' = Contexts(n) /\ \A c : HeldBack(n, c)' <=> HeldBack(n, c)
<1>1. edges' = edges /\ Parents(edges, n)' = Parents(edges, n)
  BY Frozen DEF Parents
<1>2. \A p \in Parents(edges, n) : outputs'[p] = outputs[p] /\ skipped'[p] = skipped[p]
  BY StartedFacts, Frozen DEF Passed, Sched
<1>3. \A p \in Parents(edges, n) : Seen(p)' = Seen(p)
  BY <1>2 DEF Seen
<1>4. UNION {Seen(m) : m \in Parents(edges, n)}' = UNION {Seen(m) : m \in Parents(edges, n)}
  BY <1>1, <1>3
<1>5. Contexts(n)' = Contexts(n)
  BY <1>1, <1>3, <1>4 DEF Contexts
<1>6. \A e \in edges : e[3] = n => e[1] \in Parents(edges, n)
  BY DEF Parents
<1>7. ASSUME NEW c PROVE HeldBack(n, c)' <=> HeldBack(n, c)
  <2>1. ASSUME NEW e \in edges, e[3] = n
        PROVE  /\ Seen(e[1])' = Seen(e[1]) /\ \A k : Closest(k, e[1], c)' <=> Closest(k, e[1], c)
               /\ skipped'[e[1]] = skipped[e[1]] /\ outputs'[e[1]] = outputs[e[1]]
    BY <1>2, <1>3, <1>6, <2>1 DEF Closest
  <2> QED BY <1>1, <2>1 DEF HeldBack
<1> QED BY <1>5, <1>7

\* A node whose own work does not change keeps its part.
LEMMA OtherKeeps ==
  ASSUME Sched, [Next]_vars, NEW m \in Node, WorkOf(m), PlacedOf(m),
         todo'[m] = todo[m] /\ now'[m] = now[m] /\ outputs'[m] = outputs[m] /\ skipped'[m] = skipped[m],
         \/ task'[m] = task[m]
         \/ task[m] = "none" /\ task'[m] = "made"
         \/ task[m] \in Alive /\ task'[m] \in {"cancelled", "gone"}
  PROVE  WorkOf(m)' /\ PlacedOf(m)'
<1>1. task'[m] \in {"cancelled", "gone"} \/ task'[m] = task[m] \/ (task[m] = "none" /\ task'[m] = "made")
  OBVIOUS
<1>2. WorkOf(m)'
  BY <1>1 DEF WorkOf
<1>3. CASE ~Began(m)
  <2>1. todo[m] = {} /\ now[m] = {} /\ DOMAIN outputs[m] = {} /\ skipped[m] = {}
    BY <1>3 DEF WorkOf, Began
  <2>2. Began(m)' => task'[m] \notin {"busy", "ok"}
    BY <1>3 DEF Began
  <2>3. skipped'[m] = {} /\ Runs(m)' = {} /\ DOMAIN outputs'[m] = {}
    BY <2>1 DEF Runs
  <2> QED BY <1>2, <2>2, <2>3 DEF PlacedOf
<1>4. CASE Began(m)
  <2>1. Contexts(m)' = Contexts(m) /\ \A c : HeldBack(m, c)' <=> HeldBack(m, c)
    BY <1>4, ContextsSame DEF Began
  <2>2. Runs(m)' = Runs(m)
    BY DEF Runs
  <2>3. task'[m] \in {"busy", "ok"} => task'[m] = task[m]
    BY <1>1
  <2> QED BY <1>2, <1>4, <2>1, <2>2, <2>3 DEF PlacedOf, Began, Item
<1> QED BY <1>2, <1>3, <1>4

\* The contexts of a node are an antichain: none continues another.
LEMMA ContextsApart ==
  ASSUME Types, NEW n \in Node, NEW c \in Contexts(n), NEW d \in Contexts(n), IsPrefix(c, d)
  PROVE  c = d
<1>1. CASE Parents(edges, n) = {}
  BY <1>1 DEF Contexts
<1>2. CASE Parents(edges, n) # {}
  <2> DEFINE all == UNION {Seen(m) : m \in Parents(edges, n)}
  <2>1. d \in all /\ ~ \E x \in all : IsStrictPrefix(c, x)
    BY <1>2 DEF Contexts
  <2> QED BY <2>1 DEF IsStrictPrefix
<1> QED BY <1>1, <1>2

\* The node that begins.
LEMMA BeginKeeps ==
  ASSUME Sched, [Next]_vars, NEW n \in Node, WorkOf(n), PlacedOf(n), Begin(n)
  PROVE  WorkOf(n)' /\ PlacedOf(n)'
<1> DEFINE all == Contexts(n)
           held == {c \in Contexts(n) : HeldBack(n, c)}
           to == IF held = Contexts(n) /\ (Contexts(n) # {} \/ n \notin FanOut) THEN "ok"
                 ELSE IF n \in FanOut THEN "planning" ELSE "busy"
<1>1. /\ task[n] = "made"
      /\ skipped' = [skipped EXCEPT ![n] = held] /\ todo' = [todo EXCEPT ![n] = Contexts(n) \ held]
      /\ task' = [task EXCEPT ![n] = to] /\ now' = now /\ outputs' = outputs
  BY DEF Begin
<1>2. skipped'[n] = held /\ todo'[n] = Contexts(n) \ held /\ task'[n] = to
  <2> HIDE DEF held, to
  <2> QED BY <1>1 DEF Sched, Types
<1>3. now'[n] = {} /\ outputs'[n] = outputs[n] /\ DOMAIN outputs[n] = {}
  BY <1>1 DEF WorkOf
<1>4. /\ to = "ok" => todo'[n] = {}
      /\ to = "planning" => n \in FanOut
      /\ to = "busy" => n \notin FanOut
      /\ to \in {"ok", "planning", "busy"}
  BY <1>2
<1>5. WorkOf(n)'
  <2>1. n \in FanOut => Cardinality(DOMAIN outputs'[n]) <= Cap
    BY <1>3 DEF WorkOf
  <2>2. todo'[n] \cap skipped'[n] = {}
    BY <1>2
  <2> HIDE DEF held, to
  <2> QED BY <1>2, <1>3, <1>4, <2>1, <2>2 DEF WorkOf
<1>6. Contexts(n)' = Contexts(n) /\ \A c : HeldBack(n, c)' <=> HeldBack(n, c)
  BY <1>1, ContextsSame
<1>7. PlacedOf(n)'
  <2>1. Runs(n)' = Contexts(n) \ held
    <3> HIDE DEF held, to
    <3> QED BY <1>2, <1>3 DEF Runs
  <2>2. \A c \in skipped'[n] : c \in Contexts(n) /\ HeldBack(n, c)
    BY <1>2
  <2>3. \A c \in Runs(n)' : c \in Contexts(n) /\ ~HeldBack(n, c)
    BY <2>1
  <2>4. Contexts(n) \subseteq Runs(n)' \cup skipped'[n]
    BY <1>2, <2>1
  <2> HIDE DEF held, to
  <2> QED BY <1>3, <1>6, <2>2, <2>3, <2>4 DEF PlacedOf
<1> QED BY <1>5, <1>7

\* The fan-out that plans its items: an item continues one context, and no other.
LEMMA PlanKeeps ==
  ASSUME Sched, [Next]_vars, NEW n \in Node, WorkOf(n), PlacedOf(n), Plan(n)
  PROVE  WorkOf(n)' /\ PlacedOf(n)'
<1> USE DEF Sched
<1>1. /\ task[n] = "planning" /\ todo' = [todo EXCEPT ![n] = {}] /\ now' = now /\ skipped' = skipped
  BY DEF Plan
<1>2. /\ n \in FanOut /\ n \notin Gate /\ Began(n) /\ now[n] = {} /\ DOMAIN outputs[n] = {}
      /\ todo'[n] = {} /\ now'[n] = {} /\ skipped'[n] = skipped[n]
  BY <1>1, GraphAssumption DEF WorkOf, Types, Began
<1>3. Contexts(n)' = Contexts(n) /\ \A c : HeldBack(n, c)' <=> HeldBack(n, c)
  BY <1>1, ContextsSame
<1>4. \A c \in skipped[n] : c \in Contexts(n) /\ HeldBack(n, c)
  BY <1>2 DEF PlacedOf
<1>5. Runs(n)' = {}
  BY <1>2 DEF Runs
<1>6. CASE task' = [task EXCEPT ![n] = "failed"] /\ outputs' = outputs
  <2>1. task'[n] = "failed" /\ outputs'[n] = outputs[n]
    BY <1>6 DEF Types
  <2>2. WorkOf(n)'
    BY <1>2, <2>1 DEF WorkOf
  <2>3. PlacedOf(n)'
    BY <1>2, <1>3, <1>4, <1>5, <2>1 DEF PlacedOf
  <2> QED BY <2>2, <2>3
<1>7. ASSUME NEW count \in [todo[n] -> 0..MaxItems], NEW items, task' = [task EXCEPT ![n] = "ok"],
             items = UNION {{Append(c, <<n, i>>) : i \in 1..count[c]} : c \in todo[n]},
             outputs' = [outputs EXCEPT ![n] = [c \in items |-> {}]], Cardinality(items) <= Cap
      PROVE  WorkOf(n)' /\ PlacedOf(n)'
  <2>1. task'[n] = "ok" /\ outputs'[n] = [c \in items |-> {}]
    BY <1>7 DEF Types
  <2>2. DOMAIN outputs'[n] = items /\ \A c \in items : outputs'[n][c] = {}
    BY <2>1
  <2>3. ASSUME NEW x \in items
        PROVE  \E b \in todo[n] : Item(n, b, x)
    <3>1. PICK c \in todo[n] : \E i \in 1..count[c] : x = Append(c, <<n, i>>)
      BY <1>7, <2>3
    <3>2. PICK i \in 1..count[c] : x = Append(c, <<n, i>>)
      BY <3>1
    <3>3. count[c] \in 0..MaxItems /\ MaxItems \in Nat
      BY <3>1, BoundAssumption
    <3>4. i \in Nat
      BY <3>2, <3>3
    <3> QED BY <3>1, <3>2, <3>4 DEF Item
  <2>4. \A b \in todo[n] : b \in Contexts(n) /\ ~HeldBack(n, b)
    BY <1>2 DEF PlacedOf, Runs
  <2>5. items \cap skipped[n] = {}
    <3> SUFFICES ASSUME NEW x \in items, x \in skipped[n] PROVE FALSE
      OBVIOUS
    <3>1. PICK b \in todo[n] : Item(n, b, x)
      BY <2>3
    <3>2. b \in Ctx /\ b \in Contexts(n) /\ x \in Contexts(n) /\ x \in Ctx
      BY <1>4, <2>4, ContextsTyped DEF Types
    <3>3. PICK i \in Nat : x = Append(b, <<n, i>>)
      BY <3>1 DEF Item
    <3>4. IsPrefix(b, x) /\ b # x
      BY <3>2, <3>3, PrefixOfItem
    <3> QED BY <3>2, <3>4, ContextsApart
  <2> HIDE DEF Sched
  <2>6. WorkOf(n)'
    BY <1>2, <1>7, <2>1, <2>2, <2>5 DEF WorkOf
  <2>7. \A c \in DOMAIN outputs'[n] : \E b \in Contexts(n) : Item(n, b, c) /\ ~HeldBack(n, b)
    BY <2>2, <2>3, <2>4
  <2>8. PlacedOf(n)'
    <3>1. \A c \in skipped'[n] : c \in Contexts(n)' /\ HeldBack(n, c)'
      BY <1>2, <1>3, <1>4
    <3>2. \A c \in DOMAIN outputs'[n] : \E b \in Contexts(n)' : Item(n, b, c)' /\ ~HeldBack(n, b)'
      BY <1>3, <2>7 DEF Item
    <3> QED BY <1>2, <1>5, <3>1, <3>2 DEF PlacedOf
  <2> QED BY <2>6, <2>8
<1>8. \/ task' = [task EXCEPT ![n] = "failed"] /\ outputs' = outputs
      \/ \E count \in [todo[n] -> 0..MaxItems] :
           LET items == UNION {{Append(c, <<n, i>>) : i \in 1..count[c]} : c \in todo[n]}
           IN /\ task' = [task EXCEPT ![n] = "ok"] /\ outputs' = [outputs EXCEPT ![n] = [c \in items |-> {}]]
              /\ Cardinality(items) <= Cap
  BY DEF Plan, Fits
<1> QED BY <1>6, <1>7, <1>8

\* The node that calls its handler.
LEMMA CallKeeps ==
  ASSUME Sched, [Next]_vars, NEW n \in Node, WorkOf(n), PlacedOf(n), Call(n)
  PROVE  WorkOf(n)' /\ PlacedOf(n)'
<1> USE DEF Sched
<1>1. PICK c \in todo[n] :
        /\ todo' = [todo EXCEPT ![n] = @ \ {c}]
        /\ \/ now' = [now EXCEPT ![n] = {c}] /\ task' = task
           \/ now' = now /\ task' = [task EXCEPT ![n] = "raised"]
  BY DEF Call
<1>2. /\ task[n] = "busy" /\ now[n] = {} /\ outputs' = outputs /\ skipped' = skipped
      /\ n \notin FanOut /\ Began(n) /\ c \in Ctx
  BY DEF Call, WorkOf, Began, Types
<1>3. /\ todo'[n] = todo[n] \ {c} /\ outputs'[n] = outputs[n] /\ skipped'[n] = skipped[n]
      /\ \/ now'[n] = {c} /\ task'[n] = "busy"
         \/ now'[n] = {} /\ task'[n] = "raised"
  BY <1>1, <1>2 DEF Types
<1> HIDE DEF Sched
<1>4. WorkOf(n)'
  BY <1>2, <1>3 DEF WorkOf
<1>5. Contexts(n)' = Contexts(n) /\ \A d : HeldBack(n, d)' <=> HeldBack(n, d)
  BY <1>2, ContextsSame
<1>6. Runs(n)' \subseteq Runs(n) /\ (task'[n] = "busy" => Runs(n)' = Runs(n))
  BY <1>2, <1>3 DEF Runs
<1>7. PlacedOf(n)'
  BY <1>2, <1>3, <1>5, <1>6 DEF PlacedOf
<1> QED BY <1>4, <1>7

\* The node whose handler answers.
LEMMA AnswerKeeps ==
  ASSUME Sched, [Next]_vars, NEW n \in Node, WorkOf(n), PlacedOf(n), Answer(n)
  PROVE  WorkOf(n)' /\ PlacedOf(n)'
<1>1. /\ task[n] = "busy" /\ now' = [now EXCEPT ![n] = {}] /\ todo' = todo /\ skipped' = skipped
      /\ \/ /\ \E held \in SUBSET (IF n \in Gate THEN Port ELSE {}) :
                 outputs' = [outputs EXCEPT ![n] =
                   [c \in DOMAIN @ \cup now[n] |-> IF c \in now[n] THEN held ELSE @[c]]]
            /\ task' = [task EXCEPT ![n] = IF todo[n] = {} THEN "ok" ELSE "busy"]
         \/ task' = [task EXCEPT ![n] = "failed"] /\ outputs' = outputs
  BY DEF Answer
<1>2. /\ n \notin FanOut /\ Began(n) /\ now'[n] = {} /\ todo'[n] = todo[n] /\ skipped'[n] = skipped[n]
  BY <1>1 DEF WorkOf, Began, Sched, Types
<1>3. Contexts(n)' = Contexts(n) /\ \A d : HeldBack(n, d)' <=> HeldBack(n, d)
  BY <1>1, ContextsSame
<1>4. CASE task' = [task EXCEPT ![n] = "failed"] /\ outputs' = outputs
  <2>1. task'[n] = "failed" /\ outputs'[n] = outputs[n]
    BY <1>4 DEF Sched, Types
  <2>2. WorkOf(n)'
    BY <1>2, <2>1 DEF WorkOf
  <2>3. PlacedOf(n)'
    BY <1>2, <1>3, <2>1 DEF PlacedOf, Runs
  <2> QED BY <2>2, <2>3
<1>5. ASSUME NEW held \in SUBSET (IF n \in Gate THEN Port ELSE {}),
             outputs' = [outputs EXCEPT ![n] =
               [c \in DOMAIN @ \cup now[n] |-> IF c \in now[n] THEN held ELSE @[c]]],
             task' = [task EXCEPT ![n] = IF todo[n] = {} THEN "ok" ELSE "busy"]
      PROVE  WorkOf(n)' /\ PlacedOf(n)'
  <2>1. /\ outputs'[n] = [c \in DOMAIN outputs[n] \cup now[n] |-> IF c \in now[n] THEN held ELSE outputs[n][c]]
        /\ task'[n] = IF todo[n] = {} THEN "ok" ELSE "busy"
    BY <1>5 DEF Sched, Types
  <2>2. /\ DOMAIN outputs'[n] = DOMAIN outputs[n] \cup now[n]
        /\ \A c \in DOMAIN outputs'[n] : outputs'[n][c] \subseteq (IF n \in Gate THEN Port ELSE {})
    BY <2>1 DEF WorkOf
  <2>3. WorkOf(n)'
    BY <1>2, <2>1, <2>2 DEF WorkOf
  <2>4. Runs(n)' = Runs(n)
    BY <1>2, <2>2 DEF Runs
  <2>5. PlacedOf(n)'
    BY <1>1, <1>2, <1>3, <2>4 DEF PlacedOf
  <2> QED BY <2>3, <2>5
<1> QED BY <1>1, <1>4, <1>5

\* At the start no node has begun.
LEMMA InitWorks == Init => Works
<1> SUFFICES ASSUME Init, NEW n \in Node PROVE WorkOf(n) /\ PlacedOf(n)
  BY DEF Works
<1>1. task[n] = "none" /\ todo[n] = {} /\ now[n] = {} /\ outputs[n] = <<>> /\ skipped[n] = {}
  BY DEF Init
<1>2. DOMAIN outputs[n] = {} /\ Cap \in Nat
  BY <1>1, EmptySeq, BoundAssumption
<1>3. Cardinality(DOMAIN outputs[n]) <= Cap
  BY <1>2, FS_EmptySet
<1> QED BY <1>1, <1>2, <1>3 DEF WorkOf, PlacedOf, Began

\* Every step keeps what each node works on.
LEMMA WorksNext == Sched /\ Works /\ [Next]_vars => Works'
<1> SUFFICES ASSUME Sched, Works, [Next]_vars, NEW m \in Node PROVE WorkOf(m)' /\ PlacedOf(m)'
  BY DEF Works
<1>1. WorkOf(m) /\ PlacedOf(m)
  BY DEF Works
<1>2. CASE [Loop \/ Stop]_vars
  BY <1>1, <1>2, LoopFacts, OtherKeeps
<1>3. ASSUME NEW n \in Node, Step(n), m # n PROVE WorkOf(m)' /\ PlacedOf(m)'
  BY <1>1, <1>3, StepFacts, OtherKeeps DEF StepOf, Sched
<1>4. CASE Step(m)
  <2>1. CASE Cleanup(m)
    <3>1. /\ task[m] \in Alive /\ task'[m] = "gone"
          /\ todo'[m] = todo[m] /\ now'[m] = now[m] /\ outputs'[m] = outputs[m] /\ skipped'[m] = skipped[m]
      BY <2>1 DEF Cleanup, Sched, Types, Alive
    <3> QED BY <1>1, <3>1, OtherKeeps
  <2> QED BY <1>1, <1>4, <2>1, BeginKeeps, PlanKeeps, CallKeeps, AnswerKeeps DEF Step
<1> QED BY <1>2, <1>3, <1>4 DEF Next

\* What each node works on comes from its parents, in every reachable state.
THEOREM WorksAlways == Spec => [](Sched /\ Works)
<1>1. Init => Sched /\ Works
  BY InitSched, InitWorks
<1>2. Sched /\ Works /\ [Next]_vars => (Sched /\ Works)'
  BY SchedNext, WorksNext
<1> QED BY <1>1, <1>2, PTL DEF Spec

-----------------------------------------------------------------------------
(* Types, and the manifest. *)

\* The manifest is written at the end of the run, whole or not at all.
Listed ==
  /\ phase \notin Ended => manifest = {}
  /\ phase \in Ended => manifest = Recorded \/ (cut /\ manifest = {})

\* A step that ends the run, and any other.
LEMMA ListedNext == Sched /\ Listed /\ [Next]_vars => Listed'
<1> SUFFICES ASSUME Sched, Listed, [Next]_vars PROVE Listed'
  OBVIOUS
<1>1. CASE Settle \/ Complete
  <2>1. UNCHANGED <<outputs, cut>> /\ phase' \in Ended /\ (manifest' = Recorded \/ (cut /\ manifest' = {}))
    BY <1>1 DEF Settle, Complete, nodes, Ended, Written
  <2>2. Recorded' = Recorded
    BY <2>1 DEF Recorded
  <2> QED BY <2>1, <2>2 DEF Listed
<1>2. CASE Wait \/ UNCHANGED vars
  <2>1. UNCHANGED <<outputs, cut, phase, manifest>>
    BY <1>2 DEF Wait, vars, nodes
  <2> QED BY <2>1 DEF Listed, Recorded
<1>3. CASE Stop \/ Unwind \/ Launch \/ \E n \in Node : Read(n)
  <2>1. phase \notin Ended /\ phase' \notin Ended /\ manifest' = manifest
    BY <1>3 DEF Stop, Unwind, Launch, Read, Ended
  <2> QED BY <2>1 DEF Listed
<1>4. ASSUME NEW n \in Node, Step(n) PROVE Listed'
  <2>1. task[n] \in Alive /\ phase' = phase /\ manifest' = manifest
    BY <1>4 DEF Step, Begin, Plan, Call, Answer, Cleanup, Alive
  <2>2. phase \notin Ended
    BY <2>1 DEF Sched, Reads
  <2> QED BY <2>1, <2>2 DEF Listed
<1> QED BY <1>1, <1>2, <1>3, <1>4 DEF Next, Loop

\* What the types say of the numbers.
LEMMA CountsTyped ==
  ASSUME Sched
  PROVE  /\ ToSet(ready) \subseteq Node /\ Len(ready) = Cardinality(ToSet(ready))
         /\ \A n \in Node : remaining[n] \in 0..EdgesInto(edges, n)
<1> USE DEF Sched
<1>1. Len(ready) \in Nat /\ DOMAIN ready = 1..Len(ready) /\ ready \in [1..Len(ready) -> ToSet(ready)]
  BY LenProperties DEF Types, ToSet
<1>2. ToSet(ready) \subseteq Node
  BY LenProperties, ElementOfSeq DEF Types, ToSet
<1>3. ready \in Bijection(1..Len(ready), ToSet(ready))
  <2>1. ready \in Surjection(1..Len(ready), ToSet(ready))
    BY <1>1 DEF Surjection, ToSet
  <2>2. ready \in Injection(1..Len(ready), ToSet(ready))
    BY <1>1 DEF Injection, IsInjective, Queued
  <2> QED BY <2>1, <2>2 DEF Bijection
<1>4. Len(ready) = Cardinality(ToSet(ready))
  <2>1. IsFiniteSet(1..Len(ready)) /\ Cardinality(1..Len(ready)) = Len(ready)
    BY <1>1, FS_Interval
  <2> QED BY <1>3, <2>1, FS_Bijection DEF ExistsBijection
<1>5. ASSUME NEW n \in Node PROVE remaining[n] \in 0..EdgesInto(edges, n)
  <2> DEFINE into == {e \in edges : e[3] = n}
  <2>1. IsFiniteSet(edges) /\ into \in SUBSET edges /\ Owed(n) \in SUBSET into
    BY GraphFacts DEF Types, Owed
  <2> HIDE DEF into
  <2>2. IsFiniteSet(into) /\ Cardinality(into) \in Nat
    BY <2>1, FS_Subset, FS_CardinalityType
  <2>3. Cardinality(Owed(n)) <= Cardinality(into)
    BY <2>1, <2>2, FS_Subset
  <2>4. remaining[n] = Cardinality(Owed(n)) /\ remaining[n] \in Nat
    BY DEF Counted, Types
  <2>5. EdgesInto(edges, n) = Cardinality(into)
    BY DEF EdgesInto, into
  <2> QED BY <2>2, <2>3, <2>4, <2>5
<1> QED BY <1>2, <1>4, <1>5

\* The type invariant: the queue has no node twice, a node runs one handler at a time, in a
\* context it has neither recorded nor skipped, and no fan-out passes batch_size_cap.
THEOREM TypeCorrect == Spec => []TypeOK
<1>1. Sched /\ Works /\ Listed => TypeOK
  <2> SUFFICES ASSUME Sched, Works, Listed PROVE TypeOK
    OBVIOUS
  <2>1. ASSUME NEW n \in Node
        PROVE  /\ remaining[n] \in 0..EdgesInto(edges, n)
               /\ task[n] \in Alive \cup Over \cup {"none"}
               /\ Cardinality(now[n]) <= 1 /\ now[n] \cap todo[n] = {}
               /\ (todo[n] \cup now[n]) \cap (DOMAIN outputs[n] \cup skipped[n]) = {}
               /\ DOMAIN outputs[n] \cap skipped[n] = {}
               /\ \A c \in DOMAIN outputs[n] : outputs[n][c] \subseteq (IF n \in Gate THEN Port ELSE {})
    <3>1. remaining[n] \in 0..EdgesInto(edges, n)
      BY CountsTyped
    <3>2. task[n] \in Alive \cup Over \cup {"none"}
      BY DEF Sched, Types
    <3>3. WorkOf(n)
      BY DEF Works
    <3>4. Cardinality(now[n]) <= 1
      <4>1. Cardinality({}) = 0 /\ \A c : Cardinality({c}) = 1
        BY FS_EmptySet, FS_Singleton
      <4>2. now[n] = {} \/ \E c \in Ctx : now[n] = {c}
        BY <3>3 DEF WorkOf
      <4> QED BY <4>1, <4>2
    <3> QED BY <3>1, <3>2, <3>3, <3>4 DEF WorkOf
  <2>2. \A n \in FanOut : Cardinality(DOMAIN outputs[n]) <= Cap
    BY GraphAssumption DEF Works, WorkOf
  <2>3. /\ graph \in Graphs /\ done \subseteq Node /\ read \subseteq Node /\ cut \in BOOLEAN
        /\ phase \in {"loop", "stopping", "unwinding"} \cup Ended /\ stops \in 0..MaxStops
    BY DEF Sched, Types
  <2>4. done \cap read = {}
    BY DEF Sched, Reads
  <2>5. manifest \subseteq Recorded
    BY DEF Listed
  <2>6. ToSet(ready) \subseteq Node /\ Len(ready) = Cardinality(ToSet(ready))
    BY CountsTyped
  <2> QED BY <2>1, <2>2, <2>3, <2>4, <2>5, <2>6 DEF TypeOK
<1>2. Init => Listed
  BY DEF Init, Listed, Ended
<1>3. Spec => []Listed
  BY <1>2, ListedNext, SchedAlways, PTL DEF Spec
<1> QED BY <1>1, <1>3, WorksAlways, PTL

\* A run that ended has no node in flight, and its manifest lists all that was recorded
\* unless a second Stop interrupted the cleanup (the finally of _execute_graph).
THEOREM EndIsSettledAlways == Spec => []EndIsSettled
<1>1. Sched /\ Listed => EndIsSettled
  BY DEF Sched, Reads, Listed, EndIsSettled
<1>2. Init => Listed
  BY DEF Init, Listed, Ended
<1> QED BY <1>1, <1>2, ListedNext, SchedAlways, PTL DEF Spec

-----------------------------------------------------------------------------
(* Gates. *)

\* What a node that began leaves to its children: each is one of its contexts, or an item
\* of one that is not held back.
LEMMA SeenOf ==
  ASSUME Sched, Works, NEW n \in Node, Began(n), NEW c \in Seen(n)
  PROVE  /\ c \in Ctx
         /\ \/ c \in Contexts(n)
            \/ n \in FanOut /\ c \notin skipped[n]
               /\ \E b \in Contexts(n) : b \in Ctx /\ Item(n, b, c) /\ ~HeldBack(n, b)
<1>1. c \in Ctx /\ Contexts(n) \subseteq Ctx
  BY ContextsTyped DEF Sched
<1>2. PlacedOf(n) /\ WorkOf(n)
  BY DEF Works
<1>3. CASE c \in skipped[n]
  BY <1>1, <1>2, <1>3 DEF PlacedOf
<1>4. CASE c \in DOMAIN outputs[n] /\ n \notin FanOut
  BY <1>1, <1>2, <1>4 DEF PlacedOf, Runs
<1>5. CASE c \in DOMAIN outputs[n] /\ n \in FanOut
  <2>1. c \notin skipped[n]
    BY <1>2, <1>5 DEF WorkOf
  <2>2. \E b \in Contexts(n) : Item(n, b, c) /\ ~HeldBack(n, b)
    BY <1>2, <1>5 DEF PlacedOf
  <2> QED BY <1>1, <1>5, <2>1, <2>2
<1> QED BY <1>3, <1>4, <1>5 DEF Seen

\* An item continues its context, and whatever leads to it leads to the context.
LEMMA ItemFacts ==
  ASSUME NEW n \in Node, NEW b \in Ctx, NEW c \in Ctx, Item(n, b, c), NEW k \in Ctx
  PROVE  IsPrefix(b, c) /\ b # c /\ (IsPrefix(k, c) => k = c \/ IsPrefix(k, b))
<1>1. PICK i \in Nat : c = Append(b, <<n, i>>)
  BY DEF Item
<1> QED BY <1>1, PrefixOfItem

\* They too are an antichain.
LEMMA SeenApart ==
  ASSUME Sched, Works, NEW n \in Node, Began(n), NEW c \in Seen(n), NEW d \in Seen(n), IsPrefix(c, d)
  PROVE  c = d
<1>1. Types /\ PlacedOf(n)
  BY DEF Sched, Works
<1>2. c \in Ctx /\ d \in Ctx /\ Contexts(n) \subseteq Ctx
  BY <1>1, SeenOf, ContextsTyped
<1>3. CASE c \in Contexts(n) /\ d \in Contexts(n)
  BY <1>1, <1>3, ContextsApart
<1>4. ASSUME c \in Contexts(n), d \notin Contexts(n), c # d PROVE FALSE
  <2>1. PICK b \in Contexts(n) : b \in Ctx /\ Item(n, b, d) /\ ~HeldBack(n, b)
    BY <1>4, SeenOf
  <2>2. IsPrefix(c, b)
    BY <1>2, <1>4, <2>1, ItemFacts
  <2>3. c = b
    BY <1>1, <1>4, <2>1, <2>2, ContextsApart
  <2>4. n \in FanOut /\ c \notin skipped[n]
    <3>1. n \in FanOut
      BY <1>4, SeenOf
    <3>2. ~HeldBack(n, c)
      BY <2>1, <2>3
    <3> QED BY <1>1, <3>1, <3>2 DEF PlacedOf
  <2>5. PICK x \in Contexts(n) : x \in Ctx /\ Item(n, x, c)
    <3>1. c \in DOMAIN outputs[n]
      BY <2>4 DEF Seen
    <3> QED BY <1>1, <1>2, <2>4, <3>1 DEF PlacedOf
  <2>6. IsPrefix(x, c) /\ x # c
    BY <1>2, <2>5, ItemFacts
  <2> QED BY <1>1, <1>4, <2>5, <2>6, ContextsApart
<1>5. ASSUME c \notin Contexts(n), d \in Contexts(n), c # d PROVE FALSE
  <2>1. PICK b \in Contexts(n) : b \in Ctx /\ Item(n, b, c)
    BY <1>5, SeenOf
  <2>2. IsPrefix(b, c) /\ b # c
    BY <1>2, <2>1, ItemFacts
  <2>3. IsPrefix(b, d)
    BY <1>2, <2>1, <2>2, PrefixOrder
  <2>4. b = d
    BY <1>1, <1>5, <2>1, <2>3, ContextsApart
  <2> QED BY <1>2, <2>2, <2>4, PrefixOrder
<1>6. ASSUME c \notin Contexts(n), d \notin Contexts(n), c # d PROVE FALSE
  <2>1. PICK x \in Contexts(n) : x \in Ctx /\ Item(n, x, c)
    BY <1>6, SeenOf
  <2>2. PICK y \in Contexts(n) : y \in Ctx /\ Item(n, y, d)
    BY <1>6, SeenOf
  <2>3. IsPrefix(x, c) /\ x # c /\ IsPrefix(c, y)
    BY <1>2, <1>6, <2>1, <2>2, ItemFacts
  <2>4. IsPrefix(x, y)
    BY <1>2, <2>1, <2>2, <2>3, PrefixOrder
  <2>5. x = y
    BY <1>1, <2>1, <2>2, <2>4, ContextsApart
  <2> QED BY <1>2, <2>1, <2>3, <2>5, PrefixOrder
<1> QED BY <1>3, <1>4, <1>5, <1>6

\* So one context of a node at most leads to a given context below it.
LEMMA OnlyPrefix ==
  ASSUME Sched, Works, NEW p \in Node, Began(p), NEW k \in Seen(p), NEW c \in Ctx, IsPrefix(k, c)
  PROVE  Closest(k, p, c) /\ \A j \in Seen(p) : IsPrefix(j, c) => j = k
<1>1. ASSUME NEW j \in Seen(p), IsPrefix(j, c) PROVE j = k
  <2>1. j \in Ctx /\ k \in Ctx
    BY SeenOf
  <2>2. IsPrefix(j, k) \/ IsPrefix(k, j)
    BY <1>1, <2>1, PrefixOrder
  <2> QED BY <2>2, SeenApart
<1>2. k \in Ctx /\ Len(k) \in Nat
  BY SeenOf, LenProperties DEF Ctx
<1>3. \A j \in Seen(p) : IsPrefix(j, c) => Len(j) <= Len(k)
  BY <1>1, <1>2
<1> QED BY <1>1, <1>3 DEF Closest

\* What a node runs in continues a context of every node above it.
LEMMA Covered ==
  ASSUME Sched, Works, NEW n \in Node, task[n] # "none", NEW a \in Above(edges, n)
  PROVE  /\ \A c \in Contexts(n) : \E k \in Seen(a) : IsPrefix(k, c)
         /\ Began(n) => \A c \in Seen(n) : \E k \in Seen(a) : IsPrefix(k, c)
<1> DEFINE S == {m \in Above(edges, n) : \A c \in Contexts(n) : \E k \in Seen(m) : IsPrefix(k, c)}
<1>1. /\ graph \in Graphs /\ Above(edges, n) \subseteq Node /\ Contexts(n) \subseteq Ctx
      /\ \A m \in Above(edges, n) : m \in Node /\ task[m] # "none" /\ Began(m)
  BY StartedFacts, ContextsTyped DEF Sched, Types, Began
<1>2. ASSUME NEW m \in Node, NEW c \in Contexts(m), NEW p \in Parents(edges, m)
      PROVE  \E k \in Seen(p) : IsPrefix(k, c)
  BY <1>2 DEF Contexts
<1>3. Parents(edges, n) \subseteq S
  BY <1>1, <1>2, AboveFacts
<1>4. ASSUME NEW m \in S, NEW p \in Parents(edges, m) PROVE p \in S
  <2>1. p \in Above(edges, n) /\ m \in Above(edges, n)
    BY <1>1, <1>4, AboveFacts
  <2>2. ASSUME NEW c \in Contexts(n) PROVE \E k \in Seen(p) : IsPrefix(k, c)
    <3>1. PICK k \in Seen(m) : IsPrefix(k, c)
      BY <1>4, <2>2
    <3>2. k \in Ctx /\ \E b \in Contexts(m) : b \in Ctx /\ IsPrefix(b, k)
      <4>1. k \in Ctx /\ Contexts(m) \subseteq Ctx
        BY <1>1, <2>1, SeenOf, ContextsTyped DEF Sched
      <4>2. CASE k \in Contexts(m)
        BY <4>1, <4>2, PrefixOrder
      <4>3. CASE k \notin Contexts(m)
        BY <1>1, <2>1, <4>1, <4>3, SeenOf, ItemFacts
      <4> QED BY <4>1, <4>2, <4>3
    <3>3. PICK b \in Contexts(m) : b \in Ctx /\ IsPrefix(b, k)
      BY <3>2
    <3>4. PICK j \in Seen(p) : IsPrefix(j, b)
      BY <1>1, <1>2, <2>1, <3>3
    <3>5. j \in Ctx /\ c \in Ctx
      BY <1>1, <2>1, SeenOf
    <3>6. IsPrefix(j, c)
      BY <3>1, <3>2, <3>3, <3>4, <3>5, PrefixOrder
    <3> QED BY <3>6
  <2> QED BY <2>1, <2>2
<1>5. a \in S
  <2> HIDE DEF S
  <2>1. S \in SUBSET Node
    BY <1>1 DEF S
  <2> QED BY <1>1, <1>3, <1>4, <2>1, AboveFacts
<1>6. ASSUME Began(n), NEW c \in Seen(n) PROVE \E k \in Seen(a) : IsPrefix(k, c)
  <2>1. CASE c \in Contexts(n)
    BY <1>5, <2>1
  <2>2. CASE c \notin Contexts(n)
    <3>1. c \in Ctx
      BY <1>6, SeenOf
    <3>2. PICK b \in Contexts(n) : b \in Ctx /\ Item(n, b, c)
      BY <1>6, <2>2, SeenOf
    <3>3. IsPrefix(b, c)
      BY <3>1, <3>2, ItemFacts
    <3>4. PICK k \in Seen(a) : IsPrefix(k, b)
      BY <1>5, <3>2
    <3>5. k \in Ctx
      BY <1>1, SeenOf
    <3> QED BY <3>1, <3>2, <3>3, <3>4, <3>5, PrefixOrder
  <2> QED BY <2>1, <2>2
<1> QED BY <1>5, <1>6

\* A node is held back in a context exactly if a gate above it closed the way.
GateOf(n) == \A c \in Contexts(n) : HeldBack(n, c) <=> ClosedAbove(n, c)

\* What is closed above a node is closed above a node below it.
LEMMA ClosedBelow ==
  ASSUME Sched, Works, NEW n \in Node, task[n] # "none", NEW p \in Parents(edges, n),
         NEW k \in Seen(p), NEW c \in Ctx, IsPrefix(k, c), ClosedAbove(p, k)
  PROVE  ClosedAbove(n, c)
<1>1. /\ graph \in Graphs /\ p \in Node /\ p \in Above(edges, n) /\ Above(edges, p) \subseteq Above(edges, n)
      /\ \A m \in Above(edges, n) : m \in Node /\ Began(m)
  BY StartedFacts, AboveFacts, AboveOrder DEF Sched, Types, Began
<1>2. PICK e \in edges : /\ e[3] \in Above(edges, p) \cup {p}
                         /\ \E j \in DOMAIN outputs[e[1]] : e[2] \in outputs[e[1]][j] /\ IsPrefix(j, k)
  BY DEF ClosedAbove
<1>3. PICK j \in DOMAIN outputs[e[1]] : e[2] \in outputs[e[1]][j] /\ IsPrefix(j, k)
  BY <1>2
<1>4. e[1] \in Above(edges, n)
  <2>1. e[3] \in Above(edges, n) /\ e[1] \in Parents(edges, e[3])
    BY <1>1, <1>2 DEF Parents
  <2> QED BY <1>1, <2>1, AboveFacts
<1>5. j \in Ctx /\ k \in Ctx
  BY <1>1, <1>3, <1>4, SeenOf DEF Seen
<1>6. IsPrefix(j, c)
  BY <1>3, <1>5, PrefixOrder
<1> QED BY <1>1, <1>2, <1>3, <1>6 DEF ClosedAbove

\* One node, when it holds of the nodes that feed it.
LEMMA GateStep ==
  ASSUME Sched, Works, NEW n \in Node, task[n] # "none", \A p \in Parents(edges, n) : GateOf(p)
  PROVE  GateOf(n)
<1>1. /\ graph \in Graphs /\ Contexts(n) \subseteq Ctx /\ Parents(edges, n) \subseteq Above(edges, n)
      /\ \A m \in Above(edges, n) : m \in Node /\ Began(m) /\ task[m] # "none" /\ PlacedOf(m)
  BY StartedFacts, AboveFacts, ContextsTyped DEF Sched, Types, Began, Works
<1>2. ASSUME NEW p \in Parents(edges, n), NEW k \in skipped[p] PROVE ClosedAbove(p, k)
  BY <1>1, <1>2 DEF PlacedOf, GateOf
<1>3. ASSUME NEW c \in Contexts(n), HeldBack(n, c) PROVE ClosedAbove(n, c)
  <2>1. PICK e \in edges : e[3] = n /\ \E k \in Seen(e[1]) :
          Closest(k, e[1], c) /\ (k \in skipped[e[1]] \/ e[2] \in outputs[e[1]][k])
    BY <1>3 DEF HeldBack
  <2>2. PICK k \in Seen(e[1]) : IsPrefix(k, c) /\ (k \in skipped[e[1]] \/ e[2] \in outputs[e[1]][k])
    BY <2>1 DEF Closest
  <2>3. e[1] \in Parents(edges, n) /\ c \in Ctx
    BY <1>1, <2>1 DEF Parents
  <2>4. CASE k \in skipped[e[1]]
    BY <1>2, <2>2, <2>3, <2>4, ClosedBelow
  <2>5. CASE k \notin skipped[e[1]]
    <3>1. k \in DOMAIN outputs[e[1]] /\ e[2] \in outputs[e[1]][k]
      BY <2>2, <2>5 DEF Seen
    <3> QED BY <2>1, <2>2, <3>1 DEF ClosedAbove
  <2> QED BY <2>4, <2>5
<1>4. ASSUME NEW c \in Contexts(n), ClosedAbove(n, c) PROVE HeldBack(n, c)
  <2>1. PICK e \in edges : /\ e[3] \in Above(edges, n) \cup {n}
                           /\ \E k \in DOMAIN outputs[e[1]] : e[2] \in outputs[e[1]][k] /\ IsPrefix(k, c)
    BY <1>4 DEF ClosedAbove
  <2>2. PICK k \in DOMAIN outputs[e[1]] : e[2] \in outputs[e[1]][k] /\ IsPrefix(k, c)
    BY <2>1
  <2>3. c \in Ctx /\ e[1] \in Parents(edges, e[3]) /\ e[1] \in Above(edges, n)
    <3>1. e[1] \in Parents(edges, e[3]) /\ c \in Ctx
      BY <1>1 DEF Parents
    <3> QED BY <1>1, <2>1, <3>1, AboveFacts
  <2>4. k \in Seen(e[1]) /\ k \in Ctx /\ Began(e[1]) /\ e[1] \in Node
    BY <1>1, <2>2, <2>3, SeenOf DEF Seen
  <2>5. CASE e[3] = n
    BY <2>2, <2>3, <2>4, <2>5, OnlyPrefix DEF HeldBack
  <2>6. CASE e[3] # n
    <3>1. e[3] \in Above(edges, n) /\ \E p \in Parents(edges, n) : e[3] = p \/ e[3] \in Above(edges, p)
      BY <1>1, <2>1, <2>6, AboveOrder
    <3>2. PICK p \in Parents(edges, n) : e[3] = p \/ e[3] \in Above(edges, p)
      BY <3>1
    <3>3. /\ p \in Node /\ p \in Above(edges, n) /\ Began(p) /\ task[p] # "none"
          /\ e[1] \in Above(edges, p)
      BY <1>1, <2>3, <3>2, AboveFacts
    <3>4. PICK j \in Seen(p) : IsPrefix(j, c)
      BY <3>3, Covered
    <3>5. j \in Ctx
      BY <3>3, SeenOf
    <3>6. IsPrefix(k, j)
      <4>1. PICK i \in Seen(e[1]) : IsPrefix(i, j)
        BY <3>3, Covered
      <4>2. i \in Ctx
        BY <2>4, SeenOf
      <4>3. IsPrefix(i, c)
        BY <2>3, <3>4, <3>5, <4>1, <4>2, PrefixOrder
      <4>4. i = k
        BY <2>2, <2>3, <2>4, <4>3, OnlyPrefix
      <4> QED BY <4>1, <4>4
    <3>7. ClosedAbove(p, j)
      BY <2>2, <3>2, <3>6 DEF ClosedAbove
    <3>8. j \in skipped[p]
      <4>1. CASE j \in Contexts(p)
        <5>1. HeldBack(p, j)
          BY <3>7, <4>1 DEF GateOf
        <5>2. CASE p \notin FanOut
          BY <1>1, <3>3, <3>4, <5>1, <5>2 DEF PlacedOf, Runs, Seen
        <5>3. CASE p \in FanOut
          <6>1. ASSUME j \in DOMAIN outputs[p] PROVE FALSE
            <7>1. PICK b \in Contexts(p) : Item(p, b, j)
              BY <1>1, <3>3, <5>3, <6>1 DEF PlacedOf
            <7>2. b \in Ctx /\ Types
              BY <3>3, ContextsTyped DEF Sched
            <7>3. IsPrefix(b, j) /\ b # j
              BY <3>3, <3>5, <7>1, <7>2, ItemFacts
            <7> QED BY <3>3, <4>1, <7>1, <7>2, <7>3, ContextsApart
          <6> QED BY <3>4, <6>1 DEF Seen
        <5> QED BY <5>2, <5>3
      <4>2. CASE j \notin Contexts(p)
        <5>1. PICK b \in Contexts(p) : b \in Ctx /\ Item(p, b, j) /\ ~HeldBack(p, b)
          BY <3>3, <3>4, <4>2, SeenOf
        <5>2. PICK i \in Seen(e[1]) : IsPrefix(i, b)
          BY <3>3, <5>1, Covered
        <5>3. i \in Ctx /\ IsPrefix(b, j)
          BY <2>4, <3>3, <3>5, <5>1, <5>2, SeenOf, ItemFacts
        <5>4. IsPrefix(i, j)
          BY <3>5, <5>1, <5>2, <5>3, PrefixOrder
        <5>5. i = k
          BY <2>4, <3>5, <3>6, <5>4, OnlyPrefix
        <5>6. ClosedAbove(p, b)
          BY <2>2, <3>2, <5>2, <5>5 DEF ClosedAbove
        <5> QED BY <5>1, <5>6 DEF GateOf
      <4> QED BY <4>1, <4>2
    <3>9. \E d \in edges : d[3] = n /\ d[1] = p
      BY <3>2 DEF Parents
    <3>10. Closest(j, p, c)
      BY <2>3, <3>3, <3>4, OnlyPrefix
    <3> QED BY <3>4, <3>8, <3>9, <3>10 DEF HeldBack
  <2> QED BY <2>5, <2>6
<1> QED BY <1>3, <1>4 DEF GateOf

\* Down the whole graph, from the first node for which it would fail.
LEMMA GateHolds == ASSUME Sched, Works, NEW n \in Node, task[n] # "none" PROVE GateOf(n)
<1> DEFINE S == {m \in Above(edges, n) \cup {n} : ~GateOf(m)}
<1>1. /\ graph \in Graphs /\ Above(edges, n) \subseteq ToSet(graph.order)
      /\ \A m \in Above(edges, n) \cup {n} : m \in Node /\ task[m] # "none"
  BY StartedFacts, AboveOrder DEF Sched, Types, Before, ToSet
<1>2. CASE Parents(edges, n) = {}
  BY <1>2, GateStep
<1>3. CASE Parents(edges, n) # {}
  <2>1. n \in ToSet(graph.order)
    <3>1. PICK p \in Parents(edges, n) : TRUE
      BY <1>3
    <3>2. Before(p, n)
      BY <1>1, AboveFacts, AboveOrder
    <3> QED BY <3>2 DEF Before, ToSet
  <2> SUFFICES ASSUME S # {} PROVE FALSE
    OBVIOUS
  <2>2. PICK m \in S : \A k \in S : ~Before(k, m)
    <3>1. S \subseteq ToSet(graph.order)
      BY <1>1, <2>1
    <3> HIDE DEF S
    <3> QED BY <1>1, <3>1, Extremes
  <2>3. ASSUME NEW p \in Parents(edges, m) PROVE GateOf(p)
    <3>1. m \in Node /\ p \in Above(edges, m) /\ p \in Above(edges, n)
      BY <1>1, <2>2, <2>3, AboveFacts
    <3>2. Before(p, m)
      BY <1>1, <3>1, AboveOrder
    <3> QED BY <2>2, <3>1, <3>2
  <2> QED BY <1>1, <2>2, <2>3, GateStep
<1> QED BY <1>2, <1>3

\* A node is skipped in exactly the contexts for which a gate above it closed the way.
THEOREM SkippedExactlyAlways == Spec => []SkippedExactly
<1>1. Sched /\ Works => SkippedExactly
  <2> SUFFICES ASSUME Sched, Works, NEW n \in Node, task[n] = "ok"
               PROVE  /\ \A c \in skipped[n] : ClosedAbove(n, c)
                      /\ \A c \in DOMAIN outputs[n] : ~ClosedAbove(n, c)
    BY DEF SkippedExactly
  <2>1. GateOf(n) /\ PlacedOf(n) /\ Began(n) /\ task[n] # "none" /\ graph \in Graphs
    BY GateHolds DEF Works, Began, Sched, Types
  <2>2. \A c \in skipped[n] : ClosedAbove(n, c)
    BY <2>1 DEF PlacedOf, GateOf
  <2>3. ASSUME NEW c \in DOMAIN outputs[n], ClosedAbove(n, c) PROVE FALSE
    <3>1. CASE n \notin FanOut
      BY <2>1, <2>3, <3>1 DEF PlacedOf, GateOf, Runs
    <3>2. CASE n \in FanOut
      <4>1. PICK b \in Contexts(n) : Item(n, b, c) /\ ~HeldBack(n, b)
        BY <2>1, <2>3, <3>2 DEF PlacedOf
      <4>2. b \in Ctx /\ c \in Ctx
        BY <2>1, <2>3, <4>1, SeenOf, ContextsTyped DEF Seen, Sched
      <4>3. PICK e \in edges : /\ e[3] \in Above(edges, n) \cup {n}
                               /\ \E k \in DOMAIN outputs[e[1]] : e[2] \in outputs[e[1]][k] /\ IsPrefix(k, c)
        BY <2>3 DEF ClosedAbove
      <4>4. PICK k \in DOMAIN outputs[e[1]] : e[2] \in outputs[e[1]][k] /\ IsPrefix(k, c)
        BY <4>3
      <4>5. e[1] \in Above(edges, n)
        <5>1. e[1] \in Parents(edges, e[3])
          BY DEF Parents
        <5> QED BY <2>1, <4>3, <5>1, AboveFacts
      <4>6. e[1] \in Node /\ Began(e[1])
        BY <2>1, <4>5, StartedFacts DEF Sched, Began
      <4>7. PICK i \in Seen(e[1]) : IsPrefix(i, b)
        BY <2>1, <4>1, <4>5, Covered
      <4>8. i = k
        <5>1. i \in Ctx /\ k \in Seen(e[1]) /\ IsPrefix(b, c)
          BY <4>1, <4>2, <4>4, <4>6, <4>7, SeenOf, ItemFacts DEF Seen
        <5>2. IsPrefix(i, c)
          BY <4>2, <4>7, <5>1, PrefixOrder
        <5> QED BY <4>2, <4>4, <4>6, <5>1, <5>2, OnlyPrefix
      <4>9. ClosedAbove(n, b)
        BY <4>3, <4>4, <4>7, <4>8 DEF ClosedAbove
      <4> QED BY <2>1, <4>1, <4>9 DEF GateOf
    <3> QED BY <3>1, <3>2
  <2> QED BY <2>2, <2>3
<1> QED BY <1>1, WorksAlways, PTL

-----------------------------------------------------------------------------
(* Items. *)

\* No step changes the graph.
LEMMA JoinableAlways == Spec => []Joinable(edges)
<1>1. Init => Joinable(edges)
  BY DEF Init, edges
<1>2. Sched /\ Joinable(edges) /\ [Next]_vars => Joinable(edges)'
  <2> SUFFICES ASSUME Sched, Joinable(edges), [Next]_vars PROVE Joinable(edges)'
    OBVIOUS
  <2>1. edges' = edges
    BY Frozen
  <2> QED BY <2>1
<1> QED BY <1>1, <1>2, SchedAlways, PTL DEF Spec

\* The nearest fan-out above a node is the last of them.
LEMMA NearestFacts ==
  ASSUME graph \in Graphs, Joinable(edges), NEW n \in Node, Axes(edges, n) # {}
  PROVE  /\ Nearest(n) \in Axes(edges, n) /\ Axes(edges, n) \ {Nearest(n)} \subseteq Axes(edges, Nearest(n))
         /\ \A a \in Axes(edges, n) : Axes(edges, n) \ {a} \subseteq Axes(edges, a) => a = Nearest(n)
<1>1. Axes(edges, n) \subseteq ToSet(graph.order) /\ Axes(edges, n) \subseteq Node
  BY AboveFacts, AboveOrder DEF Axes, Before, ToSet
<1>2. PICK a \in Axes(edges, n) : \A b \in Axes(edges, n) : b = a \/ Before(b, a)
  BY <1>1, Extremes
<1>3. \A l, m \in Axes(edges, n) : l \in Axes(edges, m) => Before(l, m)
  BY <1>1, AboveOrder DEF Axes
<1>4. ASSUME NEW b \in Axes(edges, n), b # a PROVE b \in Axes(edges, a)
  <2>1. ~Before(a, b)
    BY <1>2, <1>4, BeforeFacts
  <2> QED BY <1>3, <1>4, <2>1 DEF Joinable
<1>5. Nearest(n) \in Axes(edges, n) /\ Axes(edges, n) \ {Nearest(n)} \subseteq Axes(edges, Nearest(n))
  BY <1>4 DEF Nearest
<1>6. ASSUME NEW b \in Axes(edges, n), Axes(edges, n) \ {b} \subseteq Axes(edges, b), b # Nearest(n)
      PROVE  FALSE
  <2>1. Before(b, Nearest(n)) /\ Before(Nearest(n), b)
    BY <1>3, <1>5, <1>6
  <2> QED BY <2>1, BeforeFacts
<1> QED BY <1>5, <1>6

\* What a node without a fan-out leaves is its contexts.
LEMMA SeenAll ==
  ASSUME Sched, Works, NEW n \in Node, n \notin FanOut, task[n] = "ok"
  PROVE  Seen(n) = Contexts(n)
<1>1. WorkOf(n) /\ PlacedOf(n) /\ Began(n)
  BY DEF Works, Began
<1>2. Runs(n) = DOMAIN outputs[n]
  BY <1>1 DEF WorkOf, Runs
<1> QED BY <1>1, <1>2 DEF PlacedOf, Seen

\* The contexts of a node are the items of its nearest fan-out.
ItemsOf(n) == Contexts(n) = Items(n)

\* Joining siblings on their items: if one parent has the contexts X, every parent has a
\* prefix of each, and each context of a parent continues or leads to one of them, these
\* are the contexts of the node.
LEMMA JoinFacts ==
  ASSUME Sched, Works, NEW n \in Node, task[n] # "none",
         NEW X \in SUBSET Ctx, \A c, d \in X : IsPrefix(c, d) => c = d,
         \E p \in Parents(edges, n) : Seen(p) = X,
         \A q \in Parents(edges, n) : \A c \in X : \E k \in Seen(q) : IsPrefix(k, c)
  PROVE  Contexts(n) = X
<1>1. \A q \in Parents(edges, n) : q \in Node /\ Began(q) /\ Seen(q) \subseteq Ctx
  BY StartedFacts, ContextsTyped DEF Passed, Began, Sched
<1>2. PICK p \in Parents(edges, n) : Seen(p) = X
  OBVIOUS
<1> DEFINE all == UNION {Seen(m) : m \in Parents(edges, n)}
<1>3. \A c : c \in Contexts(n) <=>
        /\ c \in all /\ ~ \E d \in all : IsStrictPrefix(c, d)
        /\ \A m \in Parents(edges, n) : \E k \in Seen(m) : IsPrefix(k, c)
  BY <1>2 DEF Contexts
<1>4. ASSUME NEW c \in X, NEW d \in all, IsPrefix(c, d) PROVE c = d
  <2>1. PICK q \in Parents(edges, n) : d \in Seen(q)
    OBVIOUS
  <2>2. PICK k \in Seen(q) : IsPrefix(k, c)
    BY <2>1
  <2>3. c \in Ctx /\ d \in Ctx /\ k \in Ctx
    BY <1>1, <2>1, <2>2
  <2>4. IsPrefix(k, d)
    BY <1>4, <2>2, <2>3, PrefixOrder
  <2>5. k = d
    BY <1>1, <2>1, <2>2, <2>4, SeenApart
  <2> QED BY <1>4, <2>2, <2>3, <2>5, PrefixOrder
<1>5. ASSUME NEW c \in X PROVE c \in Contexts(n)
  BY <1>2, <1>3, <1>4 DEF IsStrictPrefix
<1>6. ASSUME NEW c \in Contexts(n) PROVE c \in X
  <2>1. c \in all /\ \E k \in X : IsPrefix(k, c)
    BY <1>2, <1>3
  <2> QED BY <1>4, <2>1
<1> QED BY <1>5, <1>6

\* One node, when it holds of the nodes above it.
LEMMA ItemsStep ==
  ASSUME Sched, Works, Joinable(edges), NEW n \in Node, task[n] # "none",
         \A m \in Above(edges, n) : ItemsOf(m)
  PROVE  ItemsOf(n)
<1>1. /\ graph \in Graphs /\ Parents(edges, n) \subseteq Above(edges, n)
      /\ \A m \in Above(edges, n) : m \in Node /\ Began(m) /\ task[m] = "ok" /\ Seen(m) \subseteq Ctx
  BY StartedFacts, AboveFacts, ContextsTyped DEF Sched, Types, Began
<1>2. \A m \in Above(edges, n) : m \notin FanOut => Seen(m) = Items(m)
  BY <1>1, SeenAll DEF ItemsOf
<1>3. \A m \in Above(edges, n) : Above(edges, m) \subseteq Above(edges, n) /\ Before(m, n)
  BY <1>1, AboveOrder
<1>4. CASE Parents(edges, n) = {}
  <2>1. Axes(edges, n) = {}
    BY <1>1, <1>4, AboveOrder DEF Axes
  <2> QED BY <1>4, <2>1 DEF ItemsOf, Items, Contexts
<1>5. CASE Parents(edges, n) # {} /\ Axes(edges, n) = {}
  <2>1. \A p \in Parents(edges, n) : p \notin FanOut /\ Axes(edges, p) = {}
    BY <1>1, <1>3, <1>5 DEF Axes
  <2>2. \A p \in Parents(edges, n) : Seen(p) = {<<>>}
    BY <1>1, <1>2, <2>1 DEF Items
  <2>3. <<>> \in Ctx /\ IsPrefix(<<>>, <<>>)
    <3>1. <<>> \in Ctx
      BY EmptySeq DEF Ctx
    <3> QED BY <3>1, PrefixOrder
  <2>4. Contexts(n) = {<<>>}
    <3> DEFINE X == {<<>>}
    <3>1. X \in SUBSET Ctx /\ \A c, d \in X : c = d
      BY <2>3
    <3>2. \E p \in Parents(edges, n) : Seen(p) = X
      BY <1>5, <2>2
    <3>3. \A q \in Parents(edges, n) : \A c \in X : \E k \in Seen(q) : IsPrefix(k, c)
      BY <2>2, <2>3
    <3> HIDE DEF X
    <3>4. Contexts(n) = X
      BY <3>1, <3>2, <3>3, JoinFacts
    <3> QED BY <3>4 DEF X
  <2> QED BY <1>5, <2>4 DEF ItemsOf, Items
<1>6. CASE Axes(edges, n) # {}
  <2> DEFINE a == Nearest(n)
  <2>1. /\ a \in Axes(edges, n) /\ Axes(edges, n) \ {a} \subseteq Axes(edges, a)
        /\ a \in Above(edges, n) /\ a \in FanOut /\ a \in Node
    <3>1. a \in Axes(edges, n) /\ Axes(edges, n) \ {a} \subseteq Axes(edges, a)
      BY <1>1, <1>6, NearestFacts
    <3> QED BY <1>1, <3>1 DEF Axes
  <2> HIDE DEF a
  <2>2. \A b \in FanOut : b \in Above(edges, n) => b = a \/ b \in Above(edges, a)
    BY <2>1 DEF Axes
  <2>3. ASSUME NEW b, b = a \/ b \in Above(edges, a), NEW c \in Seen(a)
        PROVE  \E k \in Seen(b) : IsPrefix(k, c)
    <3>1. CASE b = a
      BY <1>1, <2>1, <2>3, <3>1, PrefixOrder
    <3>2. CASE b \in Above(edges, a)
      BY <1>1, <2>1, <2>3, <3>2, Covered
    <3> QED BY <2>3, <3>1, <3>2
  <2>4. ASSUME NEW q \in Parents(edges, n), NEW c \in Seen(a) PROVE \E k \in Seen(q) : IsPrefix(k, c)
    <3>1. q \in Above(edges, n) /\ q \in Node /\ c \in Ctx /\ Above(edges, q) \subseteq Above(edges, n)
      BY <1>1, <1>3, <2>1
    <3>2. CASE q \in FanOut
      BY <2>2, <2>3, <3>1, <3>2
    <3>3. CASE q \notin FanOut /\ Axes(edges, q) = {}
      <4>1. Seen(q) = {<<>>} /\ IsPrefix(<<>>, c)
        BY <1>2, <3>1, <3>3, PrefixOrder DEF Items
      <4> QED BY <4>1
    <3>4. CASE q \notin FanOut /\ Axes(edges, q) # {}
      <4>1. Seen(q) = Seen(Nearest(q))
        BY <1>2, <3>1, <3>4 DEF Items
      <4>2. Nearest(q) \in Axes(edges, q)
        BY <1>1, <3>1, <3>4, NearestFacts
      <4>3. Nearest(q) \in FanOut /\ Nearest(q) \in Above(edges, n)
        BY <3>1, <4>2 DEF Axes
      <4> QED BY <2>2, <2>3, <4>1, <4>3
    <3> QED BY <3>2, <3>3, <3>4
  <2>5. \E p \in Parents(edges, n) : Seen(p) = Seen(a)
    <3>1. PICK p \in Parents(edges, n) : a = p \/ a \in Above(edges, p)
      BY <1>1, <2>1, AboveOrder
    <3>2. CASE a # p
      <4>1. p \in Node /\ p \in Above(edges, n) /\ a \in Above(edges, p) /\ Before(a, p)
        BY <1>1, <3>1, <3>2, AboveOrder
      <4>2. p \notin FanOut
        <5>1. ASSUME p \in FanOut PROVE FALSE
          <6>1. p \in Above(edges, a)
            BY <2>2, <3>2, <4>1, <5>1
          <6>2. Before(p, a)
            BY <1>1, <2>1, <6>1, AboveOrder
          <6> QED BY <1>1, <4>1, <6>2, BeforeFacts
        <5> QED BY <5>1
      <4>3. a \in Axes(edges, p) /\ Axes(edges, p) \subseteq Axes(edges, n)
        BY <1>3, <2>1, <4>1 DEF Axes
      <4>4. a = Nearest(p)
        <5>1. Axes(edges, p) \ {a} \subseteq Axes(edges, a) /\ Axes(edges, p) # {}
          BY <2>1, <4>3
        <5> QED BY <1>1, <4>1, <4>3, <5>1, NearestFacts
      <4> QED BY <1>2, <4>1, <4>2, <4>3, <4>4 DEF Items
    <3> QED BY <3>1, <3>2
  <2>6. Contexts(n) = Seen(a)
    <3> DEFINE X == Seen(a)
    <3>1. X \in SUBSET Ctx
      BY <1>1, <2>1
    <3>2. \A c, d \in X : IsPrefix(c, d) => c = d
      BY <1>1, <2>1, SeenApart
    <3>3. \E p \in Parents(edges, n) : Seen(p) = X
      BY <2>5
    <3>4. \A q \in Parents(edges, n) : \A c \in X : \E k \in Seen(q) : IsPrefix(k, c)
      BY <2>4
    <3> HIDE DEF X
    <3>5. Contexts(n) = X
      BY <3>1, <3>2, <3>3, <3>4, JoinFacts
    <3> QED BY <3>5 DEF X
  <2> QED BY <1>6, <2>6 DEF ItemsOf, Items, a
<1> QED BY <1>4, <1>5, <1>6

\* Down the whole graph, from the first node for which it would fail.
LEMMA ItemsHold ==
  ASSUME Sched, Works, Joinable(edges), NEW n \in Node, task[n] # "none"
  PROVE  ItemsOf(n)
<1>1. /\ graph \in Graphs /\ Above(edges, n) \subseteq ToSet(graph.order)
      /\ \A m \in Above(edges, n) \cup {n} : m \in Node /\ task[m] # "none"
  BY StartedFacts, AboveOrder DEF Sched, Types, Before, ToSet
<1> DEFINE S == {m \in Above(edges, n) : ~ItemsOf(m)}
<1>2. S = {}
  <2> SUFFICES ASSUME S # {} PROVE FALSE
    OBVIOUS
  <2>1. PICK m \in S : \A k \in S : ~Before(k, m)
    <3>1. S \subseteq ToSet(graph.order)
      BY <1>1
    <3> HIDE DEF S
    <3> QED BY <1>1, <3>1, Extremes
  <2>2. m \in Node /\ task[m] # "none" /\ Above(edges, m) \subseteq Above(edges, n)
    BY <1>1, <2>1, AboveOrder
  <2>3. \A k \in Above(edges, m) : Before(k, m)
    BY <1>1, <2>2, AboveOrder
  <2>4. \A k \in Above(edges, m) : ItemsOf(k)
    BY <2>1, <2>2, <2>3
  <2> QED BY <2>1, <2>2, <2>4, ItemsStep
<1>3. \A m \in Above(edges, n) : ItemsOf(m)
  BY <1>2
<1> QED BY <1>3, ItemsStep

\* A node that succeeded ran, or was skipped, once for every item of the nearest fan-out
\* above it.
THEOREM RunsOncePerItemAlways == Spec => []RunsOncePerItem
<1>1. Sched /\ Works /\ Joinable(edges) => RunsOncePerItem
  <2> SUFFICES ASSUME Sched, Works, Joinable(edges), NEW n \in Node \ FanOut, task[n] = "ok"
               PROVE  Seen(n) = Items(n)
    BY DEF RunsOncePerItem
  <2>1. Contexts(n) = Items(n)
    BY ItemsHold DEF ItemsOf
  <2> QED BY <2>1, SeenAll
<1> QED BY <1>1, WorksAlways, JoinableAlways, PTL
=============================================================================

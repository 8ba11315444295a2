---------------------------- MODULE MCAgentSpend ----------------------------
(* Small sets of requests, keys and nodes for the runs of AgentSpend. *)
EXTENDS AgentSpend

CONSTANTS p1, p2, c1, c2, app, q1, q2, q3, q4, r1, r2, r3, a, clip, f

Prices == a :> 4 @@ clip :> 2 @@ f :> 0
OutPrices == a :> 4 @@ clip :> 2
Single == [n \in Node |-> 1]
Batch  == [n \in Node |-> IF n = clip THEN 2 ELSE 1]
Once   == [r \in Run |-> 1]
Shots  == r1 :> 2 @@ r2 :> 1
There  == [r \in Run |-> p1]
Apart  == r1 :> p1 @@ r2 :> p2

\* The outside agents: an app sends r1, another agent the same id again.
OutRunOf   == q1 :> r1 @@ q2 :> r1 @@ q3 :> r2
OutKeyOf   == q1 :> app @@ q2 :> Shared @@ q3 :> Shared
OutGraphOf == q1 :> {a, clip} @@ q2 :> {a} @@ q3 :> {clip}

\* Two chats: a shot with two variations of the one, its id sent again with a
\* batch, a batch of the other, its id sent again with nothing to pay.
ChatRunOf   == q1 :> r1 @@ q2 :> r2 @@ q3 :> r1 @@ q4 :> r2
ChatKeyOf   == q1 :> c1 @@ q2 :> c2 @@ q3 :> c1 @@ q4 :> c1
ChatGraphOf == q1 :> {a} @@ q2 :> {clip} @@ q3 :> {clip} @@ q4 :> {f}

\* The second request of r1 has no priced node.
FreeGraphOf == q1 :> {a} @@ q2 :> {f}
FreeRunOf   == q1 :> r1 @@ q2 :> r1
FreeKeyOf   == q1 :> Shared @@ q2 :> Shared

\* Two backends, a run each.
ApartGraphOf == q1 :> {a} @@ q2 :> {a}
ApartRunOf   == q1 :> r1 @@ q2 :> r2

\* A shot with two variations, alone.
ShotRunOf   == q1 :> r1
ShotKeyOf   == q1 :> Shared
ShotGraphOf == q1 :> {a, clip}
Twin        == r1 :> 2
=============================================================================

-------------------------- MODULE ParamSavesProofs --------------------------
(***************************************************************************)
(* What holds of ParamSaves for every number of settings, values, saves,   *)
(* syncs, replacements, restarts and failures.                             *)
(*                                                                         *)
(* "Types" types the state, "Booked" says what the books of the edit (its  *)
(* keys, generations and saves) are to each other; "Said", "Housed" and    *)
(* "Honest" then strengthen the three safety properties into inductive     *)
(* invariants.                                                             *)
(***************************************************************************)
EXTENDS ParamSaves, SequenceTheorems, FiniteSetTheorems, WellFoundedInduction, NaturalsInduction, TLAPS

Numbers == -Len(made)..Len(made)   \* what is written, and the backend's own forms of it
Places  == 0..Len(made)            \* the values
Part(N) == UNION {[S -> N] : S \in SUBSET Key}
States  == {"sent", "ok", "stale", "failed"}
Kinds   == {"edit", "clear", "import", "hello"}

Request(N) ==
  [id : Nat, edit : Nat, gen : Nat, since : Nat, keys : SUBSET Key, sent : Part(N), rev : Nat,
   graph : Nat, resent : BOOLEAN, state : States]
Message(N) ==
  [kind : Kinds, params : [Key -> N], rev : Nat, boot : Nat, canvas : Nat, shape : Nat, lost : BOOLEAN]
Card(N) ==
  [params : [Key -> N], rev : Nat, boot : Nat, canvas : Nat, shape : Nat, graph : Nat, edits : Nat,
   pushes : Nat]
Backend(N) ==
  [params : [Key -> N], rev : Nat, boot : Nat, canvas : Nat, shape : Nat, lost : BOOLEAN]
Edits(N) ==
  [id : Nat, keys : SUBSET Key, sent : Part(N), echoed : BOOLEAN, before : [Key -> N \cup {Absent}],
   answered : BOOLEAN]
Gens  == [edit : Nat, key : [Key -> Nat], push : Nat]
Maker == [who : {"person", "agent"}, key : Key, canvas : Nat, boot : Nat, graph : Nat]

Written ==
  /\ made \in Seq(Maker) /\ order \in Seq(SUBSET Places)
  /\ Cardinality(By("person")) <= MaxTyped /\ IsFiniteSet(By("person"))
  /\ Cardinality(By("agent")) <= MaxAgent /\ IsFiniteSet(By("agent"))
  /\ told \subseteq Places /\ cut \subseteq Places /\ late \subseteq Places
  /\ astray \subseteq Places \ {0} /\ unowned \subseteq Places /\ mislaid \subseteq Places

Types ==
  /\ nebula \in Backend(Numbers) /\ syncs \in Seq(Message(Numbers)) /\ socket \in BOOLEAN
  /\ tab \in Card(Numbers) /\ edit \in Edits(Numbers) /\ saved \in [Key -> Numbers \cup {Absent}]
  /\ gens \in Gens /\ timer \in BOOLEAN
  /\ parked \in [state : {"no", "kept", "due"}, saves : SUBSET Places]
  /\ requests \in SUBSET Request(Numbers)
  /\ bounds \in [gaps : Nat, fails : Nat]
  /\ Written

\* No more values are made than the person and an agent may make: they are numbers
\* below the mark of an unknown value.
LEMMA MadeFacts ==
  ASSUME Types
  PROVE  /\ Len(made) \in Nat /\ DOMAIN made = 1..Len(made) /\ Len(made) <= MaxTyped + MaxAgent
         /\ MaxTyped \in Nat /\ MaxAgent \in Nat
         /\ \A v \in DOMAIN made : made[v] \in Maker
<1>1. made \in Seq(Maker) /\ MaxTyped \in Nat /\ MaxAgent \in Nat
  BY ParamSavesAssumption DEF Types, Written
<1>2. Len(made) \in Nat /\ DOMAIN made = 1..Len(made) /\ \A v \in DOMAIN made : made[v] \in Maker
  BY <1>1, LenProperties, ElementOfSeq
<1>3. DOMAIN made = By("person") \cup By("agent")
  BY <1>2 DEF By, Maker
<1>4. By("person") \cap By("agent") = {}
  BY DEF By
<1>5. Cardinality(DOMAIN made) = Cardinality(By("person")) + Cardinality(By("agent"))
  <2>1. Cardinality(By("person") \cap By("agent")) = 0
    BY <1>4, FS_EmptySet
  <2>2. IsFiniteSet(By("person")) /\ IsFiniteSet(By("agent"))
    BY DEF Types, Written
  <2>3. Cardinality(By("person")) \in Nat /\ Cardinality(By("agent")) \in Nat
    BY <2>2, FS_CardinalityType
  <2>4. Cardinality(By("person") \cup By("agent"))
          = Cardinality(By("person")) + Cardinality(By("agent")) - Cardinality(By("person") \cap By("agent"))
    BY <2>2, FS_Union
  <2> QED BY <1>3, <2>1, <2>3, <2>4
<1>6. Cardinality(DOMAIN made) = Len(made)
  BY <1>2, FS_Interval
<1>7. /\ Cardinality(By("person")) <= MaxTyped /\ Cardinality(By("agent")) <= MaxAgent
      /\ Cardinality(By("person")) \in Nat /\ Cardinality(By("agent")) \in Nat
  BY FS_CardinalityType DEF Types, Written
<1>8. Len(made) <= MaxTyped + MaxAgent
  BY <1>1, <1>2, <1>5, <1>6, <1>7
<1> QED BY <1>1, <1>2, <1>8

\* Values are numbers, and with each the backend's own form of it.
LEMMA NumberFacts ==
  ASSUME Types
  PROVE  /\ 0 \in Numbers /\ 0 \in Places /\ Numbers \subseteq Int /\ Places \subseteq Nat
         /\ Numbers \subseteq Value /\ Absent \notin Numbers /\ Places \subseteq Numbers
         /\ \A v \in Numbers : Abs(v) \in Places /\ -Abs(v) \in Numbers
BY MadeFacts DEF Numbers, Places, Value, Absent, Abs

\* A part of the settings with their values.
LEMMA PartFacts ==
  ASSUME NEW N
  PROVE  /\ \A p \in Part(N) : DOMAIN p \subseteq Key /\ \A k \in DOMAIN p : p[k] \in N
         /\ <<>> \in Part(N)
         /\ \A M : N \subseteq M => Part(N) \subseteq Part(M)
<1>1. \A p \in Part(N) : DOMAIN p \subseteq Key /\ \A k \in DOMAIN p : p[k] \in N
  BY DEF Part
<1>2. <<>> \in [{} -> N]
  <2>1. <<>> = [k \in {} |-> 0]
    OBVIOUS
  <2> QED BY <2>1
<1>3. ASSUME NEW M, N \subseteq M PROVE Part(N) \subseteq Part(M)
  <2> SUFFICES ASSUME NEW S \in SUBSET Key, NEW p \in [S -> N]
               PROVE  p \in Part(M)
    BY DEF Part
  <2>1. p \in [S -> M]
    BY <1>3
  <2> QED BY <2>1 DEF Part
<1>4. <<>> \in Part(N)
  BY <1>2 DEF Part
<1> QED BY <1>1, <1>3, <1>4

\* A function on some settings is a part.
LEMMA PartOf ==
  ASSUME NEW N, NEW S \in SUBSET Key, NEW p \in [S -> N]
  PROVE  p \in Part(N)
BY DEF Part

\* What a save carries are values.
LEMMA CarriedFacts ==
  ASSUME Types, NEW r \in Request(Numbers)
  PROVE  /\ Carried(r) \subseteq Places /\ DOMAIN r.sent \subseteq Key
         /\ \A k \in DOMAIN r.sent : r.sent[k] \in Numbers /\ Abs(r.sent[k]) \in Carried(r)
<1>1. r.sent \in Part(Numbers)
  BY DEF Request
<1>2. DOMAIN r.sent \subseteq Key /\ \A k \in DOMAIN r.sent : r.sent[k] \in Numbers
  BY <1>1, PartFacts
<1> QED BY <1>2, NumberFacts DEF Carried

\* Of some naturals one is the least.
LEMMA LeastNatural ==
  ASSUME NEW T \in SUBSET Nat, T # {}
  PROVE  \E x \in T : \A y \in T : x <= y
<1> DEFINE R == {ss \in Nat \X Nat : ss[1] < ss[2]}
<1>1. IsWellFoundedOn(R, Nat)
  BY NatLessThanWellFounded DEF OpToRel
<1>2. \A x, y \in Nat : <<y, x>> \in R <=> y < x
  OBVIOUS
<1> HIDE DEF R
<1>3. PICK x \in T : \A y \in T : <<y, x>> \notin R
  BY <1>1, WFMin
<1>4. ASSUME NEW y \in T PROVE x <= y
  <2>1. x \in Nat /\ y \in Nat /\ ~(y < x)
    BY <1>2, <1>3
  <2> QED BY <2>1
<1> QED BY <1>4

\* Of the older saves still out that carried a key, one is the newest.
LEMMA NewestFacts ==
  ASSUME Types, NEW r \in requests, NEW k, Older(r, k) # {}
  PROVE  /\ Newest(Older(r, k)) \in Older(r, k)
         /\ Newest(Older(r, k)) \in requests
<1> DEFINE O == Older(r, k)
           D == {r.gen - p.gen : p \in O}
<1>1. \A p \in O : p \in Request(Numbers) /\ p.gen < r.gen /\ p.gen \in Nat /\ p.id \in Nat /\ p \in requests
  BY DEF Types, Request, Older, Out
<1>2. r.gen \in Nat
  BY DEF Types, Request
<1>3. D \in SUBSET Nat /\ D # {}
  BY <1>1, <1>2
<1>4. PICK d \in D : \A e \in D : d <= e
  BY <1>3, LeastNatural
<1>5. PICK m \in O : d = r.gen - m.gen
  BY <1>4
<1>6. \A q \in O : q.gen <= m.gen
  <2> SUFFICES ASSUME NEW q \in O PROVE q.gen <= m.gen
    OBVIOUS
  <2>1. r.gen - m.gen <= r.gen - q.gen
    BY <1>4, <1>5
  <2> QED BY <2>1, <1>1, <1>2
<1> DEFINE I == {p.id : p \in {p \in O : p.gen = m.gen}}
<1>7. I \in SUBSET Nat /\ I # {}
  BY <1>1, <1>5
<1>8. PICK i \in I : \A j \in I : i <= j
  BY <1>7, LeastNatural
<1>9. PICK p \in O : p.gen = m.gen /\ i = p.id
  BY <1>8
<1>10. \A q \in O : q.gen < p.gen \/ (q.gen = p.gen /\ p.id <= q.id)
  <2> SUFFICES ASSUME NEW q \in O, ~(q.gen < p.gen) PROVE q.gen = p.gen /\ p.id <= q.id
    OBVIOUS
  <2>1. q.gen = m.gen
    BY <1>1, <1>6, <1>9
  <2>2. q.id \in I
    BY <2>1
  <2> QED BY <1>8, <1>9, <2>1, <2>2
<1>11. Newest(O) \in O
  BY <1>10 DEF Newest
<1> QED BY <1>1, <1>11

\* More numbers type no less.
LEMMA Wider ==
  ASSUME NEW N, NEW M, N \subseteq M
  PROVE  /\ Request(N) \subseteq Request(M) /\ Message(N) \subseteq Message(M)
         /\ Seq(Message(N)) \subseteq Seq(Message(M))
         /\ Card(N) \subseteq Card(M) /\ Backend(N) \subseteq Backend(M) /\ Edits(N) \subseteq Edits(M)
         /\ [Key -> N \cup {Absent}] \subseteq [Key -> M \cup {Absent}]
<1>1. Part(N) \subseteq Part(M)
  BY PartFacts
<1>2. [Key -> N] \subseteq [Key -> M] /\ [Key -> N \cup {Absent}] \subseteq [Key -> M \cup {Absent}]
  OBVIOUS
<1>3. Request(N) \subseteq Request(M)
  BY <1>1 DEF Request
<1>4. Message(N) \subseteq Message(M)
  BY <1>2 DEF Message
<1>5. Seq(Message(N)) \subseteq Seq(Message(M))
  BY <1>4, SeqMonotonic
<1>6. Card(N) \subseteq Card(M)
  BY <1>2 DEF Card
<1>7. Backend(N) \subseteq Backend(M)
  BY <1>2 DEF Backend
<1>8. Edits(N) \subseteq Edits(M)
  BY <1>1, <1>2 DEF Edits
<1> QED BY <1>2, <1>3, <1>4, <1>5, <1>6, <1>7, <1>8

\* While no value is made the numbers stay.
LEMMA NoneMade ==
  ASSUME made' = made
  PROVE  /\ Numbers' = Numbers /\ Places' = Places
         /\ By("person")' = By("person") /\ By("agent")' = By("agent")
BY DEF Numbers, Places, By

\* A value is made: a number of its own.
LEMMA OneMade ==
  ASSUME Types, NEW m \in Maker, made' = Append(made, m),
         m.who = "person" => Cardinality(By("person")) < MaxTyped,
         m.who = "agent" => Cardinality(By("agent")) < MaxAgent
  PROVE  /\ made' \in Seq(Maker) /\ Len(made') = Len(made) + 1 /\ Len(made) \in Nat
         /\ DOMAIN made' = DOMAIN made \cup {Len(made')} /\ Len(made') \notin Places
         /\ Numbers \subseteq Numbers' /\ Places' = Places \cup {Len(made')} /\ Len(made') \in Numbers'
         /\ made'[Len(made')] = m /\ \A v \in DOMAIN made : made'[v] = made[v]
         /\ By(m.who)' = By(m.who) \cup {Len(made')}
         /\ \A who \in {"person", "agent"} \ {m.who} : By(who)' = By(who)
         /\ Cardinality(By("person")') <= MaxTyped /\ IsFiniteSet(By("person")')
         /\ Cardinality(By("agent")') <= MaxAgent /\ IsFiniteSet(By("agent")')
<1>1. /\ made' \in Seq(Maker) /\ Len(made') = Len(made) + 1 /\ Len(made) \in Nat
      /\ DOMAIN made = 1..Len(made) /\ DOMAIN made' = 1..Len(made')
      /\ made'[Len(made')] = m /\ \A v \in DOMAIN made : made'[v] = made[v]
  BY MadeFacts, AppendProperties, LenProperties DEF Types, Written
<1>2. /\ DOMAIN made' = DOMAIN made \cup {Len(made')} /\ Len(made') \notin Places
      /\ Numbers \subseteq Numbers' /\ Places' = Places \cup {Len(made')} /\ Len(made') \in Numbers'
      /\ Len(made') \notin DOMAIN made
  BY <1>1 DEF Numbers, Places
<1>3. By(m.who)' = By(m.who) \cup {Len(made')}
  BY <1>1, <1>2 DEF By
<1>4. \A who \in {"person", "agent"} \ {m.who} : By(who)' = By(who)
  BY <1>1, <1>2 DEF By
<1>5. Len(made') \notin By(m.who)
  BY <1>2 DEF By
<1>6. m.who \in {"person", "agent"}
  BY DEF Maker
<1>7. /\ Cardinality(By("person")) \in Nat /\ Cardinality(By("agent")) \in Nat
      /\ IsFiniteSet(By("person")) /\ IsFiniteSet(By("agent"))
      /\ Cardinality(By("person")) <= MaxTyped /\ Cardinality(By("agent")) <= MaxAgent
  BY FS_CardinalityType DEF Types, Written
<1>8. /\ IsFiniteSet(By(m.who) \cup {Len(made')})
      /\ Cardinality(By(m.who) \cup {Len(made')}) = Cardinality(By(m.who)) + 1
  BY <1>5, <1>6, <1>7, FS_AddElement
<1>9. Cardinality(By("person")') <= MaxTyped /\ IsFiniteSet(By("person")')
  <2>1. CASE m.who = "person"
    <3>1. By("person")' = By("person") \cup {Len(made')} /\ Cardinality(By("person")) < MaxTyped
      BY <2>1, <1>3
    <3>2. /\ IsFiniteSet(By("person") \cup {Len(made')})
          /\ Cardinality(By("person") \cup {Len(made')}) = Cardinality(By("person")) + 1
      BY <2>1, <1>8
    <3>3. Cardinality(By("person")) + 1 <= MaxTyped
      BY <3>1, <1>7, MadeFacts
    <3> QED BY <3>1, <3>2, <3>3
  <2>2. CASE m.who = "agent"
    BY <2>2, <1>4, <1>7
  <2> QED BY <2>1, <2>2, <1>6
<1>10. Cardinality(By("agent")') <= MaxAgent /\ IsFiniteSet(By("agent")')
  <2>1. CASE m.who = "agent"
    <3>1. By("agent")' = By("agent") \cup {Len(made')} /\ Cardinality(By("agent")) < MaxAgent
      BY <2>1, <1>3
    <3>2. /\ IsFiniteSet(By("agent") \cup {Len(made')})
          /\ Cardinality(By("agent") \cup {Len(made')}) = Cardinality(By("agent")) + 1
      BY <2>1, <1>8
    <3>3. Cardinality(By("agent")) + 1 <= MaxAgent
      BY <3>1, <1>7, MadeFacts
    <3> QED BY <3>1, <3>2, <3>3
  <2>2. CASE m.who = "person"
    BY <2>2, <1>4, <1>7
  <2> QED BY <2>1, <2>2, <1>6
<1> QED BY <1>1, <1>2, <1>3, <1>4, <1>9, <1>10

\* What the backend takes is in order behind the rest.
LEMMA TakenFacts ==
  ASSUME NEW P, order \in Seq(SUBSET P), NEW S \in SUBSET P, order' = Append(order, S)
  PROVE  order' \in Seq(SUBSET P) /\ Taken' = Taken \cup S /\ Taken \subseteq P
<1>1. /\ order' \in Seq(SUBSET P) /\ Len(order') = Len(order) + 1 /\ Len(order) \in Nat
      /\ order'[Len(order) + 1] = S /\ \A i \in 1..Len(order) : order'[i] = order[i]
      /\ DOMAIN order = 1..Len(order) /\ DOMAIN order' = 1..Len(order')
  BY AppendProperties, LenProperties
<1>2. DOMAIN order' = DOMAIN order \cup {Len(order) + 1}
  BY <1>1
<1>3. Taken' = Taken \cup S
  BY <1>1, <1>2 DEF Taken
<1>4. Taken \subseteq P
  BY <1>1, ElementOfSeq DEF Taken
<1> QED BY <1>1, <1>3, <1>4

\* What was taken are values.
LEMMA TakenTyped ==
  ASSUME Types
  PROVE  Taken \subseteq Places
BY LenProperties, ElementOfSeq DEF Types, Written, Taken

\* What was taken stays while nothing is taken.
LEMMA TakenStays ==
  ASSUME order' = order
  PROVE  Taken' = Taken
BY DEF Taken

\* A sync of the new state goes out.
LEMMA BroadcastFacts ==
  ASSUME NEW N, syncs \in Seq(Message(N)), nebula' \in Backend(N), NEW kind \in Kinds, Broadcast(kind)
  PROVE  /\ Sync(kind) \in Message(N) /\ syncs' \in Seq(Message(N))
         /\ syncs' = syncs \/ syncs' = Append(syncs, Sync(kind))
<1>1. /\ nebula'.params \in [Key -> N] /\ nebula'.rev \in Nat /\ nebula'.boot \in Nat
      /\ nebula'.canvas \in Nat /\ nebula'.shape \in Nat /\ nebula'.lost \in BOOLEAN
  BY DEF Backend
<1> DEFINE l == kind = "hello" /\ nebula'.lost
<1>2. l \in BOOLEAN
  OBVIOUS
<1> HIDE DEF l
<1>3. [kind |-> kind, params |-> nebula'.params, rev |-> nebula'.rev, boot |-> nebula'.boot,
       canvas |-> nebula'.canvas, shape |-> nebula'.shape, lost |-> l] \in Message(N)
  BY <1>1, <1>2 DEF Message
<1>4. Sync(kind) \in Message(N)
  BY <1>3 DEF Sync, l
<1> QED BY <1>4, AppendProperties DEF Broadcast

\* With the edit its last saved values and generations go.
LEMMA ForgottenTyped ==
  ASSUME NEW N
  PROVE  NoEdit \in Edits(N) /\ NoneSaved \in [Key -> N \cup {Absent}] /\ NoGens \in Gens
<1>1. NoneSaved \in [Key -> N \cup {Absent}]
  BY DEF NoneSaved
<1>2. <<>> \in Part(N)
  BY PartFacts
<1>3. NoEdit \in Edits(N)
  BY <1>1, <1>2 DEF NoEdit, Edits
<1>4. NoGens \in Gens
  BY DEF NoGens, Gens, Fresh
<1> QED BY <1>1, <1>3, <1>4

\* The save that is sent now.
Sending(resent) ==
  [id |-> tab.pushes + 1, edit |-> edit.id, gen |-> gens.edit, since |-> gens.push,
   keys |-> {k \in edit.keys : gens.key[k] > gens.push}, sent |-> [k \in edit.keys |-> tab.params[k]],
   rev |-> tab.rev, graph |-> tab.graph, resent |-> resent, state |-> "sent"]

\* A push: with an edit one save is sent of all its keys, without one nothing is.
LEMMA PushFacts ==
  ASSUME Types, NEW resent \in BOOLEAN, Push(resent)
  PROVE  /\ tab' \in Card(Numbers) /\ edit' \in Edits(Numbers) /\ gens' \in Gens /\ saved' = saved
         /\ requests' \in SUBSET Request(Numbers)
         /\ edit = NoEdit => UNCHANGED <<tab, book, requests>>
         /\ edit # NoEdit =>
              /\ Sending(resent) \in Request(Numbers) /\ requests' = requests \cup {Sending(resent)}
              /\ tab' = [tab EXCEPT !.pushes = @ + 1] /\ gens' = [gens EXCEPT !.push = gens.edit]
              /\ edit'.id = edit.id /\ edit'.keys = edit.keys /\ DOMAIN edit'.sent = edit.keys
              /\ edit'.before = edit.before
<1>1. CASE edit = NoEdit
  BY <1>1 DEF Push, Types, book
<1>2. CASE edit # NoEdit
  <2> DEFINE sent == [k \in edit.keys |-> tab.params[k]]
             e == [edit EXCEPT !.sent = sent, !.echoed = FALSE, !.answered = FALSE]
  <2>1. /\ edit.keys \in SUBSET Key /\ edit.id \in Nat /\ tab.params \in [Key -> Numbers] /\ tab.pushes \in Nat
        /\ tab.rev \in Nat /\ tab.graph \in Nat /\ gens.edit \in Nat /\ gens.push \in Nat
    BY DEF Types, Edits, Card, Gens
  <2>2. sent \in [edit.keys -> Numbers]
    BY <2>1
  <2>3. sent \in Part(Numbers) /\ DOMAIN sent = edit.keys
    BY <2>1, <2>2, PartOf
  <2>4. /\ tab' = [tab EXCEPT !.pushes = @ + 1] /\ edit' = e
        /\ gens' = [gens EXCEPT !.push = gens.edit] /\ saved' = saved
    BY <1>2 DEF Push
  <2> HIDE DEF sent
  <2>5. /\ e \in Edits(Numbers) /\ e.id = edit.id /\ e.keys = edit.keys /\ e.sent = sent
        /\ e.before = edit.before
    BY <2>3 DEF Types, Edits
  <2>6. requests' = requests \cup {Sending(resent)}
    BY <1>2, <2>4, <2>5 DEF Push, Sending, sent
  <2>7. tab' \in Card(Numbers) /\ gens' \in Gens
    <3>1. tab' \in Card(Numbers)
      <4>1. tab \in Card(Numbers) /\ tab.pushes + 1 \in Nat
        BY <2>1 DEF Types
      <4>2. [tab EXCEPT !.pushes = tab.pushes + 1] \in Card(Numbers)
        BY <4>1 DEF Card
      <4> QED BY <2>4, <4>2
    <3>2. gens' \in Gens
      BY <2>1, <2>4 DEF Types, Gens
    <3> QED BY <3>1, <3>2
  <2>8. Sending(resent) \in Request(Numbers)
    <3>1. {k \in edit.keys : gens.key[k] > gens.push} \in SUBSET Key
      BY <2>1
    <3> QED BY <2>1, <2>3, <3>1 DEF Sending, Request, States, sent
  <2> QED BY <1>2, <2>3, <2>4, <2>5, <2>6, <2>7, <2>8 DEF Types
<1> QED BY <1>1, <1>2

\* The histories keep their type while no value is made and none is taken.
LEMMA WrittenStays ==
  ASSUME Written, made' = made, order' = order, told' \subseteq Places, cut' \subseteq Places,
         late' \subseteq Places, astray' = astray, unowned' \subseteq Places, mislaid' \subseteq Places
  PROVE  Written'
BY NoneMade DEF Written

\* A request moves on.
LEMMA MovedTyped ==
  ASSUME Types, NEW r \in requests, NEW state \in States,
         requests' = (requests \ {r}) \cup {[r EXCEPT !.state = state]}
  PROVE  requests' \in SUBSET Request(Numbers) /\ [r EXCEPT !.state = state] \in Request(Numbers)
<1>1. r \in Request(Numbers)
  BY DEF Types
<1>2. [r EXCEPT !.state = state] \in Request(Numbers)
  BY <1>1 DEF Request
<1> QED BY <1>2 DEF Types

\* The types stay with a request that reaches the backend.
LEMMA DeliverTyped ==
  ASSUME Types, NEW r \in requests, Deliver(r)
  PROVE  Types'
<1>1. r \in Request(Numbers) /\ nebula \in Backend(Numbers)
  BY DEF Types
<1>2. Numbers' = Numbers /\ Places' = Places
  BY NoneMade DEF Deliver
<1>3. CASE r.rev # nebula.rev
  <2>1. requests' \in SUBSET Request(Numbers)
    BY <1>3, MovedTyped DEF Deliver, States
  <2>2. /\ UNCHANGED <<nebula, syncs, order, astray>>
        /\ UNCHANGED <<socket, tab, book, timer, parked, made, told, cut, late, unowned, mislaid, bounds>>
    BY <1>3 DEF Deliver
  <2>3. Written'
    BY <2>2, WrittenStays DEF Types, Written
  <2> QED BY <1>2, <2>1, <2>2, <2>3 DEF Types, book
<1>4. CASE r.rev = nebula.rev
  <2>1. PICK own \in SUBSET DOMAIN r.sent :
          nebula' = [nebula EXCEPT !.params =
                      [k \in Key |-> IF k \notin DOMAIN r.sent THEN @[k]
                                     ELSE IF k \in own THEN -Abs(r.sent[k]) ELSE r.sent[k]]]
    BY <1>4 DEF Deliver
  <2>2. /\ Broadcast("edit") /\ order' = Append(order, Carried(r))
        /\ requests' = (requests \ {r}) \cup {[r EXCEPT !.state = "ok"]}
        /\ astray' = astray \cup {v \in Carried(r) \ {0} : made[v].canvas # nebula.canvas}
        /\ UNCHANGED <<socket, tab, book, timer, parked, made, told, cut, late, unowned, mislaid, bounds>>
    BY <1>4 DEF Deliver
  <2> DEFINE f == [k \in Key |-> IF k \notin DOMAIN r.sent THEN nebula.params[k]
                                 ELSE IF k \in own THEN -Abs(r.sent[k]) ELSE r.sent[k]]
  <2>3. f \in [Key -> Numbers]
    <3>1. ASSUME NEW k \in Key PROVE f[k] \in Numbers
      <4>1. nebula.params[k] \in Numbers
        BY <1>1 DEF Backend
      <4>2. k \in DOMAIN r.sent => r.sent[k] \in Numbers /\ -Abs(r.sent[k]) \in Numbers
        BY <1>1, CarriedFacts, NumberFacts
      <4> QED BY <4>1, <4>2
    <3> QED BY <3>1
  <2>4. nebula' = [nebula EXCEPT !.params = f]
    BY <2>1
  <2> HIDE DEF f
  <2>5. nebula' \in Backend(Numbers)
    BY <1>1, <2>3, <2>4 DEF Backend
  <2>6. requests' \in SUBSET Request(Numbers)
    BY <2>2, MovedTyped DEF States
  <2>7. syncs' \in Seq(Message(Numbers))
    BY <2>2, <2>5, BroadcastFacts DEF Types, Kinds
  <2>8. Carried(r) \subseteq Places
    BY <1>1, CarriedFacts
  <2>9. order' \in Seq(SUBSET Places)
    BY <2>2, <2>8, TakenFacts DEF Types, Written
  <2>10. astray' \subseteq Places \ {0}
    BY <2>2, <2>8 DEF Types, Written
  <2>11. Written'
    BY <1>2, <2>2, <2>9, <2>10, NoneMade DEF Types, Written
  <2> QED BY <1>2, <2>2, <2>5, <2>6, <2>7, <2>11 DEF Types, book
<1> QED BY <1>3, <1>4

\* They stay with a request that fails.
LEMMA FailTyped ==
  ASSUME Types, NEW r \in requests, Fail(r)
  PROVE  Types'
<1>1. Numbers' = Numbers /\ Places' = Places
  BY NoneMade DEF Fail, past
<1>2. requests' \in SUBSET Request(Numbers)
  BY MovedTyped DEF Fail, States
<1>3. Written'
  BY WrittenStays DEF Types, Written, Fail, past
<1>4. bounds' \in [gaps : Nat, fails : Nat]
  BY DEF Types, Fail
<1> QED BY <1>1, <1>2, <1>3, <1>4 DEF Types, Fail, server, book

\* They stay with an agent's edit.
LEMMA AgentEditTyped ==
  ASSUME Types, NEW k \in Key, AgentEdit(k)
  PROVE  Types'
<1> DEFINE m == [who |-> "agent", key |-> k, canvas |-> nebula.canvas, boot |-> nebula.boot, graph |-> 0]
<1>1. nebula \in Backend(Numbers) /\ m \in Maker
  BY DEF Types, Backend, Maker
<1>2. /\ made' = Append(made, m) /\ Cardinality(By("agent")) < MaxAgent
      /\ nebula' = [nebula EXCEPT !.params[k] = Len(made')]
      /\ order' = Append(order, {Len(made')}) /\ Broadcast("edit")
      /\ UNCHANGED <<socket, tab, book, timer, parked, requests, told, cut, late, astray, unowned, mislaid,
                     bounds>>
  BY DEF AgentEdit, Trouble
<1>3. m.who = "agent"
  OBVIOUS
<1> HIDE DEF m
<1>4. /\ made' \in Seq(Maker) /\ Numbers \subseteq Numbers' /\ Places' = Places \cup {Len(made')}
      /\ Len(made') \in Numbers'
      /\ Cardinality(By("person")') <= MaxTyped /\ IsFiniteSet(By("person")')
      /\ Cardinality(By("agent")') <= MaxAgent /\ IsFiniteSet(By("agent")')
  BY <1>1, <1>2, <1>3, OneMade
<1>5. nebula' \in Backend(Numbers')
  <2>1. nebula \in Backend(Numbers')
    BY <1>1, <1>4, Wider
  <2> QED BY <1>2, <1>4, <2>1 DEF Backend
<1>6. syncs' \in Seq(Message(Numbers'))
  <2>1. syncs \in Seq(Message(Numbers'))
    BY <1>4, Wider DEF Types
  <2> QED BY <1>2, <1>5, <2>1, BroadcastFacts DEF Kinds
<1>7. order' \in Seq(SUBSET Places')
  <2>1. SUBSET Places \subseteq SUBSET (Places') /\ {Len(made')} \in SUBSET (Places')
    BY <1>4
  <2>2. order \in Seq(SUBSET (Places'))
    BY <2>1, SeqMonotonic DEF Types, Written
  <2> QED BY <1>2, <2>1, <2>2, TakenFacts
<1>8. /\ told' \subseteq Places' /\ cut' \subseteq Places' /\ late' \subseteq Places'
      /\ astray' \subseteq Places' \ {0} /\ unowned' \subseteq Places' /\ mislaid' \subseteq Places'
  BY <1>2, <1>4 DEF Types, Written
<1>9. Written'
  BY <1>4, <1>7, <1>8 DEF Written
<1>10. /\ tab' \in Card(Numbers') /\ edit' \in Edits(Numbers') /\ saved' \in [Key -> Numbers' \cup {Absent}]
       /\ requests' \in SUBSET Request(Numbers') /\ gens' \in Gens
  BY <1>2, <1>4, Wider DEF Types, book
<1>11. parked' \in [state : {"no", "kept", "due"}, saves : SUBSET Places']
  BY <1>2, <1>4 DEF Types
<1> QED BY <1>2, <1>5, <1>6, <1>9, <1>10, <1>11 DEF Types

\* They stay with an agent's clear or load.
LEMMA AgentReplacesTyped ==
  ASSUME Types, NEW kind \in {"clear", "import"}, AgentReplaces(kind)
  PROVE  Types'
<1>1. Numbers' = Numbers /\ Places' = Places
  BY NoneMade DEF AgentReplaces, past
<1>2. PICK shape \in {nebula.shape, 2} :
        nebula' = [nebula EXCEPT !.params = Fresh, !.rev = @ + 1, !.canvas = @ + 1, !.shape = shape]
  BY DEF AgentReplaces
<1>3. nebula' \in Backend(Numbers)
  <2>1. Fresh \in [Key -> Numbers]
    BY NumberFacts DEF Fresh
  <2>2. nebula \in Backend(Numbers)
    BY DEF Types
  <2>3. nebula.rev + 1 \in Nat /\ nebula.canvas + 1 \in Nat /\ shape \in Nat
    BY <2>2 DEF Backend
  <2> HIDE DEF Fresh
  <2> QED BY <1>2, <2>1, <2>2, <2>3 DEF Backend
<1>4. syncs' \in Seq(Message(Numbers))
  BY <1>3, BroadcastFacts DEF Types, Kinds, AgentReplaces
<1>5. Written'
  BY WrittenStays DEF Types, Written, AgentReplaces, past
<1> QED BY <1>1, <1>3, <1>4, <1>5 DEF Types, AgentReplaces, book

\* What the socket loses is the end of the queue.
LEMMA ClosesFacts ==
  ASSUME NEW M, syncs \in Seq(M), Closes
  PROVE  /\ syncs' \in Seq(M) /\ Len(syncs') <= Len(syncs)
         /\ \A i \in 1..Len(syncs') : i \in 1..Len(syncs) /\ syncs'[i] = syncs[i]
<1>1. PICK n \in 0..Len(syncs) : syncs' = SubSeq(syncs, 1, n)
  BY DEF Closes
<1>2. Len(syncs) \in Nat /\ n \in Nat /\ 1 \in 1..Len(syncs) + 1
  BY LenProperties
<1>3. \A i \in 1..n : syncs[i] \in M
  BY <1>2, ElementOfSeq
<1> QED BY <1>1, <1>2, <1>3, SubSeqProperties

\* They stay when the connection closes or opens, and with a restart.
LEMMA ConnectionTyped ==
  ASSUME Types, Gap \/ Restart \/ Reconnect
  PROVE  Types'
<1>1. Numbers' = Numbers /\ Places' = Places
  BY NoneMade DEF Gap, Restart, Reconnect, past
<1>2. Written'
  BY WrittenStays DEF Types, Written, Gap, Restart, Reconnect, past
<1>3. syncs \in Seq(Message(Numbers)) /\ nebula \in Backend(Numbers)
  BY DEF Types
<1>4. CASE Gap
  <2>1. syncs' \in Seq(Message(Numbers)) /\ socket' = FALSE
    BY <1>3, <1>4, ClosesFacts DEF Gap, Closes
  <2>2. bounds' \in [gaps : Nat, fails : Nat]
    BY <1>4 DEF Types, Gap
  <2> QED BY <1>1, <1>2, <1>4, <2>1, <2>2 DEF Types, Gap, book
<1>5. CASE Restart
  <2>1. syncs' \in Seq(Message(Numbers)) /\ socket' = FALSE
    BY <1>3, <1>5, ClosesFacts DEF Restart, Closes
  <2>2. PICK lost \in BOOLEAN :
          nebula' = [nebula EXCEPT !.boot = @ + 1, !.lost = lost, !.rev = IF lost THEN @ + 1 ELSE @]
    BY <1>5 DEF Restart
  <2>3. nebula' \in Backend(Numbers)
    <3> DEFINE n == IF lost THEN nebula.rev + 1 ELSE nebula.rev
    <3>1. n \in Nat /\ nebula.boot + 1 \in Nat
      BY <1>3 DEF Backend
    <3>2. nebula' = [nebula EXCEPT !.boot = nebula.boot + 1, !.lost = lost, !.rev = n]
      BY <2>2
    <3> HIDE DEF n
    <3> QED BY <1>3, <3>1, <3>2 DEF Backend
  <2> QED BY <1>1, <1>2, <1>5, <2>1, <2>3 DEF Types, Restart, book
<1>6. CASE Reconnect
  <2>1. syncs' = Append(syncs, Sync("hello")) /\ nebula' = nebula
    BY <1>6 DEF Reconnect
  <2>2. Sync("hello") \in Message(Numbers)
    <3>1. /\ nebula'.params \in [Key -> Numbers] /\ nebula'.rev \in Nat /\ nebula'.boot \in Nat
          /\ nebula'.canvas \in Nat /\ nebula'.shape \in Nat /\ nebula'.lost \in BOOLEAN
      BY <1>3, <2>1 DEF Backend
    <3> QED BY <3>1 DEF Sync, Message, Kinds
  <2>3. syncs' \in Seq(Message(Numbers))
    BY <1>3, <2>1, <2>2, AppendProperties
  <2> QED BY <1>1, <1>2, <1>6, <2>1, <2>3 DEF Types, Reconnect, book
<1> QED BY <1>4, <1>5, <1>6

\* They stay with a keystroke.
LEMMA TypeTyped ==
  ASSUME Types, NEW k \in Key, Type(k)
  PROVE  Types'
<1> DEFINE m == [who |-> "person", key |-> k, canvas |-> tab.canvas, boot |-> tab.boot, graph |-> tab.graph]
           new == edit = NoEdit
           e == IF new THEN [NoEdit EXCEPT !.id = tab.edits + 1] ELSE edit
           was == IF k \in e.keys THEN e.before[k] ELSE tab.params[k]
<1>1. tab \in Card(Numbers) /\ tab.params[k] \in Numbers /\ m \in Maker
  BY DEF Types, Card, Maker
<1>2. /\ made' = Append(made, m) /\ Cardinality(By("person")) < MaxTyped
      /\ edit' = [e EXCEPT !.keys = @ \cup {k}, !.before[k] = was]
      /\ tab' = [tab EXCEPT !.params[k] = Len(made'), !.edits = IF new THEN @ + 1 ELSE @]
      /\ saved' = [saved EXCEPT ![k] = IF @ = Absent THEN tab.params[k] ELSE @]
      /\ gens' = [gens EXCEPT !.edit = @ + 1, !.key[k] = gens.edit + 1]
      /\ timer' = TRUE
      /\ UNCHANGED <<server, parked, requests, order, told, cut, late, astray, unowned, mislaid, bounds>>
  BY DEF Type
<1>3. e \in Edits(Numbers)
  <2>1. NoEdit \in Edits(Numbers) /\ tab.edits + 1 \in Nat
    BY <1>1, ForgottenTyped DEF Card
  <2>2. [NoEdit EXCEPT !.id = tab.edits + 1] \in Edits(Numbers)
    BY <2>1 DEF Edits
  <2> QED BY <2>2 DEF Types
<1>4. m.who = "person"
  OBVIOUS
<1>5. was \in Numbers \cup {Absent}
  BY <1>1, <1>3 DEF Edits
<1> HIDE DEF m, e, was
<1>6. /\ made' \in Seq(Maker) /\ Numbers \subseteq Numbers' /\ Places' = Places \cup {Len(made')}
      /\ Len(made') \in Numbers'
      /\ Cardinality(By("person")') <= MaxTyped /\ IsFiniteSet(By("person")')
      /\ Cardinality(By("agent")') <= MaxAgent /\ IsFiniteSet(By("agent")')
  BY <1>1, <1>2, <1>4, OneMade
<1>7. edit' \in Edits(Numbers')
  <2>1. e \in Edits(Numbers') /\ was \in Numbers' \cup {Absent}
    BY <1>3, <1>5, <1>6, Wider
  <2> QED BY <1>2, <2>1 DEF Edits
<1>8. tab' \in Card(Numbers')
  <2>1. tab \in Card(Numbers')
    BY <1>1, <1>6, Wider
  <2>2. tab.edits \in Nat /\ (IF new THEN tab.edits + 1 ELSE tab.edits) \in Nat
    BY <1>1 DEF Card
  <2> DEFINE n == IF new THEN tab.edits + 1 ELSE tab.edits
  <2>3. tab' = [tab EXCEPT !.params[k] = Len(made'), !.edits = n]
    BY <1>2
  <2> HIDE DEF n, new
  <2> QED BY <1>6, <2>1, <2>2, <2>3 DEF Card, n
<1>9. saved' \in [Key -> Numbers' \cup {Absent}]
  <2>1. saved \in [Key -> Numbers' \cup {Absent}]
    BY <1>6, Wider DEF Types
  <2> QED BY <1>1, <1>2, <1>6, <2>1
<1>10. gens' \in Gens
  <2>1. gens \in Gens /\ gens.edit + 1 \in Nat
    BY DEF Types, Gens
  <2> QED BY <1>2, <2>1 DEF Gens
<1>11. order' \in Seq(SUBSET Places')
  <2>1. SUBSET Places \subseteq SUBSET (Places')
    BY <1>6
  <2>2. order \in Seq(SUBSET (Places'))
    BY <2>1, SeqMonotonic DEF Types, Written
  <2> QED BY <1>2, <2>2
<1>12. Written'
  BY <1>2, <1>6, <1>11 DEF Types, Written
<1>13. /\ nebula' \in Backend(Numbers') /\ syncs' \in Seq(Message(Numbers'))
       /\ requests' \in SUBSET Request(Numbers') /\ socket' \in BOOLEAN
  BY <1>2, <1>6, Wider DEF Types, server
<1>14. parked' \in [state : {"no", "kept", "due"}, saves : SUBSET Places']
  BY <1>2, <1>6 DEF Types
<1> QED BY <1>2, <1>7, <1>8, <1>9, <1>10, <1>12, <1>13, <1>14 DEF Types

\* The timers of the tab.
LEMMA TimersTyped ==
  ASSUME Types, Debounced \/ Resend \/ ParkedTimeout \/ Linger
  PROVE  Types'
<1>1. Numbers' = Numbers /\ Places' = Places
  BY NoneMade DEF Debounced, Resend, ParkedTimeout, Linger, past
<1>2. Written'
  BY WrittenStays DEF Types, Written, Debounced, Resend, ParkedTimeout, Linger, past
<1>3. CASE Debounced
  <2>1. Push(FALSE) /\ timer' = FALSE /\ UNCHANGED <<server, parked, past, bounds>>
    BY <1>3 DEF Debounced
  <2>2. /\ tab' \in Card(Numbers) /\ edit' \in Edits(Numbers) /\ gens' \in Gens /\ saved' = saved
        /\ requests' \in SUBSET Request(Numbers)
    BY <2>1, PushFacts
  <2> QED BY <1>1, <1>2, <2>1, <2>2 DEF Types, server
<1>4. CASE Resend
  <2>1. /\ tab' \in Card(Numbers) /\ edit' \in Edits(Numbers) /\ gens' \in Gens /\ saved' = saved
        /\ requests' \in SUBSET Request(Numbers)
    <3>1. CASE timer
      BY <1>4, <3>1 DEF Resend, Types, book
    <3>2. CASE ~timer
      BY <1>4, <3>2, PushFacts DEF Resend
    <3> QED BY <3>1, <3>2
  <2>2. parked' = NoneParked /\ UNCHANGED <<server, timer, past, bounds>>
    BY <1>4 DEF Resend
  <2>3. NoneParked \in [state : {"no", "kept", "due"}, saves : SUBSET Places]
    BY DEF NoneParked
  <2> QED BY <1>1, <1>2, <2>1, <2>2, <2>3 DEF Types, server
<1>5. CASE ParkedTimeout
  <2>1. parked' \in [state : {"no", "kept", "due"}, saves : SUBSET Places]
    BY <1>5 DEF ParkedTimeout, Types
  <2> QED BY <1>1, <1>2, <1>5, <2>1 DEF Types, ParkedTimeout, server, book
<1>6. CASE Linger
  <2>1. edit' \in Edits(Numbers) /\ saved' \in [Key -> Numbers \cup {Absent}] /\ gens' \in Gens
    BY <1>6, ForgottenTyped DEF Linger, Forget
  <2> QED BY <1>1, <1>2, <1>6, <2>1 DEF Types, Linger, server
<1> QED BY <1>3, <1>4, <1>5, <1>6

\* A key goes back to a number.
LEMMA PutBackFacts ==
  ASSUME Types, NEW r \in requests, NEW k \in r.keys, r.keys \subseteq DOMAIN r.sent
  PROVE  PutBack(r, k) \in Numbers
<1>1. r \in Request(Numbers)
  BY DEF Types
<1>2. CASE Older(r, k) # {}
  <2> DEFINE p == Newest(Older(r, k))
  <2>1. p \in Older(r, k) /\ p \in requests
    BY <1>2, NewestFacts
  <2>2. p \in Request(Numbers) /\ k \in DOMAIN p.sent
    BY <2>1 DEF Older, Types
  <2>3. p.sent[k] \in Numbers
    BY <2>2, CarriedFacts
  <2> QED BY <1>2, <2>3 DEF PutBack
<1>3. CASE Older(r, k) = {}
  <2>1. k \in Key /\ r.sent[k] \in Numbers
    BY <1>1, CarriedFacts
  <2>2. saved[k] \in Numbers \cup {Absent}
    BY <2>1 DEF Types
  <2> QED BY <1>3, <2>1, <2>2 DEF PutBack
<1> QED BY <1>2, <1>3

\* The answers.
LEMMA AnswerOkTyped ==
  ASSUME Types, NEW r \in requests, AnswerOk(r)
  PROVE  Types'
<1>1. Numbers' = Numbers /\ Places' = Places
  BY NoneMade DEF AnswerOk
<1>2. r \in Request(Numbers)
  BY DEF Types
<1> DEFINE kept == [k \in Key |-> IF k \in DOMAIN r.sent /\ saved[k] # Absent THEN r.sent[k] ELSE saved[k]]
<1>3. kept \in [Key -> Numbers \cup {Absent}]
  <2> SUFFICES ASSUME NEW k \in Key PROVE kept[k] \in Numbers \cup {Absent}
    OBVIOUS
  <2> QED BY <1>2, CarriedFacts DEF Types
<1>4. edit' \in Edits(Numbers) /\ saved' \in [Key -> Numbers \cup {Absent}] /\ gens' \in Gens
  <2>1. CASE Forget
    BY <2>1, ForgottenTyped DEF Forget
  <2>2. CASE /\ edit' = IF Settles(r) THEN [edit EXCEPT !.answered = TRUE] ELSE edit
             /\ saved' = kept /\ UNCHANGED gens
    <3>1. edit' = edit \/ edit' = [edit EXCEPT !.answered = TRUE]
      BY <2>2
    <3>2. edit' \in Edits(Numbers)
      BY <3>1 DEF Types, Edits
    <3> HIDE DEF kept
    <3> QED BY <1>3, <2>2, <3>2 DEF Types
  <2> QED BY <2>1, <2>2 DEF AnswerOk
<1>5. mislaid' \subseteq Places
  BY <1>2, CarriedFacts DEF AnswerOk, Types, Written
<1>6. Written'
  BY <1>5, WrittenStays DEF AnswerOk, Types, Written
<1> QED BY <1>1, <1>4, <1>6 DEF AnswerOk, Types, server

\* They stay with an answer for a replaced canvas.
LEMMA AnswerCutOffTyped ==
  ASSUME Types, NEW r \in requests, AnswerCutOff(r)
  PROVE  Types'
<1>1. Numbers' = Numbers /\ Places' = Places
  BY NoneMade DEF AnswerCutOff
<1>2. told' \subseteq Places
  BY CarriedFacts DEF AnswerCutOff, Types, Written
<1>3. Written'
  BY <1>2, WrittenStays DEF AnswerCutOff, Types, Written
<1> QED BY <1>1, <1>3 DEF AnswerCutOff, Types, server, book

\* They stay with a save that is parked.
LEMMA AnswerParkedTyped ==
  ASSUME Types, NEW r \in requests, AnswerParked(r)
  PROVE  Types'
<1>1. Numbers' = Numbers /\ Places' = Places
  BY NoneMade DEF AnswerParked
<1>2. r \in Request(Numbers) /\ Carried(r) \subseteq Places
  BY CarriedFacts DEF Types
<1>3. late' \subseteq Places
  BY <1>2 DEF AnswerParked, Types, Written
<1>4. Written'
  BY <1>3, WrittenStays DEF AnswerParked, Types, Written
<1>5. parked' \in [state : {"no", "kept", "due"}, saves : SUBSET Places]
  BY <1>2 DEF AnswerParked, Types
<1>6. edit' \in Edits(Numbers)
  <2>1. <<>> \in Part(Numbers) /\ edit \in Edits(Numbers)
    BY PartFacts DEF Types
  <2> QED BY <2>1 DEF AnswerParked, Edits
<1>7. gens' \in Gens
  <2>1. gens \in Gens /\ r.since \in Nat /\ gens.push \in Nat
    BY <1>2 DEF Types, Gens, Request
  <2>2. gens' = gens \/ gens' = [gens EXCEPT !.push = r.since]
    BY <2>1 DEF AnswerParked, Gens
  <2> QED BY <2>1, <2>2 DEF Gens
<1> QED BY <1>1, <1>4, <1>5, <1>6, <1>7 DEF AnswerParked, Types, server

\* They stay with a save that failed.
LEMMA AnswerFailedTyped ==
  ASSUME Types, NEW r \in requests, r.keys \subseteq DOMAIN r.sent, AnswerFailed(r)
  PROVE  Types'
<1>1. Numbers' = Numbers /\ Places' = Places
  BY NoneMade DEF AnswerFailed, PutsBack
<1>2. r \in Request(Numbers) /\ r.keys \subseteq Key
  BY DEF Types, Request
<1>3. \A k \in Back(r) : PutBack(r, k) \in Numbers
  BY PutBackFacts DEF Back
<1>4. tab' \in Card(Numbers)
  <2> DEFINE f == [k \in Key |-> IF k \in Back(r) THEN PutBack(r, k) ELSE tab.params[k]]
  <2>1. tab \in Card(Numbers)
    BY DEF Types
  <2>2. f \in [Key -> Numbers]
    <3> SUFFICES ASSUME NEW k \in Key PROVE f[k] \in Numbers
      OBVIOUS
    <3> QED BY <1>3, <2>1 DEF Card
  <2>3. tab' = [tab EXCEPT !.params = f]
    BY DEF AnswerFailed, PutsBack
  <2> HIDE DEF f
  <2> QED BY <2>1, <2>2, <2>3 DEF Card
<1>5. told' \subseteq Places
  BY <1>2, CarriedFacts DEF AnswerFailed, PutsBack, Types, Written
<1>6. unowned' \subseteq Places
  BY <1>3, NumberFacts DEF AnswerFailed, PutsBack, Types, Written, Orphans
<1>7. Written'
  BY <1>5, <1>6, WrittenStays DEF AnswerFailed, PutsBack, Types, Written
<1>8. edit' \in Edits(Numbers) /\ saved' \in [Key -> Numbers \cup {Absent}] /\ gens' \in Gens
  <2>1. CASE Settles(r)
    BY <2>1, ForgottenTyped DEF AnswerFailed, Forget
  <2>2. CASE ~Settles(r)
    <3> DEFINE g == [k \in Key |-> IF k \in Back(r) /\ Older(r, k) # {} THEN Newest(Older(r, k)).gen
                                   ELSE gens.key[k]]
    <3>1. gens \in Gens
      BY DEF Types
    <3>2. g \in [Key -> Nat]
      <4> SUFFICES ASSUME NEW k \in Key PROVE g[k] \in Nat
        OBVIOUS
      <4>1. Older(r, k) # {} => Newest(Older(r, k)).gen \in Nat
        BY NewestFacts DEF Types, Request
      <4> QED BY <3>1, <4>1 DEF Gens
    <3>3. gens' = [gens EXCEPT !.key = g]
      BY <2>2 DEF AnswerFailed
    <3> HIDE DEF g
    <3>4. gens' \in Gens
      BY <3>1, <3>2, <3>3 DEF Gens
    <3> QED BY <2>2, <3>4 DEF AnswerFailed, Types
  <2> QED BY <2>1, <2>2
<1>9. requests' \in SUBSET Request(Numbers)
  BY DEF AnswerFailed, PutsBack, Types
<1> QED BY <1>1, <1>4, <1>7, <1>8, <1>9 DEF AnswerFailed, PutsBack, Types, server

\* A sync arrives.
LEMMA HeadFacts ==
  ASSUME Types, syncs # <<>>, syncs' = Tail(syncs)
  PROVE  /\ Head(syncs) \in Message(Numbers) /\ syncs' \in Seq(Message(Numbers))
         /\ Len(syncs) \in Nat /\ 1 \in 1..Len(syncs) /\ Head(syncs) = syncs[1]
         /\ \A i \in 1..Len(syncs') : i + 1 \in 1..Len(syncs) /\ syncs'[i] = syncs[i + 1]
<1>1. syncs \in Seq(Message(Numbers))
  BY DEF Types
<1>2. Len(syncs) \in Nat /\ Len(syncs) # 0
  BY <1>1, EmptySeq, LenProperties
<1>3. Len(syncs') = Len(syncs) - 1
  BY <1>1, HeadTailProperties
<1>4. Head(syncs) \in Message(Numbers) /\ syncs' \in Seq(Message(Numbers)) /\ Head(syncs) = syncs[1]
  BY <1>1, HeadTailProperties
<1>5. \A i \in 1..Len(syncs') : syncs'[i] = syncs[i + 1]
  BY <1>1, HeadTailProperties
<1>6. \A i \in 1..Len(syncs') : i + 1 \in 1..Len(syncs)
  BY <1>2, <1>3
<1> QED BY <1>2, <1>4, <1>5, <1>6

\* The card as a sync shows it.
LEMMA ShownTyped ==
  ASSUME NEW N, tab \in Card(N), NEW s \in Message(N), NEW params \in [Key -> N]
  PROVE  /\ Shown(s, params) \in Card(N)
         /\ Shown(s, params).params = params /\ Shown(s, params).rev = s.rev
         /\ Shown(s, params).boot = s.boot /\ Shown(s, params).canvas = s.canvas
         /\ Shown(s, params).edits = tab.edits /\ Shown(s, params).pushes = tab.pushes
         /\ Shown(s, params).graph = IF s.kind = "import" \/ ~SameCanvas(s) THEN tab.graph + 1 ELSE tab.graph
<1> DEFINE g == IF s.kind = "import" \/ ~SameCanvas(s) THEN tab.graph + 1 ELSE tab.graph
<1>1. g \in Nat /\ s.rev \in Nat /\ s.boot \in Nat /\ s.canvas \in Nat /\ s.shape \in Nat
  BY DEF Card, Message
<1>2. Shown(s, params) = [tab EXCEPT !.params = params, !.rev = s.rev, !.boot = s.boot, !.canvas = s.canvas,
                                     !.shape = s.shape, !.graph = g]
  BY DEF Shown
<1> HIDE DEF g
<1> QED BY <1>1, <1>2 DEF Card, g

\* They stay with a sync that arrives.
LEMMA SyncTyped ==
  ASSUME Types, ReceiveSync
  PROVE  Types'
<1> DEFINE s == Head(syncs)
<1>1. /\ syncs # <<>> /\ syncs' = Tail(syncs) /\ (SyncImport(s) \/ SyncOtherCanvas(s) \/ SyncMerged(s))
      /\ UNCHANGED <<nebula, socket, requests, made, order, astray, unowned, mislaid, bounds>>
  BY DEF ReceiveSync
<1>2. Numbers' = Numbers /\ Places' = Places
  BY <1>1, NoneMade
<1>3. s \in Message(Numbers) /\ syncs' \in Seq(Message(Numbers))
  BY <1>1, HeadFacts
<1> HIDE DEF s
<1>4. tab \in Card(Numbers) /\ s.params \in [Key -> Numbers] /\ tab.params \in [Key -> Numbers]
  BY <1>3 DEF Types, Card, Message
<1>5. \A k \in Key : tab.params[k] \in Numbers /\ Abs(tab.params[k]) \in Places
  BY <1>4, NumberFacts
<1>6. NoneParked \in [state : {"no", "kept", "due"}, saves : SUBSET Places] /\ parked.saves \subseteq Places
  BY DEF NoneParked, Types
<1>7. edit.keys \subseteq Key
  BY DEF Types, Edits
<1>8. CASE SyncImport(s)
  <2>1. tab' \in Card(Numbers)
    BY <1>3, <1>4, <1>8, ShownTyped DEF SyncImport
  <2>2. edit' \in Edits(Numbers) /\ saved' \in [Key -> Numbers \cup {Absent}] /\ gens' \in Gens
    BY <1>8, ForgottenTyped DEF SyncImport, Forget
  <2>3. told' \subseteq Places /\ cut' \subseteq Places /\ late' \subseteq Places
    BY <1>5, <1>6, <1>7, <1>8 DEF SyncImport, Types, Written
  <2>4. Written'
    BY <1>1, <2>3, WrittenStays DEF Types, Written
  <2> QED BY <1>1, <1>2, <1>3, <1>6, <1>8, <2>1, <2>2, <2>4 DEF SyncImport, Types
<1>9. CASE SyncOtherCanvas(s)
  <2>1. tab' \in Card(Numbers)
    BY <1>3, <1>4, <1>9, ShownTyped DEF SyncOtherCanvas
  <2>2. edit' \in Edits(Numbers) /\ saved' \in [Key -> Numbers \cup {Absent}] /\ gens' \in Gens
    BY <1>9, ForgottenTyped DEF SyncOtherCanvas, Forget
  <2>3. told' \subseteq Places /\ cut' \subseteq Places /\ late' \subseteq Places
    BY <1>5, <1>6, <1>7, <1>9 DEF SyncOtherCanvas, Types, Written
  <2>4. Written'
    BY <1>1, <2>3, WrittenStays DEF Types, Written
  <2> QED BY <1>1, <1>2, <1>3, <1>6, <1>9, <2>1, <2>2, <2>4 DEF SyncOtherCanvas, Types
<1>10. CASE SyncMerged(s)
  <2> DEFINE f == [k \in Key |-> IF k \in edit'.keys THEN tab.params[k] ELSE s.params[k]]
  <2>1. f \in [Key -> Numbers] /\ tab' = Shown(s, f)
    BY <1>4, <1>10 DEF SyncMerged
  <2> HIDE DEF f
  <2>2. tab' \in Card(Numbers)
    BY <1>3, <1>4, <2>1, ShownTyped
  <2>3. edit' \in Edits(Numbers) /\ saved' \in [Key -> Numbers \cup {Absent}] /\ gens' \in Gens
    <3>1. CASE LetsGo(s)
      BY <1>10, <3>1, ForgottenTyped DEF SyncMerged, Forget
    <3>2. CASE ~LetsGo(s)
      <4> DEFINE b == edit.echoed \/ Echo(s)
      <4>1. edit' = [edit EXCEPT !.echoed = b] /\ UNCHANGED <<saved, gens>>
        BY <1>10, <3>2 DEF SyncMerged
      <4>2. b \in BOOLEAN
        BY DEF Types, Edits
      <4> HIDE DEF b
      <4>3. edit' \in Edits(Numbers)
        BY <4>1, <4>2 DEF Types, Edits
      <4> QED BY <4>1, <4>3 DEF Types
    <3> QED BY <3>1, <3>2
  <2>4. parked' \in [state : {"no", "kept", "due"}, saves : SUBSET Places]
    BY <1>10 DEF SyncMerged, Types
  <2>5. Written' /\ timer' = timer
    BY <1>1, <1>10, WrittenStays DEF Types, Written, SyncMerged
  <2> QED BY <1>1, <1>2, <1>3, <2>2, <2>3, <2>4, <2>5 DEF Types
<1> QED BY <1>1, <1>8, <1>9, <1>10

-----------------------------------------------------------------------------
(* The books of the edit *)

\* The edit counts its keystrokes, and knows what its keys were.
Kept ==
  /\ edit.id <= tab.edits
  /\ edit = NoEdit \/ (1 <= edit.id /\ edit.keys # {})
  /\ edit = NoEdit => saved = NoneSaved /\ gens = NoGens
  /\ DOMAIN edit.sent \subseteq edit.keys
  /\ \A k \in edit.keys : saved[k] # Absent /\ edit.before[k] # Absent
  /\ gens.push <= gens.edit /\ \A k \in Key : gens.key[k] <= gens.edit

\* A save is one of this edit while the canvas it was typed on is shown.
Owns(r) ==
  /\ r.keys \subseteq DOMAIN r.sent /\ r.id <= tab.pushes /\ r.since <= r.gen
  /\ 1 <= r.edit /\ r.edit <= tab.edits /\ r.graph <= tab.graph
  /\ r.graph = tab.graph <=> r.edit = edit.id
  /\ r.edit = edit.id => DOMAIN r.sent \subseteq edit.keys /\ r.gen <= gens.edit
OkTaken(r) == r.state = "ok" => Carried(r) \subseteq Taken
Apart == \A p, q \in requests : p.id = q.id => p = q
Booked == Kept /\ Apart /\ \A r \in requests : Owns(r) /\ OkTaken(r)

\* The request that moved on is the same but for its state.
LEMMA MovedFields ==
  ASSUME NEW N, NEW r \in Request(N), NEW state \in States
  PROVE  LET v == [r EXCEPT !.state = state] IN
         /\ v.id = r.id /\ v.edit = r.edit /\ v.gen = r.gen /\ v.since = r.since /\ v.keys = r.keys
         /\ v.sent = r.sent /\ v.rev = r.rev /\ v.graph = r.graph /\ v.resent = r.resent
         /\ v.state = state /\ Carried(v) = Carried(r)
BY DEF Request, Carried

\* A step that keeps the edit keeps its saves' books.
LEMMA OwnsStays ==
  ASSUME Types, Types', NEW r \in Request(Numbers), Owns(r),
         edit'.id = edit.id, edit.keys \subseteq edit'.keys, gens.edit <= gens'.edit,
         tab'.graph = tab.graph, tab.edits <= tab'.edits, tab.pushes <= tab'.pushes
  PROVE  Owns(r)'
<1>1. /\ r.id \in Nat /\ r.gen \in Nat /\ r.edit \in Nat /\ r.graph \in Nat
      /\ gens.edit \in Nat /\ gens'.edit \in Nat /\ tab.edits \in Nat /\ tab'.edits \in Nat
      /\ tab.pushes \in Nat /\ tab'.pushes \in Nat
  BY DEF Types, Request, Gens, Card
<1>2. r.id <= tab'.pushes /\ r.edit <= tab'.edits /\ (r.edit = edit.id => r.gen <= gens'.edit)
  BY <1>1 DEF Owns
<1> QED BY <1>2 DEF Owns

\* One that ends the edit leaves no save of the canvas shown.
LEMMA OwnsForgotten ==
  ASSUME Types, Types', NEW r \in Request(Numbers), Owns(r), edit' = NoEdit,
         tab.graph <= tab'.graph, tab'.graph # r.graph, tab'.edits = tab.edits, tab'.pushes = tab.pushes
  PROVE  Owns(r)'
<1>1. r.graph \in Nat /\ tab.graph \in Nat /\ tab'.graph \in Nat /\ r.edit \in Nat
  BY DEF Types, Request, Card
<1>2. r.graph <= tab'.graph /\ r.edit # 0
  BY <1>1 DEF Owns
<1> QED BY <1>2 DEF Owns, NoEdit

\* Without an edit its books are empty.
LEMMA KeptForgotten ==
  ASSUME Types', Forget
  PROVE  Kept'
<1>1. /\ edit' = NoEdit /\ saved' = NoneSaved /\ gens' = NoGens /\ tab'.edits \in Nat
      /\ edit'.id = 0 /\ edit'.keys = {} /\ DOMAIN edit'.sent = {}
      /\ gens'.push = 0 /\ gens'.edit = 0 /\ \A k \in Key : gens'.key[k] = 0
  BY DEF Forget, NoEdit, NoGens, Fresh, Types, Card
<1> QED BY <1>1 DEF Kept

\* A step of the backend leaves the books, and what was taken is taken.
LEMMA BookedStays ==
  ASSUME Booked, UNCHANGED <<tab, edit, saved, gens, requests>>, Taken \subseteq Taken'
  PROVE  Booked'
<1>1. Kept' /\ Apart'
  BY DEF Booked, Kept, Apart
<1>2. ASSUME NEW r \in requests' PROVE Owns(r)' /\ OkTaken(r)'
  <2>1. Owns(r) /\ OkTaken(r)
    BY <1>2 DEF Booked
  <2> QED BY <2>1 DEF Owns, OkTaken
<1> QED BY <1>1, <1>2 DEF Booked

\* A request that moves on keeps them too.
LEMMA BookedMoves ==
  ASSUME Types, Booked, UNCHANGED <<tab, edit, saved, gens>>, Taken \subseteq Taken',
         NEW r \in requests, NEW state \in States, state = "ok" => Carried(r) \subseteq Taken',
         requests' = (requests \ {r}) \cup {[r EXCEPT !.state = state]}
  PROVE  Booked'
<1> DEFINE v == [r EXCEPT !.state = state]
<1>1. /\ v.id = r.id /\ v.edit = r.edit /\ v.gen = r.gen /\ v.since = r.since /\ v.keys = r.keys
      /\ v.sent = r.sent /\ v.rev = r.rev /\ v.graph = r.graph
      /\ v.state = state /\ Carried(v) = Carried(r)
  <2>1. r \in Request(Numbers)
    BY DEF Types
  <2> QED BY <2>1, MovedFields
<1> HIDE DEF v
<1>2. requests' = (requests \ {r}) \cup {v}
  BY DEF v
<1>3. Kept'
  BY DEF Booked, Kept
<1>4. Apart'
  BY <1>1, <1>2 DEF Booked, Apart
<1>5. ASSUME NEW p \in requests PROVE Owns(p)' /\ OkTaken(p)'
  BY <1>5 DEF Booked, Owns, OkTaken
<1>6. Owns(v)'
  <2>1. Owns(r)'
    BY <1>5
  <2> QED BY <1>1, <2>1 DEF Owns
<1>7. OkTaken(v)'
  BY <1>1 DEF OkTaken
<1> QED BY <1>2, <1>3, <1>4, <1>5, <1>6, <1>7 DEF Booked

\* What the steps of the backend do to the rest.
LEMMA BackendFacts ==
  ASSUME Types,
         \/ \E k \in Key : AgentEdit(k)
         \/ \E kind \in {"clear", "import"} : AgentReplaces(kind)
         \/ Gap \/ Reconnect \/ Restart
  PROVE  /\ UNCHANGED <<tab, edit, saved, gens, timer, parked, requests>>
         /\ UNCHANGED <<told, cut, late, astray, unowned, mislaid>>
         /\ Taken \subseteq Taken'
<1>1. ASSUME NEW k \in Key, AgentEdit(k) PROVE Taken \subseteq Taken'
  <2> DEFINE S == {Len(made')}
             P == Places \cup S
  <2>1. order' = Append(order, S) /\ order \in Seq(SUBSET Places)
    BY <1>1 DEF AgentEdit, Types, Written
  <2>2. S \in SUBSET P /\ SUBSET Places \subseteq SUBSET P
    OBVIOUS
  <2> HIDE DEF S, P
  <2>3. order \in Seq(SUBSET P)
    BY <2>1, <2>2, SeqMonotonic
  <2>4. Taken' = Taken \cup S
    BY <2>1, <2>2, <2>3, TakenFacts
  <2> QED BY <2>4
<1>2. CASE \E k \in Key : AgentEdit(k)
  BY <1>1, <1>2 DEF AgentEdit, book
<1>3. CASE \E kind \in {"clear", "import"} : AgentReplaces(kind)
  BY <1>3, TakenStays DEF AgentReplaces, book, past
<1>4. CASE Gap \/ Reconnect \/ Restart
  BY <1>4, TakenStays DEF Gap, Reconnect, Restart, book, past
<1> QED BY <1>2, <1>3, <1>4

\* What is taken by a delivery is what was carried.
LEMMA DeliverFacts ==
  ASSUME Types, NEW r \in requests, Deliver(r)
  PROVE  /\ UNCHANGED <<tab, edit, saved, gens, timer, parked, made, told, cut, late, unowned, mislaid>>
         /\ Taken \subseteq Taken'
         /\ \E state \in {"stale", "ok"} :
              /\ requests' = (requests \ {r}) \cup {[r EXCEPT !.state = state]}
              /\ state = "ok" => Taken' = Taken \cup Carried(r)
<1>1. r \in Request(Numbers) /\ order \in Seq(SUBSET Places) /\ Carried(r) \subseteq Places
  BY CarriedFacts DEF Types, Written
<1>2. CASE r.rev # nebula.rev
  BY <1>2, TakenStays DEF Deliver, book
<1>3. CASE r.rev = nebula.rev
  <2>1. order' = Append(order, Carried(r)) /\ requests' = (requests \ {r}) \cup {[r EXCEPT !.state = "ok"]}
    BY <1>3 DEF Deliver
  <2>2. Taken' = Taken \cup Carried(r)
    BY <1>1, <2>1, TakenFacts
  <2> QED BY <2>1, <2>2 DEF Deliver, book
<1> QED BY <1>2, <1>3

\* A keystroke: the card, the edit and its generations.
LEMMA TypeFacts ==
  ASSUME Types, Kept, NEW k \in Key, Type(k)
  PROVE  /\ edit'.id = IF edit = NoEdit THEN tab.edits + 1 ELSE edit.id
         /\ edit'.keys = edit.keys \cup {k} /\ edit'.sent = edit.sent
         /\ \A q \in Key : edit'.before[q] = IF q = k /\ q \notin edit.keys THEN tab.params[k] ELSE edit.before[q]
         /\ tab'.params = [tab.params EXCEPT ![k] = Len(made')]
         /\ tab'.edits = IF edit = NoEdit THEN tab.edits + 1 ELSE tab.edits
         /\ tab'.graph = tab.graph /\ tab'.pushes = tab.pushes /\ tab'.rev = tab.rev
         /\ tab'.boot = tab.boot /\ tab'.canvas = tab.canvas
         /\ saved' = [saved EXCEPT ![k] = IF @ = Absent THEN tab.params[k] ELSE @]
         /\ gens'.edit = gens.edit + 1 /\ gens'.push = gens.push
         /\ gens'.key = [gens.key EXCEPT ![k] = gens.edit + 1]
         /\ timer' = TRUE
         /\ made' = Append(made, [who |-> "person", key |-> k, canvas |-> tab.canvas,
                                  boot |-> tab.boot, graph |-> tab.graph])
         /\ UNCHANGED <<server, parked, requests, order, told, cut, late, astray, unowned, mislaid>>
<1>1. /\ tab \in Card(Numbers) /\ edit \in Edits(Numbers) /\ gens \in Gens
  BY DEF Types
<1> DEFINE e == IF edit = NoEdit THEN [NoEdit EXCEPT !.id = tab.edits + 1] ELSE edit
           was == IF k \in e.keys THEN e.before[k] ELSE tab.params[k]
           n == IF edit = NoEdit THEN tab.edits + 1 ELSE tab.edits
<1>2. /\ e.id = (IF edit = NoEdit THEN tab.edits + 1 ELSE edit.id) /\ e.keys = edit.keys
      /\ e.sent = edit.sent /\ e.before = edit.before /\ e \in Edits(Numbers)
  <2>1. CASE edit = NoEdit
    <3>1. NoEdit \in Edits(Numbers) /\ tab.edits + 1 \in Nat
      BY <1>1, ForgottenTyped DEF Card
    <3>2. [NoEdit EXCEPT !.id = tab.edits + 1] \in Edits(Numbers)
      BY <3>1 DEF Edits
    <3> QED BY <2>1, <3>2 DEF NoEdit
  <2>2. CASE edit # NoEdit
    BY <1>1, <2>2
  <2> QED BY <2>1, <2>2
<1>3. /\ edit' = [e EXCEPT !.keys = @ \cup {k}, !.before[k] = was]
      /\ tab' = [tab EXCEPT !.params[k] = Len(made'), !.edits = n]
      /\ gens' = [gens EXCEPT !.edit = @ + 1, !.key[k] = gens.edit + 1]
  BY DEF Type
<1>4. was = IF k \in edit.keys THEN edit.before[k] ELSE tab.params[k]
  BY <1>2
<1> HIDE DEF e, was, n
<1>5. /\ edit'.id = e.id /\ edit'.keys = e.keys \cup {k} /\ edit'.sent = e.sent
      /\ \A q \in Key : edit'.before[q] = IF q = k THEN was ELSE e.before[q]
  BY <1>2, <1>3 DEF Edits
<1>6. \A q \in Key : edit'.before[q] = IF q = k /\ q \notin edit.keys THEN tab.params[k] ELSE edit.before[q]
  BY <1>2, <1>4, <1>5
<1>7. /\ tab'.params = [tab.params EXCEPT ![k] = Len(made')] /\ tab'.edits = n
      /\ tab'.graph = tab.graph /\ tab'.pushes = tab.pushes /\ tab'.rev = tab.rev
      /\ tab'.boot = tab.boot /\ tab'.canvas = tab.canvas
  BY <1>1, <1>3 DEF Card
<1>8. /\ gens'.edit = gens.edit + 1 /\ gens'.push = gens.push
      /\ gens'.key = [gens.key EXCEPT ![k] = gens.edit + 1]
  BY <1>1, <1>3 DEF Gens
<1> QED BY <1>2, <1>5, <1>6, <1>7, <1>8 DEF Type, n

\* A keystroke keeps the books.
LEMMA TypeBooked ==
  ASSUME Types, Types', Booked, NEW k \in Key, Type(k)
  PROVE  Booked'
<1>0. /\ Kept /\ Apart
      /\ edit'.id = IF edit = NoEdit THEN tab.edits + 1 ELSE edit.id
      /\ edit'.keys = edit.keys \cup {k} /\ edit'.sent = edit.sent
      /\ \A q \in Key : edit'.before[q] = IF q = k /\ q \notin edit.keys THEN tab.params[k] ELSE edit.before[q]
      /\ tab'.edits = IF edit = NoEdit THEN tab.edits + 1 ELSE tab.edits
      /\ tab'.graph = tab.graph /\ tab'.pushes = tab.pushes
      /\ saved' = [saved EXCEPT ![k] = IF @ = Absent THEN tab.params[k] ELSE @]
      /\ gens'.edit = gens.edit + 1 /\ gens'.push = gens.push
      /\ gens'.key = [gens.key EXCEPT ![k] = gens.edit + 1]
      /\ requests' = requests /\ order' = order
  BY TypeFacts DEF Booked
<1>1. /\ edit.keys \subseteq Key /\ gens.edit \in Nat /\ gens.push \in Nat /\ gens.key \in [Key -> Nat]
      /\ tab.edits \in Nat /\ edit.id \in Nat /\ saved \in [Key -> Numbers \cup {Absent}]
      /\ tab.params \in [Key -> Numbers]
  BY DEF Types, Edits, Gens, Card
<1>2. \A q \in Key : tab.params[q] # Absent
  BY <1>1, NumberFacts
<1>3. gens'.push <= gens'.edit /\ \A q \in Key : gens'.key[q] <= gens'.edit
  <2>1. gens.push <= gens.edit /\ \A q \in Key : gens.key[q] <= gens.edit
    BY <1>0 DEF Kept
  <2> QED BY <1>0, <1>1, <2>1
<1>4. \A q \in edit'.keys : saved'[q] # Absent /\ edit'.before[q] # Absent
  <2>1. \A q \in edit.keys : saved[q] # Absent /\ edit.before[q] # Absent
    BY <1>0 DEF Kept
  <2> QED BY <1>0, <1>1, <1>2, <2>1
<1>5. 1 <= edit'.id /\ edit'.id <= tab'.edits /\ edit'.keys # {}
  <2>1. edit = NoEdit \/ (1 <= edit.id /\ edit.id <= tab.edits)
    BY <1>0 DEF Kept
  <2>2. 1 <= edit'.id /\ edit'.id <= tab'.edits
    BY <1>0, <1>1, <2>1
  <2> QED BY <1>0, <2>2
<1>6. edit' # NoEdit
  BY <1>5 DEF NoEdit
<1>7. Kept'
  <2>1. DOMAIN edit'.sent \subseteq edit'.keys
    BY <1>0 DEF Kept
  <2> QED BY <1>3, <1>4, <1>5, <1>6, <2>1 DEF Kept
<1>8. Apart' /\ Taken' = Taken
  BY <1>0, TakenStays DEF Apart
<1>9. ASSUME NEW r \in requests PROVE Owns(r)'
  <2>1. r \in Request(Numbers) /\ Owns(r)
    BY DEF Types, Booked
  <2>2. CASE edit # NoEdit
    <3>1. /\ edit'.id = edit.id /\ edit.keys \subseteq edit'.keys /\ gens.edit <= gens'.edit
          /\ tab'.graph = tab.graph /\ tab.edits <= tab'.edits /\ tab.pushes <= tab'.pushes
      <4>1. tab.pushes \in Nat
        BY DEF Types, Card
      <4>2. edit'.id = edit.id /\ tab'.edits = tab.edits /\ tab'.pushes = tab.pushes
        BY <1>0, <2>2
      <4>3. gens.edit <= gens'.edit
        BY <1>0, <1>1
      <4> QED BY <1>0, <1>1, <4>1, <4>2, <4>3
    <3> QED BY <2>1, <3>1, OwnsStays
  <2>3. CASE edit = NoEdit
    <3>1. r.edit \in Nat /\ r.graph \in Nat /\ tab.graph \in Nat
      BY <2>1 DEF Types, Request, Card
    <3>2. edit.id = 0 /\ r.edit # 0 /\ r.edit # tab.edits + 1
      BY <1>0, <1>1, <2>1, <2>3, <3>1 DEF NoEdit, Owns
    <3>3. r.graph # tab.graph /\ edit'.id = tab.edits + 1 /\ tab'.edits = tab.edits + 1
      BY <1>0, <2>1, <2>3, <3>2 DEF Owns
    <3>4. r.edit <= tab'.edits
      BY <1>1, <2>1, <3>1, <3>3 DEF Owns
    <3> QED BY <1>0, <2>1, <3>2, <3>3, <3>4 DEF Owns
  <2> QED BY <2>2, <2>3
<1> QED BY <1>0, <1>7, <1>8, <1>9 DEF Booked, OkTaken

\* A push keeps them: its save is newer than the others.
LEMMA PushBooked ==
  ASSUME Types, Types', Booked, NEW resent \in BOOLEAN, Push(resent), order' = order
  PROVE  Booked'
<1>1. Taken' = Taken
  BY TakenStays
<1>2. CASE edit = NoEdit
  BY <1>1, <1>2, PushFacts, BookedStays DEF book
<1>3. CASE edit # NoEdit
  <2>0. PICK p \in Request(Numbers) : p = Sending(resent)
    BY <1>3, PushFacts
  <2>1. /\ p \in Request(Numbers) /\ requests' = requests \cup {p}
        /\ tab' = [tab EXCEPT !.pushes = @ + 1] /\ gens' = [gens EXCEPT !.push = gens.edit] /\ saved' = saved
        /\ edit'.id = edit.id /\ edit'.keys = edit.keys /\ DOMAIN edit'.sent = edit.keys
        /\ edit'.before = edit.before
    BY <1>3, <2>0, PushFacts
  <2>2. /\ tab'.edits = tab.edits /\ tab'.graph = tab.graph /\ tab'.pushes = tab.pushes + 1
        /\ gens'.edit = gens.edit /\ gens'.key = gens.key /\ gens'.push = gens.edit
        /\ tab.pushes \in Nat /\ gens.edit \in Nat /\ gens.push \in Nat /\ tab.edits \in Nat
    BY <2>1 DEF Types, Card, Gens
  <2>3. 1 <= edit.id /\ edit.keys # {} /\ edit.id <= tab.edits /\ gens.push <= gens.edit /\ edit.id \in Nat
    BY <1>3 DEF Booked, Kept, Types, Edits
  <2>4. edit' # NoEdit
    BY <2>1, <2>3 DEF NoEdit
  <2>5. Kept'
    BY <2>1, <2>2, <2>3, <2>4 DEF Booked, Kept
  <2>6. /\ p.id = tab.pushes + 1 /\ p.edit = edit.id /\ p.gen = gens.edit /\ p.since = gens.push
        /\ p.keys \subseteq edit.keys /\ DOMAIN p.sent = edit.keys /\ p.graph = tab.graph /\ p.state = "sent"
    BY <2>0 DEF Sending
  <2>7. Owns(p)' /\ OkTaken(p)'
    <3>1. p.id <= tab'.pushes /\ p.since <= p.gen /\ p.graph <= tab'.graph /\ p.gen <= gens'.edit
      <4>1. tab.graph \in Nat
        BY DEF Types, Card
      <4> QED BY <2>2, <2>3, <2>6, <4>1
    <3> QED BY <2>1, <2>2, <2>3, <2>6, <3>1 DEF Owns, OkTaken
  <2>8. ASSUME NEW r \in requests PROVE Owns(r)' /\ OkTaken(r)' /\ r.id # p.id
    <3>1. r \in Request(Numbers) /\ Owns(r) /\ OkTaken(r)
      BY DEF Types, Booked
    <3>2. Owns(r)'
      BY <2>1, <2>2, <3>1, OwnsStays
    <3>3. r.id # p.id
      BY <2>2, <2>6, <3>1 DEF Owns, Request
    <3> QED BY <1>1, <3>1, <3>2, <3>3 DEF OkTaken
  <2>9. Apart'
    BY <2>1, <2>8 DEF Booked, Apart
  <2> QED BY <2>1, <2>5, <2>7, <2>8, <2>9 DEF Booked
<1> QED BY <1>2, <1>3

\* An answer, or a sync, that keeps the edit.
LEMMA BookedEdits ==
  ASSUME Types, Types', Booked, Kept', requests' \subseteq requests, Taken' = Taken,
         edit'.id = edit.id, edit'.keys = edit.keys, gens'.edit = gens.edit,
         tab'.graph = tab.graph, tab'.edits = tab.edits, tab'.pushes = tab.pushes
  PROVE  Booked'
<1>1. gens.edit <= gens'.edit /\ tab.edits <= tab'.edits /\ tab.pushes <= tab'.pushes
  BY DEF Types, Gens, Card
<1>2. ASSUME NEW r \in requests' PROVE Owns(r)' /\ OkTaken(r)'
  <2>1. r \in Request(Numbers) /\ Owns(r) /\ OkTaken(r)
    BY DEF Types, Booked
  <2>2. Owns(r)'
    BY <1>1, <2>1, OwnsStays
  <2> QED BY <2>1, <2>2 DEF OkTaken
<1>3. Apart'
  BY DEF Booked, Apart
<1> QED BY <1>2, <1>3 DEF Booked

\* One that lets it go: no save of the canvas shown is out.
LEMMA BookedForgets ==
  ASSUME Types, Types', Booked, Forget, requests' \subseteq requests, Taken' = Taken,
         \A r \in requests' : r.graph # tab'.graph,
         tab.graph <= tab'.graph, tab'.edits = tab.edits, tab'.pushes = tab.pushes
  PROVE  Booked'
<1>1. Kept' /\ edit' = NoEdit
  BY KeptForgotten DEF Forget
<1>2. ASSUME NEW r \in requests' PROVE Owns(r)' /\ OkTaken(r)'
  <2>1. r \in Request(Numbers) /\ Owns(r) /\ OkTaken(r)
    BY DEF Types, Booked
  <2>2. Owns(r)'
    BY <1>1, <2>1, OwnsForgotten
  <2> QED BY <2>1, <2>2 DEF OkTaken
<1>3. Apart'
  BY DEF Booked, Apart
<1> QED BY <1>1, <1>2, <1>3 DEF Booked

\* What a timer starts keeps them.
LEMMA TimersBooked ==
  ASSUME Types, Types', Booked, Debounced \/ Resend \/ ParkedTimeout \/ Linger
  PROVE  Booked'
<1>1. Taken' = Taken
  BY TakenStays DEF Debounced, Resend, ParkedTimeout, Linger, past
<1>2. CASE Debounced
  BY <1>2, PushBooked DEF Debounced, past
<1>3. CASE Resend
  <2>1. CASE timer
    BY <1>1, <1>3, <2>1, BookedStays DEF Resend, book
  <2>2. CASE ~timer
    BY <1>3, <2>2, PushBooked DEF Resend, past
  <2> QED BY <2>1, <2>2
<1>4. CASE ParkedTimeout
  BY <1>1, <1>4, BookedStays DEF ParkedTimeout, book
<1>5. CASE Linger
  <2>1. Forget /\ tab' = tab /\ requests' = requests /\ Out = {}
    BY <1>5 DEF Linger, Settled
  <2>2. \A r \in requests' : r.graph # tab'.graph
    BY <2>1 DEF Booked, Owns, Out
  <2>3. tab.graph <= tab'.graph
    BY <2>1 DEF Types, Card
  <2> QED BY <1>1, <2>1, <2>2, <2>3, BookedForgets
<1> QED BY <1>2, <1>3, <1>4, <1>5

\* An answer keeps them, and the one that settles the edit leaves no save of it.
LEMMA AnswersBooked ==
  ASSUME Types, Types', Booked, NEW r \in requests, Answers(r)
  PROVE  Booked'
<1>1. Taken' = Taken /\ requests' = requests \ {r}
  BY TakenStays DEF Answers, AnswerOk, AnswerCutOff, AnswerParked, AnswerFailed, PutsBack
<1>2. r \in Request(Numbers) /\ Owns(r)
  BY DEF Types, Booked
<1>3. ASSUME Settles(r), Forget, tab'.graph = tab.graph, tab'.edits = tab.edits, tab'.pushes = tab.pushes
      PROVE  Booked'
  <2>1. \A p \in requests' : p.graph # tab'.graph
    BY <1>1, <1>3 DEF Booked, Owns, Out, Settles
  <2>2. tab.graph <= tab'.graph
    BY <1>3 DEF Types, Card
  <2> QED BY <1>1, <1>3, <2>1, <2>2, BookedForgets
<1>4. CASE AnswerOk(r)
  <2>1. tab' = tab
    BY <1>4 DEF AnswerOk
  <2>2. CASE Settles(r) /\ (edit.echoed \/ DOMAIN edit.sent = {})
    BY <1>3, <1>4, <2>1, <2>2 DEF AnswerOk
  <2>3. CASE ~(Settles(r) /\ (edit.echoed \/ DOMAIN edit.sent = {}))
    <3>1. /\ edit' = edit \/ edit' = [edit EXCEPT !.answered = TRUE]
          /\ saved' = [k \in Key |-> IF k \in DOMAIN r.sent /\ saved[k] # Absent THEN r.sent[k] ELSE saved[k]]
          /\ gens' = gens
      BY <1>4, <2>3 DEF AnswerOk
    <3>2. /\ edit'.id = edit.id /\ edit'.keys = edit.keys /\ edit'.sent = edit.sent
          /\ edit'.before = edit.before
      BY <3>1 DEF Types, Edits
    <3>3. \A k \in edit.keys : saved'[k] # Absent
      <4> SUFFICES ASSUME NEW k \in edit.keys PROVE saved'[k] # Absent
        OBVIOUS
      <4>1. k \in Key /\ saved[k] # Absent
        BY DEF Booked, Kept, Types, Edits
      <4>2. k \in DOMAIN r.sent => r.sent[k] # Absent
        BY <1>2, CarriedFacts, NumberFacts
      <4> QED BY <3>1, <4>1, <4>2
    <3>4. CASE edit = NoEdit
      <4>1. saved' = NoneSaved /\ edit' = NoEdit
        <5>1. saved = NoneSaved /\ r.edit # 0
          BY <1>2, <3>4 DEF Booked, Kept, Owns, Request
        <5>2. edit' = edit
          BY <1>4, <2>3, <3>4, <5>1 DEF AnswerOk, Settles, NoEdit
        <5> QED BY <3>1, <3>4, <5>1, <5>2 DEF NoneSaved
      <4>2. Kept'
        BY <2>1, <3>1, <3>2, <3>3, <3>4, <4>1 DEF Booked, Kept
      <4> QED BY <1>1, <2>1, <3>1, <3>2, <4>2, BookedEdits
    <3>5. CASE edit # NoEdit
      <4>1. edit.keys # {} /\ 1 <= edit.id
        BY <3>5 DEF Booked, Kept
      <4>2. edit' # NoEdit
        BY <3>2, <4>1 DEF NoEdit
      <4>3. Kept'
        BY <2>1, <3>1, <3>2, <3>3, <4>1, <4>2 DEF Booked, Kept
      <4> QED BY <1>1, <2>1, <3>1, <3>2, <4>3, BookedEdits
    <3> QED BY <3>4, <3>5
  <2> QED BY <2>2, <2>3
<1>5. CASE AnswerCutOff(r)
  <2>1. UNCHANGED <<tab, edit, saved, gens>>
    BY <1>5 DEF AnswerCutOff, book
  <2>2. Kept'
    BY <2>1 DEF Booked, Kept
  <2> QED BY <1>1, <2>1, <2>2, BookedEdits
<1>6. CASE AnswerParked(r)
  <2>1. /\ edit' = [edit EXCEPT !.sent = <<>>] /\ tab' = tab /\ saved' = saved /\ r.edit = edit.id
        /\ gens' = [gens EXCEPT !.push = IF @ = r.gen THEN r.since ELSE @]
    BY <1>6 DEF AnswerParked, Parks
  <2>2. /\ edit'.id = edit.id /\ edit'.keys = edit.keys /\ DOMAIN edit'.sent = {}
        /\ edit'.before = edit.before
    BY <2>1 DEF Types, Edits
  <2> DEFINE push == IF gens.push = r.gen THEN r.since ELSE gens.push
  <2>3. gens' = [gens EXCEPT !.push = push]
    BY <2>1 DEF Types, Gens
  <2>4. push <= gens.edit
    <3>1. r.since \in Nat /\ r.gen \in Nat /\ gens.edit \in Nat /\ gens.push \in Nat
      BY <1>2 DEF Types, Gens, Request
    <3> QED BY <1>2, <2>1, <3>1 DEF Owns, Booked, Kept
  <2> HIDE DEF push
  <2>5. gens'.edit = gens.edit /\ gens'.key = gens.key /\ gens'.push = push
    BY <2>3 DEF Types, Gens
  <2>6. edit.keys # {} /\ 1 <= edit.id
    <3>1. edit.id # 0
      BY <1>2, <2>1 DEF Owns, Request
    <3> QED BY <3>1 DEF Booked, Kept, NoEdit
  <2>7. edit' # NoEdit
    BY <2>2, <2>6 DEF NoEdit
  <2>8. Kept'
    BY <2>1, <2>2, <2>4, <2>5, <2>6, <2>7 DEF Booked, Kept
  <2> QED BY <1>1, <2>1, <2>2, <2>5, <2>8, BookedEdits
<1>7. CASE AnswerFailed(r)
  <2>1. tab'.graph = tab.graph /\ tab'.edits = tab.edits /\ tab'.pushes = tab.pushes /\ r.graph = tab.graph
    BY <1>7 DEF AnswerFailed, PutsBack, Types, Card
  <2>2. CASE Settles(r)
    BY <1>3, <1>7, <2>1, <2>2 DEF AnswerFailed
  <2>3. CASE ~Settles(r)
    <3> DEFINE g == [k \in Key |-> IF k \in Back(r) /\ Older(r, k) # {} THEN Newest(Older(r, k)).gen
                                   ELSE gens.key[k]]
    <3>1. edit' = edit /\ saved' = saved /\ gens' = [gens EXCEPT !.key = g]
      BY <1>7, <2>3 DEF AnswerFailed
    <3>2. \A k \in Key : g[k] <= gens.edit
      <4> SUFFICES ASSUME NEW k \in Key PROVE g[k] <= gens.edit
        OBVIOUS
      <4>1. gens.key[k] <= gens.edit
        BY DEF Booked, Kept
      <4>2. ASSUME Older(r, k) # {} PROVE Newest(Older(r, k)).gen <= gens.edit
        <5>1. Newest(Older(r, k)) \in Older(r, k) /\ Newest(Older(r, k)) \in requests
          BY <4>2, NewestFacts
        <5>2. Newest(Older(r, k)).edit = edit.id
          BY <5>1 DEF Older, Out
        <5> QED BY <5>1, <5>2 DEF Booked, Owns
      <4> QED BY <4>1, <4>2
    <3> HIDE DEF g
    <3>3. gens'.edit = gens.edit /\ gens'.key = g /\ gens'.push = gens.push
      BY <3>1 DEF Types, Gens
    <3>4. edit # NoEdit
      <4>1. r.edit = edit.id /\ r.edit # 0
        BY <1>2, <2>1 DEF Owns, Request
      <4> QED BY <4>1 DEF NoEdit
    <3>5. Kept'
      BY <2>1, <3>1, <3>2, <3>3, <3>4 DEF Booked, Kept
    <3> QED BY <1>1, <2>1, <3>1, <3>3, <3>5, BookedEdits
  <2> QED BY <2>2, <2>3
<1> QED BY <1>4, <1>5, <1>6, <1>7 DEF Answers

\* A sync of another canvas, or of an import, replaces the one shown.
LEMMA ReplacedFacts ==
  ASSUME Types, NEW s \in Message(Numbers), SyncImport(s) \/ SyncOtherCanvas(s)
  PROVE  /\ Forget /\ tab' = Shown(s, s.params) /\ tab'.graph = tab.graph + 1
         /\ tab'.edits = tab.edits /\ tab'.pushes = tab.pushes /\ tab'.params = s.params
         /\ tab'.rev = s.rev /\ tab'.boot = s.boot /\ tab'.canvas = s.canvas
<1>1. tab \in Card(Numbers) /\ s.params \in [Key -> Numbers]
  BY DEF Types, Message
<1>2. tab' = Shown(s, s.params) /\ Forget /\ (s.kind = "import" \/ ~SameCanvas(s))
  BY DEF SyncImport, SyncOtherCanvas
<1> QED BY <1>1, <1>2, ShownTyped

\* A sync of the canvas shown keeps it.
LEMMA MergedFacts ==
  ASSUME Types, NEW s \in Message(Numbers), SyncMerged(s)
  PROVE  /\ tab'.graph = tab.graph /\ tab'.edits = tab.edits /\ tab'.pushes = tab.pushes
         /\ tab'.params = [k \in Key |-> IF k \in edit'.keys THEN tab.params[k] ELSE s.params[k]]
         /\ tab'.rev = s.rev /\ tab'.boot = s.boot /\ tab'.canvas = s.canvas
         /\ ~LetsGo(s) => /\ edit'.id = edit.id /\ edit'.keys = edit.keys /\ edit'.sent = edit.sent
                          /\ edit'.before = edit.before /\ UNCHANGED <<saved, gens>>
<1>1. /\ tab \in Card(Numbers) /\ s.params \in [Key -> Numbers] /\ tab.params \in [Key -> Numbers]
      /\ edit \in Edits(Numbers)
  BY DEF Types, Message, Card
<1> DEFINE f == [k \in Key |-> IF k \in edit'.keys THEN tab.params[k] ELSE s.params[k]]
<1>2. tab' = Shown(s, f) /\ f \in [Key -> Numbers] /\ s.kind # "import" /\ SameCanvas(s)
  BY <1>1 DEF SyncMerged
<1>3. ASSUME ~LetsGo(s)
      PROVE  /\ edit'.id = edit.id /\ edit'.keys = edit.keys /\ edit'.sent = edit.sent
             /\ edit'.before = edit.before /\ UNCHANGED <<saved, gens>>
  BY <1>1, <1>3 DEF SyncMerged, Edits
<1> HIDE DEF f
<1>4. /\ tab'.graph = tab.graph /\ tab'.edits = tab.edits /\ tab'.pushes = tab.pushes
      /\ tab'.params = f /\ tab'.rev = s.rev /\ tab'.boot = s.boot /\ tab'.canvas = s.canvas
  BY <1>1, <1>2, ShownTyped
<1> QED BY <1>3, <1>4 DEF f

\* A sync keeps them.
LEMMA SyncBooked ==
  ASSUME Types, Types', Booked, ReceiveSync
  PROVE  Booked'
<1> DEFINE s == Head(syncs)
<1>1. /\ syncs # <<>> /\ syncs' = Tail(syncs) /\ (SyncImport(s) \/ SyncOtherCanvas(s) \/ SyncMerged(s))
      /\ requests' = requests /\ order' = order
  BY DEF ReceiveSync
<1>2. s \in Message(Numbers) /\ Taken' = Taken
  BY <1>1, HeadFacts, TakenStays
<1> HIDE DEF s
<1>3. tab.graph \in Nat
  BY DEF Types, Card
<1>4. CASE SyncImport(s) \/ SyncOtherCanvas(s)
  <2>1. Forget /\ tab'.graph = tab.graph + 1 /\ tab'.edits = tab.edits /\ tab'.pushes = tab.pushes
    BY <1>2, <1>4, ReplacedFacts
  <2>2. \A r \in requests' : r.graph # tab'.graph
    BY <1>1, <1>3, <2>1 DEF Booked, Owns, Types, Request
  <2> QED BY <1>1, <1>2, <1>3, <2>1, <2>2, BookedForgets
<1>5. CASE SyncMerged(s)
  <2>1. tab'.graph = tab.graph /\ tab'.edits = tab.edits /\ tab'.pushes = tab.pushes
    BY <1>2, <1>5, MergedFacts
  <2>2. CASE LetsGo(s)
    <3>1. Forget /\ Out = {}
      BY <1>5, <2>2 DEF SyncMerged, LetsGo, Settled
    <3>2. \A r \in requests' : r.graph # tab'.graph
      BY <1>1, <2>1, <3>1 DEF Booked, Owns, Out
    <3> QED BY <1>1, <1>2, <1>3, <2>1, <3>1, <3>2, BookedForgets
  <2>3. CASE ~LetsGo(s)
    <3>1. /\ edit'.id = edit.id /\ edit'.keys = edit.keys /\ edit'.sent = edit.sent
          /\ edit'.before = edit.before /\ UNCHANGED <<saved, gens>>
      BY <1>2, <1>5, <2>3, MergedFacts
    <3>2. edit # NoEdit => edit' # NoEdit
      BY <3>1 DEF NoEdit, Booked, Kept
    <3>3. edit = NoEdit => edit' = NoEdit
      <4> SUFFICES ASSUME edit = NoEdit PROVE edit' = NoEdit
        OBVIOUS
      <4>1. edit' = [edit EXCEPT !.echoed = @ \/ Echo(s)]
        BY <1>5, <2>3 DEF SyncMerged
      <4>2. ~Echo(s)
        BY DEF Echo, NoEdit
      <4> QED BY <4>1, <4>2 DEF NoEdit
    <3>4. Kept'
      BY <2>1, <3>1, <3>2, <3>3 DEF Booked, Kept
    <3> QED BY <1>1, <1>2, <2>1, <3>1, <3>4, BookedEdits
  <2> QED BY <2>2, <2>3
<1> QED BY <1>1, <1>4, <1>5

\* At first nothing is written, edited or on its way.
LEMMA BaseInit ==
  ASSUME Init
  PROVE  Types /\ Booked
<1>1. made = <<>> /\ order = <<>> /\ syncs = <<>> /\ requests = {}
  BY DEF Init
<1>2. Len(made) = 0 /\ DOMAIN made = {}
  BY <1>1
<1>3. Numbers = {0} /\ Places = {0}
  BY <1>2 DEF Numbers, Places
<1>4. Fresh \in [Key -> Numbers]
  BY <1>3 DEF Fresh
<1>5. nebula \in Backend(Numbers) /\ tab \in Card(Numbers)
  BY <1>4 DEF Init, Backend, Card
<1>6. edit \in Edits(Numbers) /\ saved \in [Key -> Numbers \cup {Absent}] /\ gens \in Gens
  BY ForgottenTyped DEF Init
<1>7. By("person") = {} /\ By("agent") = {}
  BY <1>2 DEF By
<1>8. Written
  <2>1. made \in Seq(Maker) /\ order \in Seq(SUBSET Places)
    BY <1>1, EmptySeq
  <2>2. IsFiniteSet({}) /\ Cardinality({}) = 0
    BY FS_EmptySet
  <2>3. told = {} /\ cut = {} /\ late = {} /\ astray = {} /\ unowned = {} /\ mislaid = {}
    BY DEF Init
  <2>4. 0 <= MaxTyped /\ 0 <= MaxAgent
    BY ParamSavesAssumption
  <2> QED BY <1>7, <2>1, <2>2, <2>3, <2>4 DEF Written
<1>9. syncs \in Seq(Message(Numbers)) /\ bounds \in [gaps : Nat, fails : Nat]
  BY <1>1, EmptySeq DEF Init
<1>10. parked \in [state : {"no", "kept", "due"}, saves : SUBSET Places]
  BY DEF Init, NoneParked
<1>11. Types
  BY <1>1, <1>5, <1>6, <1>8, <1>9, <1>10 DEF Init, Types
<1>12. Kept
  <2>1. /\ edit = NoEdit /\ edit.id = 0 /\ edit.keys = {} /\ DOMAIN edit.sent = {} /\ tab.edits = 0
        /\ gens = NoGens /\ saved = NoneSaved
    BY DEF Init, NoEdit
  <2>2. gens.push = 0 /\ gens.edit = 0 /\ \A k \in Key : gens.key[k] = 0
    BY DEF Init, NoGens, Fresh
  <2> QED BY <2>1, <2>2 DEF Kept
<1> QED BY <1>1, <1>11, <1>12 DEF Booked, Apart

\* Every step keeps the types and the books.
LEMMA BaseKept ==
  ASSUME Types, Booked, [Next]_vars
  PROVE  Types' /\ Booked'
<1>1. ASSUME NEW k \in Key, Type(k) PROVE Types' /\ Booked'
  BY <1>1, TypeTyped, TypeBooked
<1>2. ASSUME \/ \E k \in Key : AgentEdit(k)
             \/ \E kind \in {"clear", "import"} : AgentReplaces(kind)
             \/ Gap \/ Reconnect \/ Restart
      PROVE  Types' /\ Booked'
  <2>1. Types'
    BY <1>2, AgentEditTyped, AgentReplacesTyped, ConnectionTyped
  <2>2. Booked'
    BY <1>2, BackendFacts, BookedStays
  <2> QED BY <2>1, <2>2
<1>3. ASSUME NEW r \in requests, Deliver(r) PROVE Types' /\ Booked'
  <2>1. PICK state \in {"stale", "ok"} :
          /\ requests' = (requests \ {r}) \cup {[r EXCEPT !.state = state]}
          /\ state = "ok" => Taken' = Taken \cup Carried(r)
    BY <1>3, DeliverFacts
  <2>2. UNCHANGED <<tab, edit, saved, gens>> /\ Taken \subseteq Taken'
    BY <1>3, DeliverFacts
  <2> QED BY <1>3, <2>1, <2>2, BookedMoves, DeliverTyped DEF States
<1>4. ASSUME NEW r \in requests, Fail(r) PROVE Types' /\ Booked'
  <2>1. requests' = (requests \ {r}) \cup {[r EXCEPT !.state = "failed"]}
    BY <1>4 DEF Fail
  <2>2. UNCHANGED <<tab, edit, saved, gens>> /\ Taken' = Taken
    BY <1>4, TakenStays DEF Fail, book, past
  <2> QED BY <1>4, <2>1, <2>2, BookedMoves, FailTyped DEF States
<1>5. ASSUME NEW r \in requests, Answers(r) PROVE Types' /\ Booked'
  <2>1. r.keys \subseteq DOMAIN r.sent
    BY DEF Booked, Owns
  <2>2. Types'
    BY <1>5, <2>1, AnswerOkTyped, AnswerCutOffTyped, AnswerParkedTyped, AnswerFailedTyped DEF Answers
  <2> QED BY <1>5, <2>2, AnswersBooked
<1>6. ASSUME Debounced \/ Resend \/ ParkedTimeout \/ Linger PROVE Types' /\ Booked'
  BY <1>6, TimersTyped, TimersBooked
<1>7. ASSUME ReceiveSync PROVE Types' /\ Booked'
  BY <1>7, SyncTyped, SyncBooked
<1>8. ASSUME UNCHANGED vars PROVE Types' /\ Booked'
  <2>1. UNCHANGED <<server, tab, book, timer, parked, requests, past, bounds>>
    BY <1>8 DEF vars
  <2>2. UNCHANGED <<nebula, syncs, socket, edit, saved, gens, made, order, told, cut, late, astray,
                    unowned, mislaid>>
    BY <2>1 DEF server, book, past
  <2>3. Written' /\ Numbers' = Numbers /\ Places' = Places
    BY <2>2, WrittenStays, NoneMade DEF Types, Written
  <2>4. Types'
    BY <2>1, <2>2, <2>3 DEF Types
  <2> QED BY <2>1, <2>2, <2>4, BookedStays, TakenStays
<1> QED BY <1>1, <1>2, <1>3, <1>4, <1>5, <1>6, <1>7, <1>8 DEF Next

-----------------------------------------------------------------------------
(* NothingLostUnsaid *)

\* A save on its way owns the value.
Owned(v) == \E r \in requests : \E k \in r.keys : Abs(r.sent[k]) = v

\* It is on the card, in its debounce, and no save on its way is as new.
Pending(v) ==
  /\ timer /\ made[v].key \in edit.keys /\ tab.params[made[v].key] = v
  /\ gens.push < gens.key[made[v].key] /\ made[v].graph = tab.graph
  /\ \A r \in Out : r.gen < gens.key[made[v].key]

Heard == Taken \cup told \cup cut \cup late
Said  == \A v \in By("person") : v \in Heard \/ Overtyped(v) \/ Owned(v) \/ Pending(v)

\* Nothing is lost without a word when all that was typed has somebody who owns it.
LEMMA SaidIsNothingLost ==
  ASSUME Types, Booked, Said
  PROVE  NothingLostUnsaid
<1> SUFFICES ASSUME NEW v \in Unheard PROVE v \in cut \cup late
  BY DEF NothingLostUnsaid
<1>1. v \in By("person") /\ v \notin Taken \cup told /\ ~Overtyped(v) /\ ~OnItsWay(v)
  BY DEF Unheard
<1>2. ~Pending(v)
  BY <1>1 DEF Pending, OnItsWay
<1>3. ~Owned(v)
  <2> SUFFICES ASSUME NEW r \in requests, NEW k \in r.keys, Abs(r.sent[k]) = v PROVE FALSE
    BY DEF Owned
  <2>1. k \in DOMAIN r.sent
    BY DEF Booked, Owns
  <2> QED BY <1>1, <2>1 DEF OnItsWay, Carried
<1> QED BY <1>1, <1>2, <1>3 DEF Said, Heard

\* While no value is made, an owned or a pending one has to stay so, or be heard of.
LEMMA SaidStays ==
  ASSUME Types, Said, made' = made, Heard \subseteq Heard',
         \A v \in By("person") : Owned(v) => Owned(v)' \/ v \in Heard',
         \A v \in By("person") : Pending(v) => Pending(v)' \/ Owned(v)' \/ v \in Heard'
  PROVE  Said'
<1>1. By("person")' = By("person")
  BY NoneMade
<1>2. \A v \in By("person") : Overtyped(v) => Overtyped(v)'
  BY <1>1 DEF Overtyped
<1> QED BY <1>1, <1>2 DEF Said

\* A removed request owned what is heard of now; the others own on.
LEMMA OwnedLess ==
  ASSUME NEW r, requests' = requests \ {r}, \A k \in r.keys : Abs(r.sent[k]) \in Heard'
  PROVE  \A v : Owned(v) => Owned(v)' \/ v \in Heard'
BY DEF Owned

\* A request that moves on owns what it did.
LEMMA OwnedMoves ==
  ASSUME Types, NEW r \in requests, NEW state \in States,
         requests' = (requests \ {r}) \cup {[r EXCEPT !.state = state]}
  PROVE  /\ \A v : Owned(v) => Owned(v)'
         /\ (edit' = edit /\ gens' = gens /\ timer' = timer /\ tab' = tab /\ made' = made)
              => \A v : Pending(v) => Pending(v)'
<1> DEFINE w == [r EXCEPT !.state = state]
<1>1. w.keys = r.keys /\ w.sent = r.sent /\ w.edit = r.edit /\ w.gen = r.gen
  BY MovedFields DEF Types
<1> HIDE DEF w
<1>2. requests' = (requests \ {r}) \cup {w}
  BY DEF w
<1>3. \A v : Owned(v) => Owned(v)'
  BY <1>1, <1>2 DEF Owned
<1>4. ASSUME edit' = edit, gens' = gens, timer' = timer, tab' = tab, made' = made, NEW v, Pending(v)
      PROVE  Pending(v)'
  BY <1>1, <1>2, <1>4 DEF Pending, Out
<1> QED BY <1>3, <1>4

\* A keystroke is pending, and what it types over is typed over.
LEMMA TypeSaid ==
  ASSUME Types, Booked, Said, NEW k \in Key, Type(k)
  PROVE  Said'
<1>0. PICK n : n = Len(made')
  OBVIOUS
<1>1. /\ tab'.params = [tab.params EXCEPT ![k] = n] /\ tab'.graph = tab.graph
      /\ edit'.keys = edit.keys \cup {k}
      /\ edit'.id = IF edit = NoEdit THEN tab.edits + 1 ELSE edit.id
      /\ gens'.push = gens.push /\ gens'.key = [gens.key EXCEPT ![k] = gens.edit + 1]
      /\ timer' = TRUE
      /\ made' = Append(made, [who |-> "person", key |-> k, canvas |-> tab.canvas,
                               boot |-> tab.boot, graph |-> tab.graph])
      /\ UNCHANGED <<requests, order, told, cut, late>>
  BY <1>0, TypeFacts DEF Booked
<1> DEFINE m == [who |-> "person", key |-> k, canvas |-> tab.canvas, boot |-> tab.boot, graph |-> tab.graph]
<1>2. m \in Maker /\ m.who = "person" /\ m.key = k /\ m.graph = tab.graph
  BY DEF Types, Card, Maker
<1>3. made' = Append(made, m) /\ Cardinality(By("person")) < MaxTyped
  BY <1>1 DEF Type
<1> HIDE DEF m
<1>4. /\ DOMAIN made' = DOMAIN made \cup {n} /\ n \notin Places /\ Len(made') = Len(made) + 1
      /\ made'[n] = m /\ (\A v \in DOMAIN made : made'[v] = made[v])
      /\ By("person")' = By("person") \cup {n} /\ Len(made) \in Nat
  BY <1>0, <1>2, <1>3, OneMade
<1>5. \A v \in By("person") : v \in DOMAIN made /\ made'[v] = made[v] /\ v < n /\ made[v].key \in Key
  <2>1. DOMAIN made = 1..Len(made) /\ \A v \in DOMAIN made : made[v] \in Maker
    BY MadeFacts
  <2> QED BY <1>4, <2>1 DEF By, Maker
<1>6. /\ gens.push \in Nat /\ gens.edit \in Nat /\ gens.push <= gens.edit /\ tab.params \in [Key -> Numbers]
      /\ gens.key \in [Key -> Nat]
  BY DEF Types, Gens, Card, Booked, Kept
<1>7. \A r \in Out' : r.gen \in Nat /\ r.gen <= gens.edit /\ r \in Out
  <2> SUFFICES ASSUME NEW r \in requests, r.edit = edit'.id
               PROVE  r.gen \in Nat /\ r.gen <= gens.edit /\ r.edit = edit.id
    BY <1>1 DEF Out
  <2>1. r \in Request(Numbers) /\ Owns(r) /\ tab.edits \in Nat
    BY DEF Types, Booked, Card
  <2>2. edit # NoEdit
    BY <1>1, <2>1 DEF Owns, Request
  <2> QED BY <1>1, <2>1, <2>2 DEF Owns, Request
<1>8. Pending(n)'
  <2>1. made'[n].key = k /\ made'[n].graph = tab.graph
    BY <1>2, <1>4
  <2>2. tab'.params[k] = n /\ gens'.key[k] = gens.edit + 1
    BY <1>1, <1>6
  <2>3. gens'.push < gens'.key[k] /\ \A r \in Out' : r.gen < gens'.key[k]
    BY <1>1, <1>6, <1>7, <2>2
  <2> QED BY <1>1, <2>1, <2>2, <2>3 DEF Pending
<1>9. ASSUME NEW v \in By("person"), Pending(v) PROVE Pending(v)' \/ Overtyped(v)'
  <2>1. CASE made[v].key = k
    <3>1. made'[n].key = made'[v].key /\ made'[n].graph = made'[v].graph /\ n \in By("person")' /\ n > v
      BY <1>2, <1>4, <1>5, <1>9, <2>1 DEF Pending
    <3> QED BY <3>1 DEF Overtyped
  <2>2. CASE made[v].key # k
    <3>1. tab'.params[made[v].key] = tab.params[made[v].key] /\ gens'.key[made[v].key] = gens.key[made[v].key]
      BY <1>1, <1>5, <1>6, <2>2
    <3> QED BY <1>1, <1>5, <1>7, <1>9, <3>1 DEF Pending
  <2> QED BY <2>1, <2>2
<1>10. \A v \in By("person") : Overtyped(v) => Overtyped(v)'
  BY <1>4, <1>5 DEF Overtyped
<1>11. \A v \in By("person") : Owned(v) => Owned(v)'
  BY <1>1 DEF Owned
<1>12. Heard' = Heard
  BY <1>1, TakenStays DEF Heard
<1> QED BY <1>4, <1>8, <1>9, <1>10, <1>11, <1>12 DEF Said

\* The save that is sent owns what was pending.
LEMMA PushSaid ==
  ASSUME Types, Booked, Said, NEW resent \in BOOLEAN, Push(resent), UNCHANGED past
  PROVE  /\ \A v : Owned(v) => Owned(v)'
         /\ \A v \in By("person") : Pending(v) => Owned(v)'
<1>1. CASE edit = NoEdit
  <2>1. requests' = requests
    BY <1>1, PushFacts
  <2>2. \A v : ~Pending(v)
    BY <1>1 DEF Pending, NoEdit
  <2> QED BY <2>1, <2>2 DEF Owned
<1>2. CASE edit # NoEdit
  <2>1. PICK p : p = Sending(resent)
    OBVIOUS
  <2>2. requests' = requests \cup {p}
    BY <1>2, <2>1, PushFacts
  <2>3. \A v : Owned(v) => Owned(v)'
    BY <2>2 DEF Owned
  <2>4. ASSUME NEW v \in By("person"), Pending(v) PROVE Owned(v)'
    <3>1. PICK k : k = made[v].key
      OBVIOUS
    <3>2. k \in edit.keys /\ tab.params[k] = v /\ gens.push < gens.key[k]
      BY <2>4, <3>1 DEF Pending
    <3>3. k \in p.keys /\ p.sent[k] = v
      <4>1. k \in Key /\ gens.push \in Nat /\ gens.key[k] \in Nat
        BY <3>2 DEF Types, Edits, Gens
      <4>2. gens.key[k] > gens.push
        BY <3>2, <4>1
      <4> QED BY <2>1, <3>2, <4>2 DEF Sending
    <3>4. Abs(v) = v
      BY <2>4, MadeFacts DEF By, Abs
    <3> QED BY <2>2, <3>3, <3>4 DEF Owned
  <2> QED BY <2>3, <2>4
<1> QED BY <1>1, <1>2

\* What a timer starts keeps an owner for all that was typed.
LEMMA TimersSaid ==
  ASSUME Types, Booked, Said, Debounced \/ Resend \/ ParkedTimeout \/ Linger
  PROVE  Said'
<1>1. UNCHANGED past
  BY DEF Debounced, Resend, ParkedTimeout, Linger
<1>2. made' = made /\ Heard' = Heard
  BY <1>1, TakenStays DEF past, Heard
<1>3. CASE Debounced
  <2>1. Push(FALSE)
    BY <1>3 DEF Debounced
  <2> QED BY <1>1, <1>2, <2>1, PushSaid, SaidStays
<1>4. CASE Resend /\ ~timer
  <2>1. Push(TRUE)
    BY <1>4 DEF Resend
  <2> QED BY <1>1, <1>2, <2>1, PushSaid, SaidStays
<1>5. CASE (Resend /\ timer) \/ ParkedTimeout
  <2>1. UNCHANGED <<tab, edit, gens, requests, timer>>
    BY <1>5 DEF Resend, ParkedTimeout, book
  <2>2. \A v : (Owned(v) => Owned(v)') /\ (Pending(v) => Pending(v)')
    BY <1>2, <2>1 DEF Owned, Pending, Out
  <2> QED BY <1>2, <2>2, SaidStays
<1>6. CASE Linger
  <2>1. ~timer /\ requests' = requests
    BY <1>6 DEF Linger, Settled
  <2>2. \A v : (Owned(v) => Owned(v)') /\ ~Pending(v)
    BY <2>1 DEF Owned, Pending
  <2> QED BY <1>2, <2>2, SaidStays
<1> QED BY <1>3, <1>4, <1>5, <1>6

\* An answer leaves nothing of its save that is not taken, named or parked.
LEMMA AnswersSaid ==
  ASSUME Types, Booked, Said, NEW r \in requests, Answers(r)
  PROVE  Said'
<1>1. /\ requests' = requests \ {r} /\ made' = made /\ Taken' = Taken /\ timer' = timer
      /\ told \subseteq told' /\ cut' = cut /\ late \subseteq late'
  BY TakenStays DEF Answers, AnswerOk, AnswerCutOff, AnswerParked, AnswerFailed, PutsBack
<1>2. r \in Request(Numbers) /\ Owns(r) /\ OkTaken(r)
  BY DEF Types, Booked
<1>3. Heard \subseteq Heard' /\ Carried(r) = {Abs(r.sent[k]) : k \in DOMAIN r.sent}
  BY <1>1 DEF Heard, Carried
<1>4. ASSUME \A k \in r.keys : Abs(r.sent[k]) \in Heard',
             \A v \in By("person") : Pending(v) => Pending(v)'
      PROVE  Said'
  BY <1>1, <1>3, <1>4, OwnedLess, SaidStays
<1>5. ASSUME Carried(r) \subseteq Heard' PROVE \A k \in r.keys : Abs(r.sent[k]) \in Heard'
  BY <1>2, <1>3, <1>5 DEF Owns
<1>6. ASSUME edit'.id = edit.id, edit'.keys = edit.keys, gens' = gens, tab' = tab
      PROVE  \A v : Pending(v) => Pending(v)'
  BY <1>1, <1>6 DEF Pending, Out
<1>7. CASE AnswerOk(r)
  <2>1. Carried(r) \subseteq Heard'
    BY <1>1, <1>2, <1>7 DEF AnswerOk, OkTaken, Heard
  <2>2. CASE Settles(r)
    <3>1. \A v : ~Pending(v)
      BY <2>2 DEF Settles, Pending
    <3> QED BY <1>4, <1>5, <2>1, <3>1
  <2>3. CASE ~Settles(r)
    <3>1. edit' = edit /\ gens' = gens /\ tab' = tab
      BY <1>7, <2>3 DEF AnswerOk
    <3> QED BY <1>4, <1>5, <1>6, <2>1, <3>1
  <2> QED BY <2>2, <2>3
<1>8. CASE AnswerCutOff(r)
  <2>1. Carried(r) \subseteq Heard' /\ edit' = edit /\ gens' = gens /\ tab' = tab
    BY <1>8 DEF AnswerCutOff, Heard, book
  <2> QED BY <1>4, <1>5, <1>6, <2>1
<1>9. CASE AnswerParked(r)
  <2>1. Carried(r) \subseteq Heard'
    BY <1>9 DEF AnswerParked, Heard
  <2>2. /\ edit' = [edit EXCEPT !.sent = <<>>] /\ tab' = tab
        /\ gens' = [gens EXCEPT !.push = IF @ = r.gen THEN r.since ELSE @] /\ r \in Out
    BY <1>9 DEF AnswerParked, Parks, Out
  <2>3. edit'.id = edit.id /\ edit'.keys = edit.keys
    BY <2>2 DEF Types, Edits
  <2>4. gens'.key = gens.key /\ gens'.push = IF gens.push = r.gen THEN r.since ELSE gens.push
    BY <2>2 DEF Types, Gens
  <2>5. r.since \in Nat /\ r.gen \in Nat /\ gens.push \in Nat /\ r.since <= r.gen
    BY <1>2 DEF Types, Gens, Request, Owns
  <2>6. gens'.push <= gens.push /\ gens'.push \in Nat
    BY <2>4, <2>5
  <2>7. ASSUME NEW v \in By("person"), Pending(v) PROVE Pending(v)'
    <3>1. PICK k : k = made[v].key
      OBVIOUS
    <3>2. k \in edit.keys /\ gens.push < gens.key[k]
      BY <2>7, <3>1 DEF Pending
    <3>3. gens'.push < gens'.key[k]
      <4>1. gens.key[k] \in Nat
        BY <3>2 DEF Types, Gens, Edits
      <4> QED BY <2>4, <2>5, <2>6, <3>2, <4>1
    <3> QED BY <1>1, <2>2, <2>3, <2>4, <2>7, <3>1, <3>3 DEF Pending, Out
  <2> QED BY <1>4, <1>5, <2>1, <2>7
<1>10. CASE AnswerFailed(r)
  <2>1. r.graph = tab.graph /\ r.edit = edit.id /\ r \in Out
    BY <1>2, <1>10 DEF AnswerFailed, PutsBack, Owns, Out
  <2>2. \A k \in r.keys : saved # NoneSaved /\ Abs(r.sent[k]) \in told'
    <3> SUFFICES ASSUME NEW k \in r.keys PROVE saved # NoneSaved /\ Abs(r.sent[k]) \in told'
      OBVIOUS
    <3>1. k \in edit.keys /\ k \in Key
      BY <1>2, <2>1 DEF Owns, Types, Edits
    <3>2. saved # NoneSaved
      BY <3>1 DEF Booked, Kept, NoneSaved
    <3> QED BY <1>10, <3>2 DEF AnswerFailed, PutsBack
  <2>3. CASE Settles(r)
    <3>1. \A v : ~Pending(v)
      BY <2>3 DEF Settles, Pending
    <3> QED BY <1>4, <2>2, <3>1 DEF Heard
  <2>4. CASE ~Settles(r)
    <3> DEFINE g == [k \in Key |-> IF k \in Back(r) /\ Older(r, k) # {} THEN Newest(Older(r, k)).gen
                                   ELSE gens.key[k]]
               f == [k \in Key |-> IF k \in Back(r) THEN PutBack(r, k) ELSE tab.params[k]]
    <3>1. edit' = edit /\ gens' = [gens EXCEPT !.key = g] /\ tab' = [tab EXCEPT !.params = f]
      BY <1>10, <2>4 DEF AnswerFailed, PutsBack
    <3> HIDE DEF g, f
    <3>2. gens'.key = g /\ gens'.push = gens.push /\ tab'.params = f /\ tab'.graph = tab.graph
      BY <3>1 DEF Types, Gens, Card
    <3>3. ASSUME NEW v \in By("person"), Pending(v) PROVE Pending(v)'
      <4>1. PICK k : k = made[v].key
        OBVIOUS
      <4>2. k \in edit.keys /\ k \in Key /\ r.gen < gens.key[k]
        BY <2>1, <3>3, <4>1 DEF Pending, Types, Edits
      <4>3. gens.key[k] \in Nat /\ r.gen \in Nat
        BY <1>2, <4>2 DEF Types, Gens, Request
      <4>4. k \notin Back(r)
        BY <4>2, <4>3 DEF Back
      <4>5. g[k] = gens.key[k] /\ f[k] = tab.params[k]
        BY <4>2, <4>4 DEF g, f
      <4> QED BY <1>1, <3>1, <3>2, <3>3, <4>1, <4>5 DEF Pending, Out
    <3> QED BY <1>4, <2>2, <3>3 DEF Heard
  <2> QED BY <2>3, <2>4
<1> QED BY <1>7, <1>8, <1>9, <1>10 DEF Answers

\* A sync that ends the edit names what was pending, but for an import.
LEMMA SyncSaid ==
  ASSUME Types, Booked, Said, ReceiveSync
  PROVE  Said'
<1> DEFINE s == Head(syncs)
<1>1. /\ syncs # <<>> /\ syncs' = Tail(syncs) /\ (SyncImport(s) \/ SyncOtherCanvas(s) \/ SyncMerged(s))
      /\ requests' = requests /\ order' = order /\ made' = made
  BY DEF ReceiveSync
<1>2. s \in Message(Numbers) /\ Taken' = Taken
  BY <1>1, HeadFacts, TakenStays
<1> HIDE DEF s
<1>3. told \subseteq told' /\ cut \subseteq cut' /\ late \subseteq late'
  BY <1>1 DEF SyncImport, SyncOtherCanvas, SyncMerged
<1>4. Heard \subseteq Heard' /\ \A v : Owned(v) => Owned(v)'
  BY <1>1, <1>2, <1>3 DEF Heard, Owned
<1>5. \A v \in By("person") : Abs(v) = v
  BY MadeFacts DEF By, Abs
<1>6. CASE SyncImport(s)
  <2>1. ASSUME NEW v \in By("person"), Pending(v) PROVE v \in Heard'
    <3>1. PICK k : k = made[v].key
      OBVIOUS
    <3>2. k \in edit.keys /\ tab.params[k] = v /\ gens.push < gens.key[k]
      BY <2>1, <3>1 DEF Pending
    <3>3. gens.key[k] > gens.push
      BY <3>2 DEF Types, Gens, Edits
    <3>4. Abs(tab.params[k]) \in cut'
      BY <1>6, <3>2, <3>3 DEF SyncImport
    <3> QED BY <1>5, <3>2, <3>4 DEF Heard
  <2> QED BY <1>1, <1>4, <2>1, SaidStays
<1>7. CASE SyncOtherCanvas(s)
  <2>1. ASSUME NEW v \in By("person"), Pending(v) PROVE v \in Heard'
    <3>1. PICK k : k = made[v].key
      OBVIOUS
    <3>2. k \in edit.keys /\ tab.params[k] = v /\ timer
      BY <2>1, <3>1 DEF Pending
    <3>3. Abs(tab.params[k]) \in told'
      BY <1>7, <3>2 DEF SyncOtherCanvas
    <3> QED BY <1>5, <3>2, <3>3 DEF Heard
  <2> QED BY <1>1, <1>4, <2>1, SaidStays
<1>8. CASE SyncMerged(s)
  <2>1. ASSUME NEW v \in By("person"), Pending(v) PROVE Pending(v)'
    <3>1. PICK k : k = made[v].key
      OBVIOUS
    <3>2. k \in edit.keys /\ k \in Key /\ timer
      BY <2>1, <3>1 DEF Pending, Types, Edits
    <3>3. ~LetsGo(s)
      BY <3>2 DEF LetsGo, Settled
    <3>4. /\ edit'.id = edit.id /\ edit'.keys = edit.keys /\ gens' = gens /\ tab'.graph = tab.graph
          /\ tab'.params = [q \in Key |-> IF q \in edit'.keys THEN tab.params[q] ELSE s.params[q]]
      BY <1>2, <1>8, <3>3, MergedFacts
    <3>5. tab'.params[k] = tab.params[k] /\ timer' = timer
      BY <1>8, <3>2, <3>4 DEF SyncMerged
    <3> QED BY <1>1, <2>1, <3>1, <3>4, <3>5 DEF Pending, Out
  <2> QED BY <1>1, <1>4, <2>1, SaidStays
<1> QED BY <1>1, <1>6, <1>7, <1>8

\* Every step keeps an owner for all that was typed.
LEMMA SaidKept ==
  ASSUME Types, Booked, Said, [Next]_vars
  PROVE  Said'
<1>1. ASSUME NEW k \in Key, Type(k) PROVE Said'
  BY <1>1, TypeSaid
<1>2. ASSUME NEW k \in Key, AgentEdit(k) PROVE Said'
  <2>1. PICK m \in Maker : m.who = "agent" /\ made' = Append(made, m) /\ Cardinality(By("agent")) < MaxAgent
    <3> DEFINE m == [who |-> "agent", key |-> k, canvas |-> nebula.canvas, boot |-> nebula.boot, graph |-> 0]
    <3>1. m \in Maker /\ m.who = "agent"
      BY DEF Types, Backend, Maker
    <3> QED BY <1>2, <3>1 DEF AgentEdit, Trouble
  <2>2. By("person")' = By("person") /\ \A v \in DOMAIN made : made'[v] = made[v]
    BY <2>1, OneMade
  <2>3. UNCHANGED <<tab, edit, gens, timer, requests, told, cut, late>> /\ Taken \subseteq Taken'
    BY <1>2, BackendFacts
  <2>4. \A v \in By("person") : v \in DOMAIN made
    BY DEF By
  <2>5. ASSUME NEW v \in By("person")
        PROVE  (Owned(v) => Owned(v)') /\ (Pending(v) => Pending(v)') /\ (Overtyped(v) => Overtyped(v)')
    <3>1. made'[v] = made[v]
      BY <2>2, <2>4
    <3>2. Pending(v) => Pending(v)'
      BY <2>3, <3>1 DEF Pending, Out
    <3>3. Overtyped(v) => Overtyped(v)'
      BY <2>2, <2>4, <3>1 DEF Overtyped
    <3> QED BY <2>3, <3>2, <3>3 DEF Owned
  <2>6. Heard \subseteq Heard'
    BY <2>3 DEF Heard
  <2> QED BY <2>2, <2>5, <2>6 DEF Said
<1>3. ASSUME \/ \E kind \in {"clear", "import"} : AgentReplaces(kind)
             \/ Gap \/ Reconnect \/ Restart \/ UNCHANGED vars
      PROVE  Said'
  <2>1. UNCHANGED <<tab, edit, gens, timer, requests, made, told, cut, late>> /\ Taken' = Taken
    BY <1>3, TakenStays DEF AgentReplaces, Gap, Reconnect, Restart, vars, server, book, past
  <2>2. Heard' = Heard /\ \A v : (Owned(v) => Owned(v)') /\ (Pending(v) => Pending(v)')
    BY <2>1 DEF Heard, Owned, Pending, Out
  <2> QED BY <2>1, <2>2, SaidStays
<1>4. ASSUME NEW r \in requests, Deliver(r) PROVE Said'
  <2>1. UNCHANGED <<tab, edit, gens, timer, made, told, cut, late>> /\ Taken \subseteq Taken'
    BY <1>4, DeliverFacts
  <2>2. PICK state \in {"stale", "ok"} : requests' = (requests \ {r}) \cup {[r EXCEPT !.state = state]}
    BY <1>4, DeliverFacts
  <2>3. \A v : (Owned(v) => Owned(v)') /\ (Pending(v) => Pending(v)')
    BY <2>1, <2>2, OwnedMoves DEF States
  <2> QED BY <2>1, <2>3, SaidStays DEF Heard
<1>5. ASSUME NEW r \in requests, Fail(r) PROVE Said'
  <2>1. UNCHANGED <<tab, edit, gens, timer, made, told, cut, late>> /\ Taken' = Taken
    BY <1>5, TakenStays DEF Fail, book, past
  <2>2. requests' = (requests \ {r}) \cup {[r EXCEPT !.state = "failed"]}
    BY <1>5 DEF Fail
  <2>3. \A v : (Owned(v) => Owned(v)') /\ (Pending(v) => Pending(v)')
    BY <2>1, <2>2, OwnedMoves DEF States
  <2> QED BY <2>1, <2>3, SaidStays DEF Heard
<1> QED BY <1>1, <1>2, <1>3, <1>4, <1>5, AnswersSaid, TimersSaid, SyncSaid DEF Next

-----------------------------------------------------------------------------
(* What every step does to the values, and to the queue of syncs *)

\* Values, and what is remembered of them, are never unmade.
LEMMA Grows ==
  ASSUME Types, [Next]_vars
  PROVE  /\ \A v \in DOMAIN made : v \in DOMAIN made' /\ made'[v] = made[v]
         /\ Numbers \subseteq Numbers' /\ \A v \in Places : v \in By("person")' => v \in By("person")
         /\ Taken \subseteq Taken' /\ late \subseteq late' /\ unowned \subseteq unowned' /\ mislaid \subseteq mislaid'
<1>1. Places \cap DOMAIN made = DOMAIN made /\ By("person") \subseteq Places
  BY MadeFacts DEF Places, By
<1>2. ASSUME NEW k \in Key, Type(k)
      PROVE  /\ \A v \in DOMAIN made : v \in DOMAIN made' /\ made'[v] = made[v]
             /\ Numbers \subseteq Numbers' /\ \A v \in Places : v \in By("person")' => v \in By("person")
             /\ Taken \subseteq Taken' /\ late \subseteq late' /\ unowned \subseteq unowned' /\ mislaid \subseteq mislaid'
  <2> DEFINE m == [who |-> "person", key |-> k, canvas |-> tab.canvas, boot |-> tab.boot, graph |-> tab.graph]
  <2>1. m \in Maker /\ m.who = "person"
    BY DEF Types, Card, Maker
  <2>2. made' = Append(made, m) /\ Cardinality(By("person")) < MaxTyped
    BY <1>2 DEF Type
  <2> HIDE DEF m
  <2>3. /\ DOMAIN made' = DOMAIN made \cup {Len(made')} /\ Len(made') \notin Places /\ Numbers \subseteq Numbers'
        /\ (\A v \in DOMAIN made : made'[v] = made[v]) /\ By("person")' = By("person") \cup {Len(made')}
    BY <2>1, <2>2, OneMade
  <2>4. Taken' = Taken /\ UNCHANGED <<late, unowned, mislaid>>
    BY <1>2, TakenStays DEF Type
  <2> QED BY <2>3, <2>4
<1>3. ASSUME NEW k \in Key, AgentEdit(k)
      PROVE  /\ \A v \in DOMAIN made : v \in DOMAIN made' /\ made'[v] = made[v]
             /\ Numbers \subseteq Numbers' /\ \A v \in Places : v \in By("person")' => v \in By("person")
             /\ Taken \subseteq Taken' /\ late \subseteq late' /\ unowned \subseteq unowned' /\ mislaid \subseteq mislaid'
  <2> DEFINE m == [who |-> "agent", key |-> k, canvas |-> nebula.canvas, boot |-> nebula.boot, graph |-> 0]
  <2>1. m \in Maker /\ m.who = "agent"
    BY DEF Types, Backend, Maker
  <2>2. made' = Append(made, m) /\ Cardinality(By("agent")) < MaxAgent
    BY <1>3 DEF AgentEdit, Trouble
  <2> HIDE DEF m
  <2>3. /\ DOMAIN made' = DOMAIN made \cup {Len(made')} /\ Numbers \subseteq Numbers'
        /\ (\A v \in DOMAIN made : made'[v] = made[v]) /\ By("person")' = By("person")
    BY <2>1, <2>2, OneMade
  <2>4. Taken \subseteq Taken' /\ UNCHANGED <<late, unowned, mislaid>>
    BY <1>3, BackendFacts
  <2> QED BY <2>3, <2>4
<1>4. ASSUME made' = made, Taken \subseteq Taken', late \subseteq late', unowned \subseteq unowned',
             mislaid \subseteq mislaid'
      PROVE  /\ \A v \in DOMAIN made : v \in DOMAIN made' /\ made'[v] = made[v]
             /\ Numbers \subseteq Numbers' /\ \A v \in Places : v \in By("person")' => v \in By("person")
             /\ Taken \subseteq Taken' /\ late \subseteq late' /\ unowned \subseteq unowned' /\ mislaid \subseteq mislaid'
  BY <1>4, NoneMade
<1>5. CASE (\E kind \in {"clear", "import"} : AgentReplaces(kind)) \/ Gap \/ Reconnect \/ Restart
  <2>1. made' = made
    BY <1>5 DEF AgentReplaces, Gap, Reconnect, Restart, past
  <2>2. Taken \subseteq Taken' /\ UNCHANGED <<late, unowned, mislaid>>
    BY <1>5, BackendFacts
  <2> QED BY <1>4, <2>1, <2>2
<1>6. CASE \E r \in requests : Deliver(r)
  BY <1>4, <1>6, DeliverFacts DEF Deliver
<1>7. CASE (\E r \in requests : Fail(r)) \/ Debounced \/ Resend \/ ParkedTimeout \/ Linger \/ UNCHANGED vars
  <2>1. UNCHANGED past
    BY <1>7 DEF Fail, Debounced, Resend, ParkedTimeout, Linger, vars
  <2> QED BY <1>4, <2>1, TakenStays DEF past
<1>8. CASE ReceiveSync
  <2>1. UNCHANGED <<made, order, unowned, mislaid>> /\ late' = late
    BY <1>8 DEF ReceiveSync, SyncImport, SyncOtherCanvas, SyncMerged
  <2> QED BY <1>4, <2>1, TakenStays
<1>9. CASE \E r \in requests : Answers(r)
  <2>1. /\ UNCHANGED <<made, order>> /\ late \subseteq late' /\ unowned \subseteq unowned'
        /\ mislaid \subseteq mislaid'
    BY <1>9 DEF Answers, AnswerOk, AnswerCutOff, AnswerParked, AnswerFailed, PutsBack
  <2> QED BY <1>4, <2>1, TakenStays
<1> QED BY <1>2, <1>3, <1>5, <1>6, <1>7, <1>8, <1>9 DEF Next

\* The queue loses its end, gives its head to the tab, or takes a sync of the backend as
\* it is then.
Shortened == \A i \in 1..Len(syncs') : i \in 1..Len(syncs) /\ syncs'[i] = syncs[i]
Advanced  == ReceiveSync /\ \A i \in 1..Len(syncs') : i + 1 \in 1..Len(syncs) /\ syncs'[i] = syncs[i + 1]
Extended  ==
  /\ Len(syncs') = Len(syncs) + 1 /\ \A i \in 1..Len(syncs) : syncs'[i] = syncs[i]
  /\ LET m == syncs'[Len(syncs) + 1] IN
     m.params = nebula'.params /\ m.rev = nebula'.rev /\ m.boot = nebula'.boot /\ m.canvas = nebula'.canvas

\* A sync is the graph as it is.
LEMMA SyncFields ==
  ASSUME NEW kind
  PROVE  LET m == Sync(kind) IN
         m.params = nebula'.params /\ m.rev = nebula'.rev /\ m.boot = nebula'.boot /\ m.canvas = nebula'.canvas
BY DEF Sync

\* Every step does one of these to the queue.
LEMMA QueueFacts ==
  ASSUME Types, [Next]_vars
  PROVE  Len(syncs) \in Nat /\ Len(syncs') \in Nat /\ (Shortened \/ Advanced \/ Extended)
<1>1. syncs \in Seq(Message(Numbers)) /\ Len(syncs) \in Nat
  BY LenProperties DEF Types
<1>2. ASSUME syncs' = syncs PROVE Len(syncs') \in Nat /\ Shortened
  BY <1>1, <1>2 DEF Shortened
<1>3. ASSUME NEW m, syncs' = Append(syncs, m), m.params = nebula'.params, m.rev = nebula'.rev,
             m.boot = nebula'.boot, m.canvas = nebula'.canvas
      PROVE  Len(syncs') \in Nat /\ Extended
  <2> DEFINE M == Message(Numbers) \cup {m}
  <2>1. syncs \in Seq(M) /\ m \in M
    BY <1>1, SeqMonotonic
  <2> HIDE DEF M
  <2>2. /\ Len(syncs') = Len(syncs) + 1 /\ syncs'[Len(syncs) + 1] = m
        /\ \A i \in 1..Len(syncs) : syncs'[i] = syncs[i]
    BY <1>3, <2>1, AppendProperties
  <2> QED BY <1>1, <1>3, <2>2 DEF Extended
<1>4. ASSUME NEW kind, Broadcast(kind) PROVE Len(syncs') \in Nat /\ (Shortened \/ Extended)
  BY <1>2, <1>3, <1>4, SyncFields DEF Broadcast
<1>5. ASSUME Closes PROVE Len(syncs') \in Nat /\ Shortened
  <2>1. syncs' \in Seq(Message(Numbers)) /\ Shortened
    BY <1>1, <1>5, ClosesFacts DEF Shortened
  <2> QED BY <2>1, LenProperties
<1>6. CASE ReceiveSync
  <2>1. syncs # <<>> /\ syncs' = Tail(syncs)
    BY <1>6 DEF ReceiveSync
  <2>2. syncs' \in Seq(Message(Numbers)) /\ Advanced
    BY <1>6, <2>1, HeadFacts DEF Advanced
  <2> QED BY <1>1, <2>2, LenProperties
<1>7. CASE \E k \in Key : AgentEdit(k)
  BY <1>1, <1>4, <1>7 DEF AgentEdit
<1>8. CASE \E kind \in {"clear", "import"} : AgentReplaces(kind)
  BY <1>1, <1>4, <1>8 DEF AgentReplaces
<1>9. CASE \E r \in requests : Deliver(r)
  BY <1>1, <1>2, <1>4, <1>9 DEF Deliver
<1>10. CASE Gap \/ Restart
  BY <1>1, <1>5, <1>10 DEF Gap, Restart
<1>11. CASE Reconnect
  BY <1>1, <1>3, <1>11, SyncFields DEF Reconnect
<1>12. CASE \/ \E k \in Key : Type(k)
            \/ \E r \in requests : Fail(r) \/ Answers(r)
            \/ Debounced \/ Resend \/ ParkedTimeout \/ Linger \/ UNCHANGED vars
  <2>1. syncs' = syncs
    BY <1>12 DEF Type, Fail, Answers, AnswerOk, AnswerCutOff, AnswerParked, AnswerFailed, PutsBack, Debounced,
                 Resend, ParkedTimeout, Linger, vars, server
  <2> QED BY <1>1, <1>2, <2>1
<1> QED BY <1>6, <1>7, <1>8, <1>9, <1>10, <1>11, <1>12 DEF Next

\* A setting of the backend stays, is cleared, is an agent's, or is what a save carried.
Cleared(k)   == nebula'.params[k] = 0
ByAgent(k)   == /\ nebula'.params[k] = Len(made') /\ Len(made') \in DOMAIN made' /\ made'[Len(made')].who = "agent"
                /\ made'[Len(made')].canvas = nebula.canvas /\ made'[Len(made')].boot = nebula.boot
                /\ nebula'.rev = nebula.rev /\ nebula'.boot = nebula.boot /\ nebula'.canvas = nebula.canvas
Delivered(k) == \E r \in requests :
                  /\ r.rev = nebula.rev /\ k \in DOMAIN r.sent /\ Abs(nebula'.params[k]) = Abs(r.sent[k])
                  /\ Carried(r) \subseteq Taken'
                  /\ nebula'.rev = nebula.rev /\ nebula'.boot = nebula.boot /\ nebula'.canvas = nebula.canvas

\* Every step does one of these to a setting of the backend.
LEMMA NebulaFacts ==
  ASSUME Types, [Next]_vars, NEW k \in Key
  PROVE  \/ nebula'.params[k] = nebula.params[k]
         \/ Cleared(k) \/ ByAgent(k) \/ Delivered(k)
<1>1. nebula \in Backend(Numbers) /\ nebula.params \in [Key -> Numbers]
  BY DEF Types, Backend
<1>2. ASSUME NEW q \in Key, AgentEdit(q)
      PROVE  nebula'.params[k] = nebula.params[k] \/ ByAgent(k)
  <2> DEFINE m == [who |-> "agent", key |-> q, canvas |-> nebula.canvas, boot |-> nebula.boot, graph |-> 0]
  <2>1. m \in Maker /\ m.who = "agent" /\ m.canvas = nebula.canvas /\ m.boot = nebula.boot
    BY DEF Types, Backend, Maker
  <2>2. /\ made' = Append(made, m) /\ Cardinality(By("agent")) < MaxAgent
        /\ nebula' = [nebula EXCEPT !.params[q] = Len(made')]
    BY <1>2 DEF AgentEdit, Trouble
  <2> HIDE DEF m
  <2>3. DOMAIN made' = DOMAIN made \cup {Len(made')} /\ made'[Len(made')] = m
    BY <2>1, <2>2, OneMade
  <2>4. /\ nebula'.rev = nebula.rev /\ nebula'.boot = nebula.boot /\ nebula'.canvas = nebula.canvas
        /\ nebula'.params = [nebula.params EXCEPT ![q] = Len(made')]
    BY <1>1, <2>2 DEF Backend
  <2> QED BY <1>1, <2>1, <2>3, <2>4 DEF ByAgent
<1>3. ASSUME NEW kind, AgentReplaces(kind) PROVE Cleared(k)
  BY <1>1, <1>3 DEF AgentReplaces, Cleared, Backend, Fresh
<1>4. ASSUME NEW r \in requests, Deliver(r)
      PROVE  nebula'.params[k] = nebula.params[k] \/ Delivered(k)
  <2>1. CASE r.rev # nebula.rev
    BY <1>4, <2>1 DEF Deliver
  <2>2. CASE r.rev = nebula.rev
    <3>1. PICK own \in SUBSET DOMAIN r.sent :
            nebula' = [nebula EXCEPT !.params =
                        [q \in Key |-> IF q \notin DOMAIN r.sent THEN @[q]
                                       ELSE IF q \in own THEN -Abs(r.sent[q]) ELSE r.sent[q]]]
      BY <1>4, <2>2 DEF Deliver
    <3> DEFINE f == [q \in Key |-> IF q \notin DOMAIN r.sent THEN nebula.params[q]
                                   ELSE IF q \in own THEN -Abs(r.sent[q]) ELSE r.sent[q]]
    <3>2. nebula' = [nebula EXCEPT !.params = f]
      BY <3>1
    <3>3. f[k] = IF k \notin DOMAIN r.sent THEN nebula.params[k]
                 ELSE IF k \in own THEN -Abs(r.sent[k]) ELSE r.sent[k]
      OBVIOUS
    <3> HIDE DEF f
    <3>4. /\ nebula'.params = f /\ nebula'.rev = nebula.rev /\ nebula'.boot = nebula.boot
          /\ nebula'.canvas = nebula.canvas
      BY <1>1, <3>2 DEF Backend
    <3>5. r \in Request(Numbers)
      BY DEF Types
    <3>6. Carried(r) \subseteq Taken'
      <4>1. /\ order' = Append(order, Carried(r)) /\ order \in Seq(SUBSET Places) /\ Carried(r) \subseteq Places
        BY <1>4, <2>2, <3>5, CarriedFacts DEF Deliver, Types, Written
      <4>2. Taken' = Taken \cup Carried(r)
        BY <4>1, TakenFacts
      <4> QED BY <4>2
    <3>7. ASSUME k \in DOMAIN r.sent PROVE Abs(f[k]) = Abs(r.sent[k])
      <4>1. r.sent[k] \in Int
        BY <3>5, <3>7, CarriedFacts, NumberFacts
      <4> QED BY <3>3, <3>7, <4>1 DEF Abs
    <3> QED BY <2>2, <3>3, <3>4, <3>6, <3>7 DEF Delivered
  <2> QED BY <2>1, <2>2
<1>5. CASE Restart
  BY <1>1, <1>5 DEF Restart, Backend
<1>6. CASE \/ \E q \in Key : Type(q)
           \/ \E r \in requests : Fail(r) \/ Answers(r)
           \/ Gap \/ Reconnect \/ Debounced \/ Resend \/ ParkedTimeout \/ Linger \/ ReceiveSync
           \/ UNCHANGED vars
  <2>1. nebula' = nebula
    BY <1>6 DEF Type, Fail, Answers, AnswerOk, AnswerCutOff, AnswerParked, AnswerFailed, PutsBack, Debounced,
                 Gap, Reconnect, Resend, ParkedTimeout, Linger, ReceiveSync, vars, server
  <2> QED BY <2>1
<1> QED BY <1>2, <1>3, <1>4, <1>5, <1>6 DEF Next

-----------------------------------------------------------------------------
(* ShownIsTaken *)

\* Of what the person typed, the backend and its syncs have what the backend took.
Trusted(x) == Abs(x) \in By("person") => Abs(x) \in Taken
Truthful ==
  /\ \A k \in Key : Trusted(nebula.params[k])
  /\ \A i \in 1..Len(syncs) : \A k \in Key : Trusted(syncs[i].params[k])

\* Every step keeps the backend and its syncs truthful.
LEMMA TruthfulKept ==
  ASSUME Types, Types', Truthful, [Next]_vars
  PROVE  Truthful'
<1>1. ASSUME NEW x \in Numbers, Trusted(x) PROVE Trusted(x)'
  <2>1. Abs(x) \in Places
    BY NumberFacts
  <2> QED BY <1>1, <2>1, Grows DEF Trusted
<1>2. ASSUME NEW k \in Key PROVE Trusted(nebula.params[k])'
  <2>0. PICK x : x = nebula'.params[k]
    OBVIOUS
  <2>1. CASE x = nebula.params[k]
    <3>1. x \in Numbers /\ Trusted(x)
      BY <2>1 DEF Types, Backend, Truthful
    <3>2. Trusted(x)'
      BY <1>1, <3>1
    <3> QED BY <2>0, <3>2 DEF Trusted
  <2>2. CASE Cleared(k)
    <3>1. Abs(nebula'.params[k]) = 0
      BY <2>2 DEF Cleared, Abs
    <3>2. 0 \notin By("person")'
      <4>1. 0 \in Places /\ 0 \notin By("person")
        BY NumberFacts, MadeFacts DEF By
      <4> QED BY <4>1, Grows
    <3> QED BY <3>1, <3>2 DEF Trusted
  <2>3. CASE ByAgent(k)
    <3>1. PICK n : n = Len(made')
      OBVIOUS
    <3>2. n \in Nat /\ x = n /\ made'[n].who = "agent"
      <4>1. Len(made') \in Nat
        BY LenProperties DEF Types, Written
      <4> QED BY <2>0, <2>3, <3>1, <4>1 DEF ByAgent
    <3>3. Abs(x) = n
      BY <3>2 DEF Abs
    <3> QED BY <2>0, <3>2, <3>3 DEF Trusted, By
  <2>4. CASE Delivered(k)
    BY <2>4 DEF Delivered, Carried, Trusted
  <2> QED BY <2>0, <2>1, <2>2, <2>3, <2>4, NebulaFacts
<1>3. ASSUME NEW i \in 1..Len(syncs), NEW k \in Key PROVE Trusted(syncs[i].params[k]) /\ syncs[i].params[k] \in Numbers
  <2>1. syncs[i] \in Message(Numbers)
    BY ElementOfSeq DEF Types
  <2> QED BY <2>1 DEF Truthful, Message
<1>4. ASSUME NEW i \in 1..Len(syncs'), NEW k \in Key PROVE Trusted(syncs[i].params[k])'
  <2>0. PICK x : x = syncs'[i].params[k]
    OBVIOUS
  <2>1. ASSUME NEW j \in 1..Len(syncs), syncs'[i] = syncs[j] PROVE Trusted(syncs[i].params[k])'
    <3>1. x \in Numbers /\ Trusted(x)
      BY <1>3, <2>0, <2>1
    <3>2. Trusted(x)'
      BY <1>1, <3>1
    <3> QED BY <2>0, <3>2 DEF Trusted
  <2>2. CASE Shortened
    BY <2>1, <2>2 DEF Shortened
  <2>3. CASE Advanced
    BY <2>1, <2>3 DEF Advanced
  <2>4. CASE Extended
    <3>1. i \in 1..Len(syncs) \/ i = Len(syncs) + 1
      BY <2>4, QueueFacts DEF Extended
    <3>2. CASE i \in 1..Len(syncs)
      BY <2>1, <2>4, <3>2 DEF Extended
    <3>3. CASE i = Len(syncs) + 1
      BY <1>2, <2>4, <3>3 DEF Extended, Trusted
    <3> QED BY <3>1, <3>2, <3>3
  <2> QED BY <2>2, <2>3, <2>4, QueueFacts
<1> QED BY <1>2, <1>4 DEF Truthful

\* A value of the person's that the card may rest on.
Sure      == Taken \cup late \cup unowned
Secure(x) == Abs(x) \in By("person") => Abs(x) \in Sure

\* The setting is in its debounce, or a save on its way owns what the card shows.
Waits(k)   == timer /\ k \in edit.keys /\ gens.push < gens.key[k]
Carries(k) == \E r \in Out : k \in r.keys /\ gens.key[k] <= r.gen /\ r.sent[k] = tab.params[k]
Honest ==
  \A k \in Key : /\ saved[k] # Absent => Secure(saved[k])
                 /\ Secure(tab.params[k]) \/ Waits(k) \/ Carries(k)

\* At rest nothing waits and nothing is carried: the card is secure.
LEMMA HonestIsTaken ==
  ASSUME Honest
  PROVE  ShownIsTaken
<1> SUFFICES ASSUME AtRest, NEW k \in Key, Abs(tab.params[k]) \in By("person")
             PROVE  Abs(tab.params[k]) \in Taken \cup late \cup unowned
  BY DEF ShownIsTaken
<1>1. ~Waits(k) /\ ~Carries(k)
  BY DEF AtRest, Waits, Carries, Out
<1> QED BY <1>1 DEF Honest, Secure, Sure

\* What is secure stays so.
LEMMA SecureStays ==
  ASSUME Types, [Next]_vars, NEW x \in Numbers, Secure(x)
  PROVE  Secure(x)'
<1>1. Abs(x) \in Places
  BY NumberFacts
<1> QED BY <1>1, Grows DEF Secure, Sure

\* What the backend took is secure.
LEMMA TrustedSecure ==
  ASSUME NEW x, Trusted(x)
  PROVE  Secure(x)
BY DEF Trusted, Secure, Sure

\* A setting that is no key of the edit is secure.
LEMMA UneditedSecure ==
  ASSUME Types, Booked, Honest, NEW k \in Key, k \notin edit.keys
  PROVE  Secure(tab.params[k])
<1>1. ~Waits(k)
  BY DEF Waits
<1>2. ~Carries(k)
  BY DEF Carries, Out, Booked, Owns
<1> QED BY <1>1, <1>2 DEF Honest

\* While a setting of the card stays, what waits or is carried has to stay so, or be
\* secure; and so is a saved value that stays.
LEMMA HonestStays ==
  ASSUME Types, Honest, [Next]_vars, NEW k \in Key, tab'.params[k] = tab.params[k],
         Waits(k) => Waits(k)' \/ Carries(k)' \/ Secure(tab.params[k])',
         Carries(k) => Carries(k)' \/ Secure(tab.params[k])'
  PROVE  /\ saved'[k] \in {saved[k], Absent} => (saved'[k] # Absent => Secure(saved[k])')
         /\ Secure(tab.params[k])' \/ Waits(k)' \/ Carries(k)'
<1>1. tab.params[k] \in Numbers /\ saved[k] \in Numbers \cup {Absent}
  BY DEF Types, Card
<1>2. ASSUME saved'[k] \in {saved[k], Absent}, saved'[k] # Absent PROVE Secure(saved[k])'
  <2>1. PICK x : x = saved[k]
    OBVIOUS
  <2>2. x \in Numbers /\ Secure(x) /\ saved'[k] = x
    BY <1>1, <1>2, <2>1 DEF Honest
  <2>3. Secure(x)'
    BY <2>2, SecureStays
  <2> QED BY <2>2, <2>3 DEF Secure
<1>3. ASSUME Secure(tab.params[k]) PROVE Secure(tab.params[k])'
  <2>1. PICK x : x = tab.params[k]
    OBVIOUS
  <2>2. Secure(x)'
    BY <1>1, <1>3, <2>1, SecureStays
  <2> QED BY <2>1, <2>2 DEF Secure
<1> QED BY <1>2, <1>3 DEF Honest

\* A setting taken from what is secure is secure still.
LEMMA SecureMoves ==
  ASSUME Types, [Next]_vars, NEW k \in Key, NEW x \in Numbers, Secure(x)
  PROVE  /\ tab'.params[k] = x => Secure(tab.params[k])'
         /\ saved'[k] = x => Secure(saved[k])'
<1>1. Secure(x)'
  BY SecureStays
<1> QED BY <1>1 DEF Secure

\* A keystroke keeps the card honest: its setting waits.
LEMMA TypeHonest ==
  ASSUME Types, Booked, Honest, NEW k \in Key, Type(k)
  PROVE  Honest'
<1>0. [Next]_vars
  BY DEF Next
<1>1. /\ tab'.params = [tab.params EXCEPT ![k] = Len(made')]
      /\ edit'.keys = edit.keys \cup {k}
      /\ edit'.id = IF edit = NoEdit THEN tab.edits + 1 ELSE edit.id
      /\ gens'.push = gens.push /\ gens'.key = [gens.key EXCEPT ![k] = gens.edit + 1]
      /\ saved' = [saved EXCEPT ![k] = IF @ = Absent THEN tab.params[k] ELSE @]
      /\ timer' = TRUE /\ requests' = requests
  BY TypeFacts DEF Booked
<1>2. /\ tab.params \in [Key -> Numbers] /\ saved \in [Key -> Numbers \cup {Absent}]
      /\ gens.push \in Nat /\ gens.edit \in Nat /\ gens.push <= gens.edit /\ gens.key \in [Key -> Nat]
  BY DEF Types, Card, Gens, Booked, Kept
<1>3. Waits(k)'
  BY <1>1, <1>2 DEF Waits
<1>4. ASSUME saved'[k] # Absent PROVE Secure(saved[k])'
  <2>1. PICK x : x = saved'[k]
    OBVIOUS
  <2>2. x \in Numbers /\ Secure(x)
    <3>1. CASE saved[k] = Absent
      <4>1. k \notin edit.keys
        BY <3>1 DEF Booked, Kept
      <4> QED BY <1>1, <1>2, <2>1, <3>1, <4>1, UneditedSecure
    <3>2. CASE saved[k] # Absent
      BY <1>1, <1>2, <2>1, <3>2 DEF Honest
    <3> QED BY <3>1, <3>2
  <2>3. Secure(x)'
    BY <1>0, <2>2, SecureStays
  <2> QED BY <2>1, <2>3 DEF Secure
<1>5. ASSUME NEW q \in Key, q # k
      PROVE  /\ saved'[q] # Absent => Secure(saved[q])'
             /\ Secure(tab.params[q])' \/ Waits(q)' \/ Carries(q)'
  <2>1. tab'.params[q] = tab.params[q] /\ saved'[q] = saved[q] /\ gens'.key[q] = gens.key[q]
    BY <1>1, <1>2, <1>5
  <2>2. Waits(q) => Waits(q)'
    BY <1>1, <2>1 DEF Waits
  <2>3. ASSUME Carries(q) PROVE Carries(q)'
    <3>1. PICK r \in Out : q \in r.keys /\ gens.key[q] <= r.gen /\ r.sent[q] = tab.params[q]
      BY <2>3 DEF Carries
    <3>2. r \in requests /\ r.edit = edit.id /\ r.edit # 0
      BY <3>1 DEF Out, Booked, Owns, Types, Request
    <3>3. edit'.id = edit.id
      BY <1>1, <3>2 DEF NoEdit
    <3> QED BY <1>1, <2>1, <3>1, <3>2, <3>3 DEF Carries, Out
  <2> QED BY <1>0, <2>1, <2>2, <2>3, HonestStays
<1> QED BY <1>3, <1>4, <1>5 DEF Honest

\* A push keeps it so: what waited is carried.
LEMMA PushHonest ==
  ASSUME Types, Booked, Honest, [Next]_vars, NEW resent \in BOOLEAN, Push(resent)
  PROVE  Honest'
<1>1. CASE edit = NoEdit
  <2>1. UNCHANGED <<tab, edit, saved, gens, requests>>
    BY <1>1, PushFacts DEF book
  <2>2. \A k : ~Waits(k) /\ (Carries(k) => Carries(k)')
    BY <1>1, <2>1 DEF Waits, NoEdit, Carries, Out
  <2> QED BY <2>1, <2>2, HonestStays DEF Honest
<1>2. CASE edit # NoEdit
  <2>1. PICK p : p = Sending(resent)
    OBVIOUS
  <2>2. /\ requests' = requests \cup {p} /\ tab' = [tab EXCEPT !.pushes = @ + 1] /\ saved' = saved
        /\ gens' = [gens EXCEPT !.push = gens.edit] /\ edit'.id = edit.id /\ edit'.keys = edit.keys
    BY <1>2, <2>1, PushFacts
  <2>3. tab'.params = tab.params /\ gens'.key = gens.key
    BY <2>2 DEF Types, Card, Gens
  <2>4. ASSUME NEW k \in Key, Waits(k) PROVE Carries(k)'
    <3>1. gens.push \in Nat /\ gens.key[k] \in Nat /\ gens.edit \in Nat /\ gens.key[k] <= gens.edit
      BY DEF Types, Gens, Booked, Kept
    <3>2. k \in edit.keys /\ gens.key[k] > gens.push
      BY <2>4, <3>1 DEF Waits
    <3>3. k \in p.keys /\ gens'.key[k] <= p.gen /\ p.sent[k] = tab.params[k] /\ p.edit = edit.id
      BY <2>1, <2>3, <3>1, <3>2 DEF Sending
    <3> QED BY <2>2, <2>3, <3>3 DEF Carries, Out
  <2>5. \A k \in Key : Carries(k) => Carries(k)'
    BY <2>2, <2>3 DEF Carries, Out
  <2> QED BY <2>2, <2>3, <2>4, <2>5, HonestStays DEF Honest
<1> QED BY <1>1, <1>2

\* When the edit goes and nothing is out, the card is as secure as it was.
LEMMA ForgetHonest ==
  ASSUME Types, Honest, [Next]_vars, Forget, tab' = tab, ~timer,
         \A r \in Out : Carried(r) \subseteq Taken /\ r.keys \subseteq DOMAIN r.sent
  PROVE  Honest'
<1>1. \A k \in Key : saved'[k] = Absent
  BY DEF Forget, NoneSaved
<1>2. ASSUME NEW k \in Key, Carries(k) PROVE Secure(tab.params[k])'
  <2>1. PICK r \in Out : k \in r.keys /\ r.sent[k] = tab.params[k]
    BY <1>2 DEF Carries
  <2>2. Abs(tab.params[k]) \in Taken
    BY <2>1 DEF Carried
  <2> QED BY <2>2, Grows DEF Secure, Sure
<1> QED BY <1>1, <1>2, HonestStays DEF Honest, Waits

\* What a timer starts keeps it so.
LEMMA TimersHonest ==
  ASSUME Types, Booked, Honest, Debounced \/ Resend \/ ParkedTimeout \/ Linger
  PROVE  Honest'
<1>0. [Next]_vars
  BY DEF Next
<1>1. CASE Debounced
  BY <1>0, <1>1, PushHonest DEF Debounced
<1>2. CASE Resend /\ ~timer
  BY <1>0, <1>2, PushHonest DEF Resend
<1>3. CASE (Resend /\ timer) \/ ParkedTimeout
  <2>1. UNCHANGED <<tab, edit, saved, gens, requests, timer>>
    BY <1>3 DEF Resend, ParkedTimeout, book
  <2>2. \A k : (Waits(k) => Waits(k)') /\ (Carries(k) => Carries(k)')
    BY <2>1 DEF Waits, Carries, Out
  <2> QED BY <1>0, <2>1, <2>2, HonestStays DEF Honest
<1>4. CASE Linger
  <2>1. Forget /\ tab' = tab /\ ~timer /\ Out = {}
    BY <1>4 DEF Linger, Settled
  <2> QED BY <1>0, <2>1, ForgetHonest
<1> QED BY <1>1, <1>2, <1>3, <1>4

\* An answer keeps it so: what its save carried is taken, parked or put back.
LEMMA AnswersHonest ==
  ASSUME Types, Booked, Honest, NEW r \in requests, Answers(r)
  PROVE  Honest'
<1>0. [Next]_vars
  BY DEF Next
<1>1. r \in Request(Numbers) /\ Owns(r) /\ OkTaken(r) /\ requests' = requests \ {r}
  BY DEF Types, Booked, Answers, AnswerOk, AnswerCutOff, AnswerParked, AnswerFailed, PutsBack
<1>2. CASE AnswerOk(r)
  <2>1. Carried(r) \subseteq Taken /\ tab' = tab /\ timer' = timer
    BY <1>1, <1>2 DEF AnswerOk, OkTaken
  <2>2. CASE Settles(r) /\ (edit.echoed \/ DOMAIN edit.sent = {})
    <3>1. Forget /\ Out = {r} /\ ~timer
      BY <1>2, <2>2 DEF AnswerOk, Settles
    <3> QED BY <1>0, <1>1, <2>1, <3>1, ForgetHonest DEF Owns
  <2>3. CASE ~(Settles(r) /\ (edit.echoed \/ DOMAIN edit.sent = {}))
    <3>1. /\ edit' = edit \/ edit' = [edit EXCEPT !.answered = TRUE]
          /\ saved' = [k \in Key |-> IF k \in DOMAIN r.sent /\ saved[k] # Absent THEN r.sent[k] ELSE saved[k]]
          /\ gens' = gens
      BY <1>2, <2>3 DEF AnswerOk
    <3>2. edit'.id = edit.id /\ edit'.keys = edit.keys
      BY <3>1 DEF Types, Edits
    <3>3. ASSUME NEW k \in Key, Carries(k) PROVE Carries(k)' \/ Secure(tab.params[k])'
      <4>1. PICK p \in Out : k \in p.keys /\ gens.key[k] <= p.gen /\ p.sent[k] = tab.params[k]
        BY <3>3 DEF Carries
      <4>2. CASE p = r
        <5>1. Abs(tab.params[k]) \in Taken
          BY <1>1, <2>1, <4>1, <4>2 DEF Owns, Carried
        <5> QED BY <1>0, <2>1, <5>1, Grows DEF Secure, Sure
      <4>3. CASE p # r
        BY <1>1, <2>1, <3>1, <3>2, <4>1, <4>3 DEF Carries, Out
      <4> QED BY <4>2, <4>3
    <3>4. \A k : Waits(k) => Waits(k)'
      BY <2>1, <3>1, <3>2 DEF Waits
    <3>5. ASSUME NEW k \in Key, saved'[k] # Absent PROVE Secure(saved[k])'
      <4>1. CASE k \in DOMAIN r.sent /\ saved[k] # Absent
        <5>1. r.sent[k] \in Numbers /\ saved'[k] = r.sent[k] /\ Secure(r.sent[k])
          BY <1>1, <2>1, <3>1, <4>1, CarriedFacts DEF Secure, Sure
        <5> QED BY <1>0, <5>1, SecureMoves
      <4>2. CASE ~(k \in DOMAIN r.sent /\ saved[k] # Absent)
        <5>1. saved'[k] = saved[k] /\ saved[k] \in Numbers /\ Secure(saved[k])
          BY <3>1, <3>5, <4>2 DEF Types, Honest
        <5> QED BY <1>0, <5>1, SecureMoves
      <4> QED BY <4>1, <4>2
    <3>6. \A k \in Key : Secure(tab.params[k])' \/ Waits(k)' \/ Carries(k)'
      BY <1>0, <2>1, <3>3, <3>4, HonestStays
    <3> QED BY <3>5, <3>6 DEF Honest
  <2> QED BY <2>2, <2>3
<1>3. CASE AnswerCutOff(r)
  <2>1. UNCHANGED <<tab, edit, saved, gens, timer>> /\ r \notin Out
    BY <1>1, <1>3 DEF AnswerCutOff, book, Owns, Out
  <2>2. \A k : (Waits(k) => Waits(k)') /\ (Carries(k) => Carries(k)')
    BY <1>1, <2>1 DEF Waits, Carries, Out
  <2> QED BY <1>0, <2>1, <2>2, HonestStays DEF Honest
<1>4. CASE AnswerParked(r)
  <2>1. /\ edit' = [edit EXCEPT !.sent = <<>>] /\ tab' = tab /\ saved' = saved /\ timer' = timer
        /\ gens' = [gens EXCEPT !.push = IF @ = r.gen THEN r.since ELSE @] /\ late' = late \cup Carried(r)
    BY <1>4 DEF AnswerParked
  <2>2. edit'.id = edit.id /\ edit'.keys = edit.keys
    BY <2>1 DEF Types, Edits
  <2>3. /\ gens'.push \in Nat /\ gens'.push <= gens.push /\ gens.push \in Nat /\ gens'.key = gens.key
        /\ gens.key \in [Key -> Nat]
    <3>1. r.since \in Nat /\ r.gen \in Nat /\ gens.push \in Nat /\ r.since <= r.gen
      BY <1>1 DEF Types, Gens, Request, Owns
    <3>2. gens'.push = (IF gens.push = r.gen THEN r.since ELSE gens.push) /\ gens'.key = gens.key
      BY <2>1 DEF Types, Gens
    <3> QED BY <3>1, <3>2 DEF Types, Gens
  <2>4. ASSUME NEW k \in Key, Carries(k) PROVE Carries(k)' \/ Secure(tab.params[k])'
    <3>1. PICK p \in Out : k \in p.keys /\ gens.key[k] <= p.gen /\ p.sent[k] = tab.params[k]
      BY <2>4 DEF Carries
    <3>2. CASE p = r
      <4>1. Abs(tab.params[k]) \in late'
        BY <1>1, <2>1, <3>1, <3>2 DEF Owns, Carried
      <4> QED BY <2>1, <4>1 DEF Secure, Sure
    <3>3. CASE p # r
      BY <1>1, <2>1, <2>2, <2>3, <3>1, <3>3 DEF Carries, Out
    <3> QED BY <3>2, <3>3
  <2>5. ASSUME NEW k \in Key, Waits(k) PROVE Waits(k)'
    BY <2>1, <2>2, <2>3, <2>5 DEF Waits
  <2> QED BY <1>0, <2>1, <2>4, <2>5, HonestStays DEF Honest
<1>5. CASE AnswerFailed(r)
  <2>1. /\ tab'.params = [k \in Key |-> IF k \in Back(r) THEN PutBack(r, k) ELSE tab.params[k]]
        /\ timer' = timer /\ unowned' = unowned \cup {Abs(PutBack(r, k)) : k \in Orphans(r)}
        /\ r \in Out
    <3>1. r.graph = tab.graph
      BY <1>5 DEF AnswerFailed, PutsBack
    <3> QED BY <1>1, <1>5, <3>1 DEF AnswerFailed, PutsBack, Types, Card, Owns, Out
  <2>2. \A k \in r.keys : k \in Key /\ saved[k] # Absent /\ saved # NoneSaved
    <3>1. r.keys \subseteq edit.keys /\ edit.keys \subseteq Key
      BY <1>1, <2>1 DEF Owns, Out, Types, Edits
    <3> QED BY <3>1 DEF Booked, Kept, NoneSaved
  <2>3. ASSUME NEW k \in Key, k \notin Back(r), k \in r.keys PROVE ~(gens.key[k] <= r.gen)
    BY <2>2, <2>3 DEF Back
  <2>4. ASSUME NEW k \in Back(r), Older(r, k) = {} PROVE Secure(tab.params[k])'
    <3>1. k \in Key /\ saved[k] # Absent
      BY <2>2 DEF Back
    <3>2. tab'.params[k] = saved[k] /\ saved[k] \in Numbers /\ Secure(saved[k])
      BY <2>1, <2>4, <3>1 DEF PutBack, Honest, Types
    <3> QED BY <1>0, <3>1, <3>2, SecureMoves
  <2>5. CASE Settles(r)
    <3>1. Forget /\ Out = {r} /\ ~timer
      BY <1>5, <2>5 DEF AnswerFailed, Settles
    <3>2. \A k : Older(r, k) = {}
      BY <3>1 DEF Older
    <3>3. \A k \in Key : saved'[k] = Absent
      BY <3>1 DEF Forget, NoneSaved
    <3>4. ASSUME NEW k \in Key, k \notin Back(r) PROVE Secure(tab.params[k])'
      <4>1. ~Waits(k) /\ ~Carries(k)
        BY <2>3, <3>1, <3>4 DEF Waits, Carries
      <4>2. tab'.params[k] = tab.params[k] /\ Secure(tab.params[k]) /\ tab.params[k] \in Numbers
        BY <2>1, <3>4, <4>1 DEF Honest, Types, Card
      <4> QED BY <1>0, <4>2, SecureMoves
    <3> QED BY <2>4, <3>2, <3>3, <3>4 DEF Honest
  <2>6. CASE ~Settles(r)
    <3> DEFINE g == [k \in Key |-> IF k \in Back(r) /\ Older(r, k) # {} THEN Newest(Older(r, k)).gen
                                   ELSE gens.key[k]]
    <3>1. edit' = edit /\ saved' = saved /\ gens' = [gens EXCEPT !.key = g]
      BY <1>5, <2>6 DEF AnswerFailed
    <3>2. /\ \A k \in Key : k \in Back(r) /\ Older(r, k) # {} => g[k] = Newest(Older(r, k)).gen
          /\ \A k \in Key : k \notin Back(r) => g[k] = gens.key[k]
      OBVIOUS
    <3> HIDE DEF g
    <3>3. gens'.key = g /\ gens'.push = gens.push
      BY <3>1 DEF Types, Gens
    <3>4. ASSUME NEW k \in Back(r), Older(r, k) # {} PROVE Secure(tab.params[k])' \/ Carries(k)'
      <4>1. PICK p : p = Newest(Older(r, k))
        OBVIOUS
      <4>2. p \in Out /\ p # r /\ k \in DOMAIN p.sent /\ p \in Request(Numbers) /\ k \in Key
        BY <2>2, <3>4, <4>1, NewestFacts DEF Older, Types, Back
      <4>3. tab'.params[k] = p.sent[k] /\ gens'.key[k] = p.gen /\ p.gen <= p.gen
        BY <2>1, <3>2, <3>3, <3>4, <4>1, <4>2 DEF PutBack, Request
      <4>4. CASE k \in p.keys
        <5>1. p \in Out'
          BY <1>1, <3>1, <4>2 DEF Out
        <5> QED BY <4>3, <4>4, <5>1 DEF Carries
      <4>5. CASE k \notin p.keys
        <5>1. k \in Orphans(r) /\ PutBack(r, k) = p.sent[k]
          BY <3>4, <4>1, <4>5 DEF Orphans, PutBack
        <5>2. Abs(tab'.params[k]) \in unowned'
          BY <2>1, <4>3, <5>1
        <5> QED BY <5>2 DEF Secure, Sure
      <4> QED BY <4>4, <4>5
    <3>5. ASSUME NEW k \in Key, k \notin Back(r)
          PROVE  Secure(tab.params[k])' \/ Waits(k)' \/ Carries(k)'
      <4>1. tab'.params[k] = tab.params[k] /\ gens'.key[k] = gens.key[k]
        BY <2>1, <3>2, <3>3, <3>5
      <4>2. Waits(k) => Waits(k)'
        BY <2>1, <3>1, <3>3, <4>1 DEF Waits
      <4>3. Carries(k) => Carries(k)'
        BY <1>1, <2>3, <3>1, <3>5, <4>1 DEF Carries, Out
      <4> QED BY <1>0, <4>1, <4>2, <4>3, HonestStays
    <3>6. ASSUME NEW k \in Key, saved'[k] # Absent PROVE Secure(saved[k])'
      <4>1. saved'[k] = saved[k] /\ saved[k] \in Numbers /\ Secure(saved[k])
        BY <3>1, <3>6 DEF Types, Honest
      <4> QED BY <1>0, <4>1, SecureMoves
    <3>7. \A k \in Key : Secure(tab.params[k])' \/ Waits(k)' \/ Carries(k)'
      BY <2>4, <3>4, <3>5
    <3> QED BY <3>6, <3>7 DEF Honest
  <2> QED BY <2>5, <2>6
<1> QED BY <1>2, <1>3, <1>4, <1>5 DEF Answers

\* A sync keeps it so: it shows what the backend has.
LEMMA SyncHonest ==
  ASSUME Types, Booked, Truthful, Honest, ReceiveSync
  PROVE  Honest'
<1>0. [Next]_vars
  BY DEF Next
<1> DEFINE s == Head(syncs)
<1>1. /\ syncs # <<>> /\ syncs' = Tail(syncs) /\ (SyncImport(s) \/ SyncOtherCanvas(s) \/ SyncMerged(s))
      /\ requests' = requests
  BY DEF ReceiveSync
<1>2. s \in Message(Numbers) /\ 1 \in 1..Len(syncs) /\ s = syncs[1]
  BY <1>1, HeadFacts
<1> HIDE DEF s
<1>3. ASSUME NEW k \in Key PROVE s.params[k] \in Numbers /\ Secure(s.params[k])
  <2>1. Trusted(s.params[k])
    BY <1>2 DEF Truthful
  <2> QED BY <1>2, <2>1, TrustedSecure DEF Message
<1>4. ASSUME NEW k \in Key, tab'.params[k] = s.params[k] PROVE Secure(tab.params[k])'
  BY <1>0, <1>3, <1>4, SecureMoves
<1>5. ASSUME Forget PROVE \A k \in Key : saved'[k] = Absent
  BY <1>5 DEF Forget, NoneSaved
<1>6. CASE SyncImport(s) \/ SyncOtherCanvas(s)
  <2>1. tab'.params = s.params /\ Forget
    BY <1>2, <1>6, ReplacedFacts
  <2> QED BY <1>4, <1>5, <2>1 DEF Honest
<1>7. CASE SyncMerged(s)
  <2>1. /\ tab'.params = [k \in Key |-> IF k \in edit'.keys THEN tab.params[k] ELSE s.params[k]]
        /\ timer' = timer
    BY <1>2, <1>7, MergedFacts DEF SyncMerged
  <2>2. CASE LetsGo(s)
    <3>1. Forget /\ edit'.keys = {}
      BY <1>7, <2>2 DEF SyncMerged, Forget, NoEdit
    <3> QED BY <1>4, <1>5, <2>1, <3>1 DEF Honest
  <2>3. CASE ~LetsGo(s)
    <3>1. edit'.id = edit.id /\ edit'.keys = edit.keys /\ saved' = saved /\ gens' = gens
      BY <1>2, <1>7, <2>3, MergedFacts
    <3>2. ASSUME NEW k \in Key, k \in edit.keys
          PROVE  Secure(tab.params[k])' \/ Waits(k)' \/ Carries(k)'
      <4>1. tab'.params[k] = tab.params[k]
        BY <2>1, <3>1, <3>2
      <4>2. (Waits(k) => Waits(k)') /\ (Carries(k) => Carries(k)')
        BY <1>1, <2>1, <3>1, <4>1 DEF Waits, Carries, Out
      <4> QED BY <1>0, <4>1, <4>2, HonestStays
    <3>3. ASSUME NEW k \in Key, k \notin edit.keys PROVE Secure(tab.params[k])'
      BY <1>4, <2>1, <3>1, <3>3
    <3>4. ASSUME NEW k \in Key, saved'[k] # Absent PROVE Secure(saved[k])'
      <4>1. saved'[k] = saved[k] /\ saved[k] \in Numbers /\ Secure(saved[k])
        BY <3>1, <3>4 DEF Types, Honest
      <4> QED BY <1>0, <4>1, SecureMoves
    <3> QED BY <3>2, <3>3, <3>4 DEF Honest
  <2> QED BY <2>2, <2>3
<1> QED BY <1>1, <1>6, <1>7

\* Every step keeps the card honest.
LEMMA HonestKept ==
  ASSUME Types, Booked, Truthful, Honest, [Next]_vars
  PROVE  Honest'
<1>1. ASSUME UNCHANGED <<tab, edit, saved, gens, timer>>, \A k : Carries(k) => Carries(k)'
      PROVE  Honest'
  <2>1. \A k : Waits(k) => Waits(k)'
    BY <1>1 DEF Waits
  <2> QED BY <1>1, <2>1, HonestStays DEF Honest
<1>2. CASE \/ \E k \in Key : AgentEdit(k)
           \/ \E kind \in {"clear", "import"} : AgentReplaces(kind)
           \/ Gap \/ Reconnect \/ Restart
  <2>1. UNCHANGED <<tab, edit, saved, gens, timer, requests>>
    BY <1>2, BackendFacts
  <2> QED BY <1>1, <2>1 DEF Carries, Out
<1>3. ASSUME NEW r \in requests, NEW state \in States,
             requests' = (requests \ {r}) \cup {[r EXCEPT !.state = state]},
             UNCHANGED <<tab, edit, saved, gens, timer>>
      PROVE  Honest'
  <2>1. PICK v : v = [r EXCEPT !.state = state]
    OBVIOUS
  <2>2. v.edit = r.edit /\ v.gen = r.gen /\ v.keys = r.keys /\ v.sent = r.sent /\ v \in requests'
    <3>1. r \in Request(Numbers)
      BY DEF Types
    <3> QED BY <1>3, <2>1, <3>1, MovedFields
  <2>3. ASSUME NEW k, Carries(k) PROVE Carries(k)'
    <3>1. PICK p \in Out : k \in p.keys /\ gens.key[k] <= p.gen /\ p.sent[k] = tab.params[k]
      BY <2>3 DEF Carries
    <3>2. CASE p = r
      BY <1>3, <2>2, <3>1, <3>2 DEF Carries, Out
    <3>3. CASE p # r
      BY <1>3, <3>1, <3>3 DEF Carries, Out
    <3> QED BY <3>2, <3>3
  <2> QED BY <1>1, <1>3, <2>3
<1>4. ASSUME NEW r \in requests, Deliver(r) PROVE Honest'
  <2>1. UNCHANGED <<tab, edit, saved, gens, timer>>
    BY <1>4, DeliverFacts
  <2>2. PICK state \in {"stale", "ok"} : requests' = (requests \ {r}) \cup {[r EXCEPT !.state = state]}
    BY <1>4, DeliverFacts
  <2> QED BY <1>3, <2>1, <2>2 DEF States
<1>5. ASSUME NEW r \in requests, Fail(r) PROVE Honest'
  <2>1. UNCHANGED <<tab, edit, saved, gens, timer>> /\ requests' = (requests \ {r}) \cup {[r EXCEPT !.state = "failed"]}
    BY <1>5 DEF Fail, book
  <2> QED BY <1>3, <2>1 DEF States
<1>6. CASE UNCHANGED vars
  <2>1. UNCHANGED <<tab, edit, saved, gens, timer, requests>>
    BY <1>6 DEF vars, book
  <2> QED BY <1>1, <2>1 DEF Carries, Out
<1>7. CASE \E k \in Key : Type(k)
  BY <1>7, TypeHonest
<1>8. CASE \E r \in requests : Answers(r)
  BY <1>8, AnswersHonest
<1>9. CASE Debounced \/ Resend \/ ParkedTimeout \/ Linger
  BY <1>9, TimersHonest
<1>10. CASE ReceiveSync
  BY <1>10, SyncHonest
<1> QED BY <1>2, <1>4, <1>5, <1>6, <1>7, <1>8, <1>9, <1>10 DEF Next

\* At first nothing is typed, and the card is the backend's.
LEMMA HonestInit ==
  ASSUME Init
  PROVE  Said /\ Truthful /\ Honest
<1>1. made = <<>> /\ syncs = <<>> /\ saved = NoneSaved
  BY DEF Init
<1>2. Len(made) = 0 /\ DOMAIN made = {} /\ Len(syncs) = 0
  BY <1>1
<1>3. By("person") = {}
  BY <1>2 DEF By
<1>4. \A k \in Key : saved[k] = Absent
  BY <1>1 DEF NoneSaved
<1> QED BY <1>2, <1>3, <1>4 DEF Said, Truthful, Trusted, Honest, Secure

-----------------------------------------------------------------------------
(* WritesStayOnTheirCanvas *)

\* The process and the canvas of one are those of the other, or the process is an older
\* one; and what held of an older state of the backend.
Follows(h, g) == h.boot <= g.boot /\ (h.canvas = g.canvas \/ h.boot < g.boot)
Before(h, g)  == h.boot <= g.boot /\ h.rev <= g.rev /\ (h.rev = g.rev => h.canvas = g.canvas)
Dated(h)      == h.boot \in Nat /\ h.rev \in Nat

\* A value is at home: made on this canvas, or for an older process, or mislaid.
At(x, h) == Abs(x) \in DOMAIN made \ mislaid => Follows(made[Abs(x)], h)

\* The tab, the syncs in their order and the backend are states of the backend in order.
Lined ==
  /\ Before(tab, nebula)
  /\ \A i \in 1..Len(syncs) : Before(tab, syncs[i]) /\ Before(syncs[i], nebula)
  /\ \A i, j \in 1..Len(syncs) : i <= j => Before(syncs[i], syncs[j])
AtBackend ==
  /\ \A k \in Key : At(nebula.params[k], nebula)
  /\ \A i \in 1..Len(syncs) : \A k \in Key : At(syncs[i].params[k], syncs[i])
AtTab ==
  /\ \A k \in Key : At(tab.params[k], tab) /\ (saved[k] # Absent => At(saved[k], tab))
  /\ \A r \in requests : r.graph = tab.graph => \A k \in DOMAIN r.sent : At(r.sent[k], tab)
AtDelivery ==
  \A r \in requests : /\ r.rev <= nebula.rev
                      /\ r.rev = nebula.rev => \A k \in DOMAIN r.sent : At(r.sent[k], nebula)
AstrayIsOld == \A v \in astray \ mislaid : made[v].boot < nebula.boot
Housed == Lined /\ AtBackend /\ AtTab /\ AtDelivery /\ AstrayIsOld

\* What is astray was typed for an older process.
LEMMA HousedIsOnItsCanvas ==
  ASSUME Types, Housed
  PROVE  WritesStayOnTheirCanvas
<1> SUFFICES ASSUME NEW v \in astray \ mislaid PROVE made[v].boot # nebula.boot
  BY DEF WritesStayOnTheirCanvas
<1>1. v \in DOMAIN made
  BY MadeFacts DEF Types, Written, Places
<1>2. made[v].boot \in Nat /\ nebula.boot \in Nat
  BY <1>1, MadeFacts DEF Maker, Types, Backend
<1>3. made[v].boot < nebula.boot
  BY DEF Housed, AstrayIsOld
<1> QED BY <1>2, <1>3

\* Older states of older states are older.
LEMMA BeforeFacts ==
  ASSUME NEW h, NEW g, Dated(h), Dated(g), Before(h, g)
  PROVE  /\ h.rev = g.rev => Follows(h, g)
         /\ \A m : Dated(m) /\ Before(g, m) => Before(h, m)
<1>1. h.rev = g.rev => Follows(h, g)
  BY DEF Before, Follows
<1>2. ASSUME NEW m, Dated(m), Before(g, m) PROVE Before(h, m)
  <2>1. h.boot <= m.boot /\ h.rev <= m.rev
    BY <1>2 DEF Before, Dated
  <2>2. ASSUME h.rev = m.rev PROVE h.canvas = m.canvas
    <3>1. h.rev = g.rev /\ g.rev = m.rev
      BY <1>2, <2>2 DEF Before, Dated
    <3> QED BY <1>2, <3>1 DEF Before
  <2> QED BY <2>1, <2>2 DEF Before
<1> QED BY <1>1, <1>2

\* A value at home stays there when its canvas is followed by another state of it.
LEMMA AtMoves ==
  ASSUME Types, Types', [Next]_vars, NEW x \in Numbers, NEW h, NEW g, At(x, h), Follows(h, g),
         h.boot \in Nat, g.boot \in Nat
  PROVE  At(x, g)'
<1>1. PICK v : v = Abs(x)
  OBVIOUS
<1>2. v \in Places
  BY <1>1, NumberFacts
<1>3. SUFFICES ASSUME v \in DOMAIN made' \ mislaid' PROVE Follows(made'[v], g)
  BY <1>1 DEF At
<1>4. v \in DOMAIN made /\ v \notin mislaid /\ made'[v] = made[v]
  <2>1. DOMAIN made' = 1..Len(made')
    BY LenProperties DEF Types, Written
  <2>2. v # 0
    BY <1>3, <2>1
  <2>3. v \in DOMAIN made
    BY <1>2, <2>2, MadeFacts DEF Places
  <2> QED BY <1>3, <2>3, Grows
<1>5. Follows(made[v], h) /\ made[v].boot \in Nat
  BY <1>1, <1>4, MadeFacts DEF At, Maker
<1> QED BY <1>4, <1>5 DEF Follows

\* The backend goes on to a later state, and leaves a canvas only with its settings.
LEMMA NebulaMoves ==
  ASSUME Types, [Next]_vars
  PROVE  /\ Before(nebula, nebula')
         /\ Follows(nebula, nebula') \/ \A k \in Key : Cleared(k)
<1>1. nebula.boot \in Nat /\ nebula.rev \in Nat /\ nebula \in Backend(Numbers)
  BY DEF Types, Backend
<1>2. ASSUME nebula'.boot = nebula.boot, nebula'.rev = nebula.rev, nebula'.canvas = nebula.canvas
      PROVE  Before(nebula, nebula') /\ Follows(nebula, nebula')
  BY <1>1, <1>2 DEF Before, Follows
<1>3. CASE \E k \in Key : AgentEdit(k)
  BY <1>1, <1>2, <1>3 DEF AgentEdit, Backend
<1>4. CASE \E kind \in {"clear", "import"} : AgentReplaces(kind)
  <2>1. PICK shape : nebula' = [nebula EXCEPT !.params = Fresh, !.rev = @ + 1, !.canvas = @ + 1, !.shape = shape]
    BY <1>4 DEF AgentReplaces
  <2>2. nebula'.params = Fresh /\ nebula'.rev = nebula.rev + 1 /\ nebula'.boot = nebula.boot
    BY <1>1, <2>1 DEF Backend
  <2> QED BY <1>1, <2>2 DEF Before, Cleared, Fresh
<1>5. CASE \E r \in requests : Deliver(r)
  <2>1. PICK r \in requests : Deliver(r)
    BY <1>5
  <2>2. nebula'.boot = nebula.boot /\ nebula'.rev = nebula.rev /\ nebula'.canvas = nebula.canvas
    <3>1. CASE r.rev # nebula.rev
      BY <2>1, <3>1 DEF Deliver
    <3>2. CASE r.rev = nebula.rev
      <4>1. PICK own \in SUBSET DOMAIN r.sent :
              nebula' = [nebula EXCEPT !.params =
                          [q \in Key |-> IF q \notin DOMAIN r.sent THEN @[q]
                                         ELSE IF q \in own THEN -Abs(r.sent[q]) ELSE r.sent[q]]]
        BY <2>1, <3>2 DEF Deliver
      <4> QED BY <1>1, <4>1 DEF Backend
    <3> QED BY <3>1, <3>2
  <2> QED BY <1>2, <2>2
<1>6. CASE Restart
  <2>1. PICK lost \in BOOLEAN :
          nebula' = [nebula EXCEPT !.boot = @ + 1, !.lost = lost, !.rev = IF lost THEN @ + 1 ELSE @]
    BY <1>6 DEF Restart
  <2>2. /\ nebula'.boot = nebula.boot + 1 /\ nebula'.canvas = nebula.canvas
        /\ nebula'.rev = nebula.rev \/ nebula'.rev = nebula.rev + 1
    BY <1>1, <2>1 DEF Backend
  <2> QED BY <1>1, <2>2 DEF Before, Follows
<1>7. CASE \/ \E q \in Key : Type(q)
           \/ \E r \in requests : Fail(r) \/ Answers(r)
           \/ Gap \/ Reconnect \/ Debounced \/ Resend \/ ParkedTimeout \/ Linger \/ ReceiveSync
           \/ UNCHANGED vars
  <2>1. nebula' = nebula
    BY <1>7 DEF Type, Fail, Answers, AnswerOk, AnswerCutOff, AnswerParked, AnswerFailed, PutsBack, Debounced,
                 Gap, Reconnect, Resend, ParkedTimeout, Linger, ReceiveSync, vars, server
  <2> QED BY <1>2, <2>1
<1> QED BY <1>3, <1>4, <1>5, <1>6, <1>7 DEF Next

\* But for a sync the tab keeps what it knows of the backend.
LEMMA TabStays ==
  ASSUME Types, Booked, [Next]_vars, ~ReceiveSync
  PROVE  tab'.rev = tab.rev /\ tab'.boot = tab.boot /\ tab'.canvas = tab.canvas /\ tab'.graph = tab.graph
<1>1. tab \in Card(Numbers)
  BY DEF Types
<1>2. CASE \E k \in Key : Type(k)
  BY <1>2, TypeFacts DEF Booked
<1>3. ASSUME NEW resent \in BOOLEAN, Push(resent)
      PROVE  tab'.rev = tab.rev /\ tab'.boot = tab.boot /\ tab'.canvas = tab.canvas /\ tab'.graph = tab.graph
  <2>1. tab' = tab \/ tab' = [tab EXCEPT !.pushes = @ + 1]
    BY <1>3 DEF Push
  <2> QED BY <1>1, <2>1 DEF Card
<1>4. CASE Debounced \/ Resend
  BY <1>3, <1>4 DEF Debounced, Resend
<1>5. CASE \E r \in requests : AnswerFailed(r)
  <2>1. PICK r \in requests : AnswerFailed(r)
    BY <1>5
  <2>2. tab' = [tab EXCEPT !.params = [k \in Key |-> IF k \in Back(r) THEN PutBack(r, k) ELSE @[k]]]
    BY <2>1 DEF AnswerFailed, PutsBack
  <2> QED BY <1>1, <2>2 DEF Card
<1>6. CASE \/ \E k \in Key : AgentEdit(k)
           \/ \E kind \in {"clear", "import"} : AgentReplaces(kind)
           \/ Gap \/ Reconnect \/ Restart
           \/ \E r \in requests : Deliver(r) \/ Fail(r) \/ AnswerOk(r) \/ AnswerCutOff(r) \/ AnswerParked(r)
           \/ ParkedTimeout \/ Linger \/ UNCHANGED vars
  <2>1. tab' = tab
    BY <1>6 DEF AgentEdit, AgentReplaces, Gap, Reconnect, Restart, Deliver, Fail, AnswerOk, AnswerCutOff,
                AnswerParked, ParkedTimeout, Linger, vars
  <2> QED BY <2>1
<1> QED BY <1>2, <1>4, <1>5, <1>6 DEF Next, Answers

\* Every step keeps the tab, the syncs and the backend in order.
LEMMA LinedKept ==
  ASSUME Types, Types', Booked, Lined, [Next]_vars
  PROVE  Lined'
<1>1. /\ Dated(tab) /\ Dated(nebula) /\ Dated(tab') /\ Dated(nebula')
      /\ \A i \in 1..Len(syncs) : Dated(syncs[i])
      /\ \A i \in 1..Len(syncs') : Dated(syncs'[i])
  <2>1. Dated(tab) /\ Dated(nebula) /\ Dated(tab') /\ Dated(nebula')
    BY DEF Types, Card, Backend, Dated
  <2>2. ASSUME NEW i \in 1..Len(syncs) PROVE Dated(syncs[i])
    <3>1. syncs[i] \in Message(Numbers)
      BY ElementOfSeq DEF Types
    <3> QED BY <3>1 DEF Message, Dated
  <2>3. ASSUME NEW i \in 1..Len(syncs') PROVE Dated(syncs'[i])
    <3>1. PICK M : M = Message(Numbers)'
      OBVIOUS
    <3>2. syncs' \in Seq(M)
      BY <3>1 DEF Types
    <3>3. syncs'[i] \in M
      BY <3>2, ElementOfSeq
    <3> QED BY <3>1, <3>3 DEF Message, Dated
  <2> QED BY <2>1, <2>2, <2>3
<1>2. Before(nebula, nebula') /\ Before(nebula', nebula')
  BY <1>1, NebulaMoves DEF Before, Dated
<1>3. ASSUME NEW h, Dated(h), Before(h, nebula) PROVE Before(h, nebula')
  BY <1>1, <1>2, <1>3, BeforeFacts
<1>4. ASSUME ReceiveSync PROVE Lined'
  <2> DEFINE s == Head(syncs)
  <2>1. /\ syncs # <<>> /\ syncs' = Tail(syncs) /\ (SyncImport(s) \/ SyncOtherCanvas(s) \/ SyncMerged(s))
        /\ nebula' = nebula
    BY <1>4 DEF ReceiveSync
  <2>2. /\ s \in Message(Numbers) /\ 1 \in 1..Len(syncs) /\ s = syncs[1] /\ Len(syncs) \in Nat
        /\ \A i \in 1..Len(syncs') : i + 1 \in 1..Len(syncs) /\ syncs'[i] = syncs[i + 1]
    BY <2>1, HeadFacts
  <2> HIDE DEF s
  <2>3. tab'.rev = s.rev /\ tab'.boot = s.boot /\ tab'.canvas = s.canvas
    BY <2>1, <2>2, ReplacedFacts, MergedFacts
  <2>4. \A g : Before(s, g) => Before(tab', g)
    BY <2>3 DEF Before
  <2>5. Before(tab', nebula')
    BY <2>1, <2>2, <2>4 DEF Lined
  <2>6. ASSUME NEW i \in 1..Len(syncs') PROVE Before(tab', syncs'[i]) /\ Before(syncs'[i], nebula')
    <3>1. i + 1 \in 1..Len(syncs) /\ syncs'[i] = syncs[i + 1] /\ 1 <= i + 1
      BY <2>2
    <3> QED BY <2>1, <2>2, <2>4, <3>1 DEF Lined
  <2>7. ASSUME NEW i \in 1..Len(syncs'), NEW j \in 1..Len(syncs'), i <= j PROVE Before(syncs'[i], syncs'[j])
    <3>1. /\ i + 1 \in 1..Len(syncs) /\ syncs'[i] = syncs[i + 1] /\ j + 1 \in 1..Len(syncs)
          /\ syncs'[j] = syncs[j + 1] /\ i + 1 <= j + 1
      BY <2>2, <2>7
    <3> QED BY <3>1 DEF Lined
  <2> QED BY <2>5, <2>6, <2>7 DEF Lined
<1>5. ASSUME ~ReceiveSync PROVE Lined'
  <2>1. \A g : Before(tab, g) => Before(tab', g)
    BY <1>5, TabStays DEF Before
  <2>2. Before(tab', nebula')
    BY <1>1, <1>3, <2>1 DEF Lined
  <2>3. \A i \in 1..Len(syncs) : Before(tab', syncs[i]) /\ Before(syncs[i], nebula')
    BY <1>1, <1>3, <2>1 DEF Lined
  <2>4. CASE Shortened
    BY <2>2, <2>3, <2>4 DEF Lined, Shortened
  <2>5. CASE Extended
    <3>1. PICK m : m = syncs'[Len(syncs) + 1]
      OBVIOUS
    <3>2. /\ m.rev = nebula'.rev /\ m.boot = nebula'.boot /\ m.canvas = nebula'.canvas
          /\ Len(syncs') = Len(syncs) + 1 /\ Len(syncs) \in Nat
          /\ \A i \in 1..Len(syncs) : syncs'[i] = syncs[i]
      BY <2>5, <3>1, QueueFacts DEF Extended
    <3>3. \A h : Before(h, nebula') => Before(h, m)
      BY <3>2 DEF Before
    <3>4. Before(m, nebula') /\ Before(m, m) /\ Before(tab', m)
      BY <1>2, <2>2, <3>2, <3>3 DEF Before
    <3>5. \A i \in 1..Len(syncs') : (i \in 1..Len(syncs) /\ syncs'[i] = syncs[i]) \/ (i = Len(syncs) + 1 /\ syncs'[i] = m)
      BY <3>1, <3>2
    <3>6. \A i \in 1..Len(syncs') : Before(tab', syncs'[i]) /\ Before(syncs'[i], nebula')
      BY <2>3, <3>4, <3>5
    <3>7. ASSUME NEW i \in 1..Len(syncs'), NEW j \in 1..Len(syncs'), i <= j PROVE Before(syncs'[i], syncs'[j])
      <4>1. CASE i \in 1..Len(syncs) /\ j \in 1..Len(syncs)
        BY <3>2, <3>7, <4>1 DEF Lined
      <4>2. CASE j = Len(syncs) + 1
        BY <3>1, <3>3, <3>6, <4>2
      <4>3. CASE i = Len(syncs) + 1 /\ j \in 1..Len(syncs)
        BY <3>2, <3>7, <4>3
      <4> QED BY <3>2, <4>1, <4>2, <4>3
    <3> QED BY <2>2, <3>6, <3>7 DEF Lined
  <2> QED BY <1>5, <2>4, <2>5, QueueFacts DEF Advanced
<1> QED BY <1>4, <1>5

\* Every step keeps the backend's and the syncs' values at home.
LEMMA BackendHoused ==
  ASSUME Types, Types', Housed, [Next]_vars
  PROVE  AtBackend'
<1>1. nebula.boot \in Nat /\ nebula'.boot \in Nat
  BY DEF Types, Backend
<1>2. ASSUME NEW x \in Numbers, At(x, nebula), Follows(nebula, nebula') PROVE At(x, nebula)'
  <2>1. PICK h : h = nebula
    OBVIOUS
  <2>2. PICK g : g = nebula'
    OBVIOUS
  <2>3. At(x, g)'
    BY <1>1, <1>2, <2>1, <2>2, AtMoves
  <2> QED BY <2>2, <2>3 DEF At
<1>3. ASSUME NEW k \in Key PROVE At(nebula.params[k], nebula)'
  <2>0. PICK x : x = nebula'.params[k]
    OBVIOUS
  <2>1. CASE Cleared(k)
    <3>1. Abs(x) = 0 /\ 0 \notin DOMAIN made'
      <4>1. DOMAIN made' = 1..Len(made')
        BY LenProperties DEF Types, Written
      <4> QED BY <2>0, <2>1, <4>1 DEF Cleared, Abs
    <3> QED BY <2>0, <3>1 DEF At
  <2>2. CASE ByAgent(k)
    <3>1. PICK n : n = Len(made')
      OBVIOUS
    <3>2. n \in Nat
      BY <3>1, LenProperties DEF Types, Written
    <3>3. x = n /\ Abs(x) = n
      BY <2>0, <2>2, <3>1, <3>2 DEF ByAgent, Abs
    <3>4. made'[n].boot = nebula'.boot /\ made'[n].canvas = nebula'.canvas
      BY <2>2, <3>1 DEF ByAgent
    <3> QED BY <1>1, <2>0, <3>3, <3>4 DEF At, Follows
  <2>3. CASE Delivered(k)
    <3>1. PICK r \in requests :
            /\ r.rev = nebula.rev /\ k \in DOMAIN r.sent /\ Abs(nebula'.params[k]) = Abs(r.sent[k])
            /\ nebula'.boot = nebula.boot /\ nebula'.canvas = nebula.canvas
      BY <2>3 DEF Delivered
    <3>2. PICK y : y = r.sent[k]
      OBVIOUS
    <3>3. y \in Numbers /\ At(y, nebula)
      BY <3>1, <3>2, CarriedFacts DEF Types, Housed, AtDelivery
    <3>4. Follows(nebula, nebula')
      BY <1>1, <3>1 DEF Follows
    <3>5. At(y, nebula)'
      BY <1>2, <3>3, <3>4
    <3> QED BY <2>0, <3>1, <3>2, <3>5 DEF At
  <2>4. CASE nebula'.params[k] = nebula.params[k] /\ Follows(nebula, nebula')
    <3>1. x \in Numbers /\ At(x, nebula)
      BY <2>0, <2>4 DEF Types, Backend, Housed, AtBackend
    <3>2. At(x, nebula)'
      BY <1>2, <2>4, <3>1
    <3> QED BY <2>0, <3>2 DEF At
  <2> QED BY <2>1, <2>2, <2>3, <2>4, NebulaFacts, NebulaMoves
<1>4. ASSUME NEW i \in 1..Len(syncs') , NEW k \in Key PROVE At(syncs[i].params[k], syncs[i])'
  <2>1. ASSUME NEW j \in 1..Len(syncs), syncs'[i] = syncs[j] PROVE At(syncs[i].params[k], syncs[i])'
    <3>1. PICK m : m = syncs[j]
      OBVIOUS
    <3>2. PICK x : x = m.params[k]
      OBVIOUS
    <3>3. m \in Message(Numbers)
      BY <3>1, ElementOfSeq DEF Types
    <3>4. x \in Numbers /\ m.boot \in Nat /\ At(x, m) /\ Follows(m, m)
      BY <3>1, <3>2, <3>3 DEF Message, Housed, AtBackend, Follows
    <3>5. At(x, m)'
      BY <3>4, AtMoves
    <3> QED BY <2>1, <3>1, <3>2, <3>5 DEF At
  <2>2. CASE Shortened
    BY <2>1, <2>2 DEF Shortened
  <2>3. CASE Advanced
    BY <2>1, <2>3 DEF Advanced
  <2>4. CASE Extended
    <3>1. i \in 1..Len(syncs) \/ i = Len(syncs) + 1
      BY <2>4, QueueFacts DEF Extended
    <3>2. CASE i \in 1..Len(syncs)
      BY <2>1, <2>4, <3>2 DEF Extended
    <3>3. CASE i = Len(syncs) + 1
      <4>1. /\ syncs'[i].params = nebula'.params /\ syncs'[i].boot = nebula'.boot
            /\ syncs'[i].canvas = nebula'.canvas
        BY <2>4, <3>3 DEF Extended
      <4> QED BY <1>3, <4>1 DEF At, Follows
    <3> QED BY <3>1, <3>2, <3>3
  <2> QED BY <2>2, <2>3, <2>4, QueueFacts
<1> QED BY <1>3, <1>4 DEF AtBackend

\* What a request of the next state carries was carried, or is sent of the card now.
LEMMA RequestFacts ==
  ASSUME Types, [Next]_vars, NEW q \in requests'
  PROVE  \/ \E p \in requests : q.sent = p.sent /\ q.rev = p.rev /\ q.graph = p.graph
         \/ /\ \A k \in DOMAIN q.sent : k \in Key /\ q.sent[k] = tab.params[k]
            /\ q.rev = tab.rev /\ q.graph = tab.graph
            /\ nebula' = nebula /\ tab' = [tab EXCEPT !.pushes = @ + 1] /\ saved' = saved
<1>1. ASSUME requests' \subseteq requests
      PROVE  \E p \in requests : q.sent = p.sent /\ q.rev = p.rev /\ q.graph = p.graph
  BY <1>1
<1>2. ASSUME NEW r \in requests, NEW state \in States,
             requests' = (requests \ {r}) \cup {[r EXCEPT !.state = state]}
      PROVE  \E p \in requests : q.sent = p.sent /\ q.rev = p.rev /\ q.graph = p.graph
  <2>1. PICK v : v = [r EXCEPT !.state = state]
    OBVIOUS
  <2>2. v.sent = r.sent /\ v.rev = r.rev /\ v.graph = r.graph
    <3>1. r \in Request(Numbers)
      BY DEF Types
    <3> QED BY <2>1, <3>1, MovedFields
  <2> QED BY <1>2, <2>1, <2>2
<1>3. ASSUME NEW resent \in BOOLEAN, Push(resent), nebula' = nebula
      PROVE  \/ \E p \in requests : q.sent = p.sent /\ q.rev = p.rev /\ q.graph = p.graph
             \/ /\ \A k \in DOMAIN q.sent : k \in Key /\ q.sent[k] = tab.params[k]
                /\ q.rev = tab.rev /\ q.graph = tab.graph
                /\ nebula' = nebula /\ tab' = [tab EXCEPT !.pushes = @ + 1] /\ saved' = saved
  <2>1. CASE edit = NoEdit
    BY <1>1, <1>3, <2>1, PushFacts
  <2>2. CASE edit # NoEdit
    <3>1. PICK p : p = Sending(resent)
      OBVIOUS
    <3>2. requests' = requests \cup {p} /\ tab' = [tab EXCEPT !.pushes = @ + 1] /\ saved' = saved
      BY <1>3, <2>2, <3>1, PushFacts
    <3>3. edit.keys \subseteq Key
      BY DEF Types, Edits
    <3>4. p.sent = [k \in edit.keys |-> tab.params[k]] /\ p.rev = tab.rev /\ p.graph = tab.graph
      BY <3>1 DEF Sending
    <3>5. CASE q = p
      BY <1>3, <3>2, <3>3, <3>4, <3>5
    <3> QED BY <3>2, <3>5
  <2> QED BY <2>1, <2>2
<1>4. CASE Debounced \/ Resend
  <2>1. nebula' = nebula
    BY <1>4 DEF Debounced, Resend, server
  <2>2. CASE Resend /\ timer
    BY <1>1, <2>2 DEF Resend
  <2>3. CASE Debounced \/ (Resend /\ ~timer)
    BY <1>3, <2>1, <2>3 DEF Debounced, Resend
  <2> QED BY <1>4, <2>2, <2>3
<1>5. CASE \E r \in requests : Deliver(r)
  BY <1>2, <1>5, DeliverFacts DEF States
<1>6. CASE \E r \in requests : Fail(r)
  BY <1>2, <1>6 DEF Fail, States
<1>7. CASE \/ \E k \in Key : Type(k) \/ AgentEdit(k)
           \/ \E kind \in {"clear", "import"} : AgentReplaces(kind)
           \/ \E r \in requests : Answers(r)
           \/ Gap \/ Reconnect \/ Restart \/ ParkedTimeout \/ Linger \/ ReceiveSync \/ UNCHANGED vars
  <2>1. requests' \subseteq requests
    BY <1>7 DEF Type, AgentEdit, AgentReplaces, Answers, AnswerOk, AnswerCutOff, AnswerParked, AnswerFailed,
                PutsBack, Gap, Reconnect, Restart, ParkedTimeout, Linger, ReceiveSync, vars
  <2> QED BY <1>1, <2>1
<1> QED BY <1>4, <1>5, <1>6, <1>7 DEF Next

\* Every step keeps what a save would change on this canvas at home there.
LEMMA DeliveryHoused ==
  ASSUME Types, Types', Housed, [Next]_vars
  PROVE  AtDelivery'
<1> SUFFICES ASSUME NEW q \in requests'
             PROVE  /\ q.rev <= nebula'.rev
                    /\ q.rev = nebula'.rev => \A k \in DOMAIN q.sent : At(q.sent[k], nebula)'
  BY DEF AtDelivery
<1>1. /\ Dated(nebula) /\ Dated(nebula') /\ Dated(tab) /\ Before(nebula, nebula') /\ Before(tab, nebula)
  BY NebulaMoves DEF Types, Backend, Card, Dated, Housed, Lined
<1>2. ASSUME NEW h, Dated(h), NEW x \in Numbers, At(x, h), Follows(h, nebula') PROVE At(x, nebula)'
  <2>1. PICK g : g = nebula'
    OBVIOUS
  <2>2. At(x, g)'
    BY <1>1, <1>2, <2>1, AtMoves DEF Dated
  <2> QED BY <2>1, <2>2 DEF At
<1>3. ASSUME NEW p \in requests, q.sent = p.sent, q.rev = p.rev
      PROVE  /\ q.rev <= nebula'.rev
             /\ q.rev = nebula'.rev => \A k \in DOMAIN q.sent : At(q.sent[k], nebula)'
  <2>1. p \in Request(Numbers) /\ p.rev \in Nat /\ p.rev <= nebula.rev
    BY DEF Types, Request, Housed, AtDelivery
  <2>2. q.rev <= nebula'.rev /\ (q.rev = nebula'.rev => p.rev = nebula.rev /\ nebula.rev = nebula'.rev)
    BY <1>1, <1>3, <2>1 DEF Before, Dated
  <2>3. ASSUME q.rev = nebula'.rev, NEW k \in DOMAIN q.sent PROVE At(q.sent[k], nebula)'
    <3>1. PICK x : x = q.sent[k]
      OBVIOUS
    <3>2. PICK h : h = nebula
      OBVIOUS
    <3>3. x \in Numbers /\ At(x, h)
      BY <1>3, <2>1, <2>2, <2>3, <3>1, <3>2, CarriedFacts DEF Housed, AtDelivery
    <3>4. Follows(h, nebula') /\ Dated(h)
      BY <1>1, <2>2, <2>3, <3>2, BeforeFacts
    <3>5. At(x, nebula)'
      BY <1>2, <3>3, <3>4
    <3> QED BY <3>1, <3>5 DEF At
  <2> QED BY <2>2, <2>3
<1>4. ASSUME \A k \in DOMAIN q.sent : k \in Key /\ q.sent[k] = tab.params[k],
             q.rev = tab.rev, nebula' = nebula
      PROVE  /\ q.rev <= nebula'.rev
             /\ q.rev = nebula'.rev => \A k \in DOMAIN q.sent : At(q.sent[k], nebula)'
  <2>1. q.rev <= nebula'.rev
    BY <1>1, <1>4 DEF Before
  <2>2. ASSUME q.rev = nebula'.rev, NEW k \in DOMAIN q.sent PROVE At(q.sent[k], nebula)'
    <3>1. PICK x : x = q.sent[k]
      OBVIOUS
    <3>2. PICK h : h = tab
      OBVIOUS
    <3>3. x \in Numbers /\ At(x, h)
      BY <1>4, <3>1, <3>2 DEF Types, Card, Housed, AtTab
    <3>4. Follows(h, nebula') /\ Dated(h)
      BY <1>1, <1>4, <2>2, <3>2, BeforeFacts
    <3>5. At(x, nebula)'
      BY <1>2, <3>3, <3>4
    <3> QED BY <3>1, <3>5 DEF At
  <2> QED BY <2>1, <2>2
<1> QED BY <1>3, <1>4, RequestFacts

\* Every step keeps what is astray old.
LEMMA AstrayHoused ==
  ASSUME Types, Types', Housed, [Next]_vars
  PROVE  AstrayIsOld'
<1> SUFFICES ASSUME NEW v \in astray' \ mislaid' PROVE made'[v].boot < nebula'.boot
  BY DEF AstrayIsOld
<1>1. nebula.boot \in Nat /\ nebula'.boot \in Nat /\ nebula.boot <= nebula'.boot
  BY NebulaMoves DEF Types, Backend, Before
<1>2. CASE v \in astray
  <2>1. v \in DOMAIN made
    BY <1>2, MadeFacts DEF Types, Written, Places
  <2>2. made'[v] = made[v] /\ v \notin mislaid /\ made[v].boot \in Nat
    BY <2>1, Grows, MadeFacts DEF Maker
  <2>3. made[v].boot < nebula.boot
    BY <1>2, <2>2 DEF Housed, AstrayIsOld
  <2> QED BY <1>1, <2>2, <2>3
<1>3. CASE v \notin astray
  <2>1. PICK r \in requests : Deliver(r)
    <3>1. (\A r \in requests : ~Deliver(r)) => astray' = astray
      BY DEF Next, Type, AgentEdit, AgentReplaces, Fail, Answers, AnswerOk, AnswerCutOff, AnswerParked,
             AnswerFailed, PutsBack, Gap, Reconnect, Restart, Debounced, Resend, ParkedTimeout, Linger,
             ReceiveSync, vars, past
    <3> QED BY <1>3, <3>1
  <2>2. /\ r.rev = nebula.rev /\ v \in Carried(r) \ {0} /\ made[v].canvas # nebula.canvas
        /\ made' = made /\ mislaid' = mislaid
    BY <1>3, <2>1 DEF Deliver
  <2>3. PICK k \in DOMAIN r.sent : v = Abs(r.sent[k])
    BY <2>2 DEF Carried
  <2>4. v \in DOMAIN made
    BY <2>2, CarriedFacts, MadeFacts DEF Types, Places
  <2>5. Follows(made[v], nebula)
    BY <2>2, <2>3, <2>4 DEF Housed, AtDelivery, At
  <2>6. made[v].boot < nebula.boot /\ made[v].boot \in Nat
    BY <2>2, <2>4, <2>5, MadeFacts DEF Follows, Maker
  <2> QED BY <1>1, <2>2, <2>6
<1> QED BY <1>2, <1>3

\* The tab stays on its canvas, but for the sync of another one: that one's settings are
\* shown, and the saved values are gone.
LEMMA TabMoves ==
  ASSUME Types, Types', Booked, Lined, [Next]_vars
  PROVE  \/ Follows(tab, tab') /\ tab'.graph = tab.graph
         \/ \E i \in 1..Len(syncs) :
              /\ tab'.params = syncs[i].params /\ tab'.boot = syncs[i].boot /\ tab'.canvas = syncs[i].canvas
              /\ (\A k \in Key : saved'[k] = Absent) /\ tab'.graph = tab.graph + 1 /\ requests' = requests
<1>1. Dated(tab)
  BY DEF Types, Card, Dated
<1>2. CASE ~ReceiveSync
  BY <1>1, <1>2, TabStays DEF Follows, Dated
<1>3. CASE ReceiveSync
  <2> DEFINE s == Head(syncs)
  <2>1. /\ syncs # <<>> /\ syncs' = Tail(syncs) /\ (SyncImport(s) \/ SyncOtherCanvas(s) \/ SyncMerged(s))
        /\ requests' = requests
    BY <1>3 DEF ReceiveSync
  <2>2. s \in Message(Numbers) /\ 1 \in 1..Len(syncs) /\ s = syncs[1]
    BY <2>1, HeadFacts
  <2> HIDE DEF s
  <2>3. CASE SyncImport(s) \/ SyncOtherCanvas(s)
    <3>1. /\ Forget /\ tab'.graph = tab.graph + 1 /\ tab'.params = s.params /\ tab'.boot = s.boot
          /\ tab'.canvas = s.canvas
      BY <2>2, <2>3, ReplacedFacts
    <3>2. \A k \in Key : saved'[k] = Absent
      BY <3>1 DEF Forget, NoneSaved
    <3> QED BY <2>1, <2>2, <3>1, <3>2
  <2>4. CASE SyncMerged(s)
    <3>1. /\ tab'.graph = tab.graph /\ tab'.rev = s.rev /\ tab'.boot = s.boot /\ tab'.canvas = s.canvas
      BY <2>2, <2>4, MergedFacts
    <3>2. Dated(s) /\ Before(tab, s) /\ (s.rev = tab.rev \/ s.boot # tab.boot)
      BY <2>2, <2>4 DEF Message, Dated, Lined, SyncMerged, SameCanvas
    <3>3. Follows(tab, s)
      BY <1>1, <3>2 DEF Before, Follows, Dated
    <3> QED BY <3>1, <3>3 DEF Follows
  <2> QED BY <2>1, <2>3, <2>4
<1> QED BY <1>2, <1>3

\* What the card shows of a step is of what it showed, of a save of its canvas, of the
\* last saved values, typed now, or of a sync; and so are the last saved values.
OnCard(x) ==
  \/ \E k \in Key : x = tab.params[k] \/ (saved[k] # Absent /\ x = saved[k])
  \/ \E r \in requests : r.graph = tab.graph /\ \E k \in DOMAIN r.sent : x = r.sent[k]
Typed(x) ==
  /\ x = Len(made') /\ made'[Len(made')].boot = tab'.boot /\ made'[Len(made')].canvas = tab'.canvas
Arrived(x) ==
  \E i \in 1..Len(syncs) : \E k \in Key :
    x = syncs[i].params[k] /\ tab'.boot = syncs[i].boot /\ tab'.canvas = syncs[i].canvas
Lost(x) == Abs(x) \in mislaid'

\* A sync shows its own settings, or leaves the card's.
LEMMA SyncShows ==
  ASSUME Types, ReceiveSync, NEW k \in Key
  PROVE  /\ OnCard(tab'.params[k]) \/ Arrived(tab'.params[k])
         /\ saved'[k] = Absent \/ saved'[k] = saved[k]
<1> DEFINE s == Head(syncs)
<1>1. /\ syncs # <<>> /\ syncs' = Tail(syncs) /\ (SyncImport(s) \/ SyncOtherCanvas(s) \/ SyncMerged(s))
  BY DEF ReceiveSync
<1>2. s \in Message(Numbers) /\ 1 \in 1..Len(syncs) /\ s = syncs[1]
  BY <1>1, HeadFacts
<1> HIDE DEF s
<1>3. Forget => saved'[k] = Absent
  BY DEF Forget, NoneSaved
<1>4. CASE SyncImport(s) \/ SyncOtherCanvas(s)
  <2>1. Forget /\ tab'.params = s.params /\ tab'.boot = s.boot /\ tab'.canvas = s.canvas
    BY <1>2, <1>4, ReplacedFacts
  <2> QED BY <1>2, <1>3, <2>1 DEF Arrived
<1>5. CASE SyncMerged(s)
  <2>1. /\ tab'.params = [q \in Key |-> IF q \in edit'.keys THEN tab.params[q] ELSE s.params[q]]
        /\ tab'.boot = s.boot /\ tab'.canvas = s.canvas
        /\ ~LetsGo(s) => saved' = saved
    BY <1>2, <1>5, MergedFacts
  <2>2. LetsGo(s) => Forget
    BY <1>5 DEF SyncMerged
  <2>3. CASE k \in edit'.keys
    BY <1>3, <2>1, <2>2, <2>3 DEF OnCard
  <2>4. CASE k \notin edit'.keys
    BY <1>2, <1>3, <2>1, <2>2, <2>4 DEF Arrived
  <2> QED BY <2>3, <2>4
<1> QED BY <1>1, <1>4, <1>5

\* An answer leaves the card's settings, or puts back a save's or the last saved ones.
LEMMA AnswerShows ==
  ASSUME Types, Booked, NEW r \in requests, Answers(r), NEW k \in Key
  PROVE  /\ OnCard(tab'.params[k])
         /\ saved'[k] # Absent => OnCard(saved'[k]) \/ Lost(saved'[k])
<1>1. r \in Request(Numbers) /\ Owns(r)
  BY DEF Types, Booked
<1>2. Forget => saved'[k] = Absent
  BY DEF Forget, NoneSaved
<1>3. CASE AnswerOk(r)
  <2>1. tab' = tab
    BY <1>3 DEF AnswerOk
  <2>2. CASE Settles(r) /\ (edit.echoed \/ DOMAIN edit.sent = {})
    BY <1>2, <1>3, <2>1, <2>2 DEF AnswerOk, OnCard
  <2>3. CASE ~(Settles(r) /\ (edit.echoed \/ DOMAIN edit.sent = {}))
    <3>1. /\ saved'[k] = IF k \in DOMAIN r.sent /\ saved[k] # Absent THEN r.sent[k] ELSE saved[k]
          /\ mislaid' = IF r.graph = tab.graph THEN mislaid ELSE mislaid \cup
               {Abs(r.sent[q]) : q \in {q \in DOMAIN r.sent : saved[q] # Absent}}
      BY <1>3, <2>3 DEF AnswerOk
    <3>2. CASE k \in DOMAIN r.sent /\ saved[k] # Absent
      <4>1. CASE r.graph = tab.graph
        BY <2>1, <3>1, <3>2, <4>1 DEF OnCard
      <4>2. CASE r.graph # tab.graph
        BY <2>1, <3>1, <3>2, <4>2 DEF OnCard, Lost
      <4> QED BY <4>1, <4>2
    <3>3. CASE ~(k \in DOMAIN r.sent /\ saved[k] # Absent)
      BY <2>1, <3>1, <3>3 DEF OnCard
    <3> QED BY <3>2, <3>3
  <2> QED BY <2>2, <2>3
<1>4. CASE AnswerCutOff(r) \/ AnswerParked(r)
  <2>1. tab' = tab /\ saved' = saved
    BY <1>4 DEF AnswerCutOff, AnswerParked, book
  <2> QED BY <2>1 DEF OnCard
<1>5. CASE AnswerFailed(r)
  <2>1. /\ tab'.params[k] = IF k \in Back(r) THEN PutBack(r, k) ELSE tab.params[k]
        /\ r.graph = tab.graph /\ r.edit = edit.id
    BY <1>1, <1>5 DEF AnswerFailed, PutsBack, Types, Card, Owns
  <2>2. saved'[k] = Absent \/ saved' = saved
    BY <1>2, <1>5 DEF AnswerFailed
  <2>3. ASSUME k \in Back(r) PROVE OnCard(PutBack(r, k))
    <3>1. k \in DOMAIN r.sent
      BY <1>1, <2>3 DEF Back, Owns
    <3>2. CASE Older(r, k) # {}
      <4>1. PICK p : p = Newest(Older(r, k))
        OBVIOUS
      <4>2. p \in requests /\ p.edit = edit.id /\ k \in DOMAIN p.sent
        BY <3>2, <4>1, NewestFacts DEF Older, Out
      <4>3. p.graph = tab.graph /\ PutBack(r, k) = p.sent[k]
        BY <3>2, <4>1, <4>2 DEF Booked, Owns, PutBack
      <4> QED BY <4>2, <4>3 DEF OnCard
    <3>3. CASE Older(r, k) = {}
      BY <2>1, <3>1, <3>3 DEF PutBack, OnCard
    <3> QED BY <3>2, <3>3
  <2>4. OnCard(tab'.params[k])
    <3>1. CASE k \in Back(r)
      BY <2>1, <2>3, <3>1
    <3>2. CASE k \notin Back(r)
      BY <2>1, <3>2 DEF OnCard
    <3> QED BY <3>1, <3>2
  <2> QED BY <2>2, <2>4 DEF OnCard
<1> QED BY <1>3, <1>4, <1>5 DEF Answers

\* Every step shows something of these.
LEMMA CardShows ==
  ASSUME Types, Booked, [Next]_vars, NEW k \in Key
  PROVE  /\ \/ OnCard(tab'.params[k]) \/ Typed(tab'.params[k]) \/ Arrived(tab'.params[k])
         /\ saved'[k] # Absent => OnCard(saved'[k]) \/ Lost(saved'[k])
<1>1. ASSUME tab'.params = tab.params, saved' = saved \/ saved'[k] = Absent
      PROVE  OnCard(tab'.params[k]) /\ (saved'[k] # Absent => OnCard(saved'[k]))
  BY <1>1 DEF OnCard
<1>2. tab \in Card(Numbers) /\ saved \in [Key -> Numbers \cup {Absent}]
  BY DEF Types
<1>3. ASSUME NEW q \in Key, Type(q)
      PROVE  /\ OnCard(tab'.params[k]) \/ Typed(tab'.params[k])
             /\ saved'[k] # Absent => OnCard(saved'[k])
  <2>1. PICK m : m = [who |-> "person", key |-> q, canvas |-> tab.canvas, boot |-> tab.boot, graph |-> tab.graph]
    OBVIOUS
  <2>2. m \in Maker /\ m.who = "person" /\ m.canvas = tab.canvas /\ m.boot = tab.boot
    BY <1>2, <2>1 DEF Card, Maker
  <2>3. made' = Append(made, m) /\ Cardinality(By("person")) < MaxTyped
    BY <1>3, <2>1 DEF Type
  <2>4. made'[Len(made')] = m
    BY <2>2, <2>3, OneMade
  <2>5. /\ tab'.params = [tab.params EXCEPT ![q] = Len(made')] /\ tab'.boot = tab.boot /\ tab'.canvas = tab.canvas
        /\ saved' = [saved EXCEPT ![q] = IF @ = Absent THEN tab.params[q] ELSE @]
    BY <1>3, TypeFacts DEF Booked
  <2>6. CASE k = q
    <3>1. tab'.params[k] = Len(made')
      BY <1>2, <2>5, <2>6 DEF Card
    <3>2. Typed(tab'.params[k])
      BY <2>2, <2>4, <2>5, <3>1 DEF Typed
    <3> QED BY <1>2, <2>5, <2>6, <3>2 DEF OnCard
  <2>7. CASE k # q
    <3>1. tab'.params[k] = tab.params[k] /\ saved'[k] = saved[k]
      BY <1>2, <2>5, <2>7 DEF Card
    <3> QED BY <3>1 DEF OnCard
  <2> QED BY <2>6, <2>7
<1>4. CASE \E r \in requests : Answers(r)
  BY <1>4, AnswerShows
<1>5. CASE ReceiveSync
  BY <1>5, SyncShows DEF OnCard
<1>6. ASSUME NEW resent \in BOOLEAN, Push(resent) PROVE tab'.params = tab.params /\ saved' = saved
  BY <1>2, <1>6 DEF Push, Card, book
<1>7. CASE Debounced \/ Resend
  <2>1. tab'.params = tab.params /\ saved' = saved
    BY <1>6, <1>7 DEF Debounced, Resend, book
  <2> QED BY <1>1, <2>1
<1>8. CASE \/ \E q \in Key : AgentEdit(q)
           \/ \E kind \in {"clear", "import"} : AgentReplaces(kind)
           \/ Gap \/ Reconnect \/ Restart \/ ParkedTimeout \/ Linger
           \/ \E r \in requests : Deliver(r) \/ Fail(r)
           \/ UNCHANGED vars
  <2>1. tab' = tab
    BY <1>8 DEF AgentEdit, AgentReplaces, Gap, Reconnect, Restart, ParkedTimeout, Linger, Deliver, Fail, vars
  <2>2. saved' = saved \/ saved'[k] = Absent
    BY <1>8 DEF AgentEdit, AgentReplaces, Gap, Reconnect, Restart, ParkedTimeout, Linger, Deliver, Fail, vars,
                book, Forget, NoneSaved
  <2> QED BY <1>1, <2>1, <2>2
<1> QED BY <1>3, <1>4, <1>5, <1>7, <1>8 DEF Next

\* Every step keeps the values of the card and of its canvas's saves at home.
LEMMA TabHoused ==
  ASSUME Types, Types', Booked, Housed, [Next]_vars
  PROVE  AtTab'
<1>1. tab.boot \in Nat /\ tab'.boot \in Nat /\ tab \in Card(Numbers)
  BY DEF Types, Card
<1>2. ASSUME NEW x \in Numbers, NEW h, h.boot \in Nat, At(x, h), Follows(h, tab') PROVE At(x, tab)'
  <2>1. PICK g : g = tab'
    OBVIOUS
  <2>2. At(x, g)'
    BY <1>1, <1>2, <2>1, AtMoves
  <2> QED BY <2>1, <2>2 DEF At
<1>3. ASSUME NEW x, OnCard(x), Follows(tab, tab') PROVE At(x, tab)'
  <2>1. PICK h : h = tab
    OBVIOUS
  <2>2. x \in Numbers /\ At(x, h)
    <3>1. CASE \E k \in Key : x = tab.params[k] \/ (saved[k] # Absent /\ x = saved[k])
      BY <1>1, <2>1, <3>1 DEF Types, Card, Housed, AtTab
    <3>2. CASE \E r \in requests : r.graph = tab.graph /\ \E k \in DOMAIN r.sent : x = r.sent[k]
      BY <2>1, <3>2, CarriedFacts DEF Types, Housed, AtTab
    <3> QED BY <1>3, <3>1, <3>2 DEF OnCard
  <2> QED BY <1>1, <1>2, <1>3, <2>1, <2>2
<1>4. ASSUME NEW x, Typed(x) PROVE At(x, tab)'
  <2>1. PICK n : n = Len(made')
    OBVIOUS
  <2>2. n \in Nat
    BY <2>1, LenProperties DEF Types, Written
  <2>3. x = n /\ Abs(x) = n /\ made'[n].boot = tab'.boot /\ made'[n].canvas = tab'.canvas
    BY <1>4, <2>1, <2>2 DEF Typed, Abs
  <2> QED BY <1>1, <2>3 DEF At, Follows
<1>5. ASSUME NEW i \in 1..Len(syncs), NEW k \in Key, NEW x, x = syncs[i].params[k],
             tab'.boot = syncs[i].boot, tab'.canvas = syncs[i].canvas
      PROVE  At(x, tab)'
  <2>1. PICK h : h = syncs[i]
    OBVIOUS
  <2>2. h \in Message(Numbers)
    BY <2>1, ElementOfSeq DEF Types
  <2>3. x \in Numbers /\ At(x, h) /\ h.boot \in Nat
    BY <1>5, <2>1, <2>2 DEF Message, Housed, AtBackend
  <2>4. Follows(h, tab')
    BY <1>1, <1>5, <2>1 DEF Follows
  <2> QED BY <1>2, <2>3, <2>4
<1>6. ASSUME NEW k \in Key PROVE At(tab.params[k], tab)' /\ (saved'[k] # Absent => At(saved[k], tab)')
  <2>1. PICK x : x = tab'.params[k]
    OBVIOUS
  <2>2. PICK y : y = saved'[k]
    OBVIOUS
  <2>3. CASE Follows(tab, tab') /\ tab'.graph = tab.graph
    <3>1. OnCard(x) \/ Typed(x) \/ Arrived(x)
      BY <2>1, CardShows
    <3>2. At(x, tab)'
      BY <1>3, <1>4, <1>5, <2>3, <3>1 DEF Arrived
    <3>3. ASSUME y # Absent PROVE At(y, tab)'
      <4>1. OnCard(y) \/ Lost(y)
        BY <2>2, <3>3, CardShows
      <4>2. CASE Lost(y)
        BY <4>2 DEF Lost, At
      <4> QED BY <1>3, <2>3, <4>1, <4>2
    <3> QED BY <2>1, <2>2, <3>2, <3>3 DEF At
  <2>4. CASE \E i \in 1..Len(syncs) :
               /\ tab'.params = syncs[i].params /\ tab'.boot = syncs[i].boot /\ tab'.canvas = syncs[i].canvas
               /\ (\A q \in Key : saved'[q] = Absent)
    <3>1. At(x, tab)'
      BY <1>5, <2>1, <2>4
    <3> QED BY <2>1, <2>4, <3>1 DEF At
  <2> QED BY <2>3, <2>4, TabMoves DEF Housed
<1>7. ASSUME NEW q \in requests', q.graph = tab'.graph, NEW k \in DOMAIN q.sent PROVE At(q.sent[k], tab)'
  <2>1. PICK x : x = q.sent[k]
    OBVIOUS
  <2>2. CASE Follows(tab, tab') /\ tab'.graph = tab.graph
    <3>1. OnCard(x)
      BY <1>7, <2>1, <2>2, RequestFacts DEF OnCard
    <3>2. At(x, tab)'
      BY <1>3, <2>2, <3>1
    <3> QED BY <2>1, <3>2 DEF At
  <2>3. CASE tab'.graph = tab.graph + 1 /\ requests' = requests
    <3>1. q.graph <= tab.graph /\ q.graph \in Nat /\ tab.graph \in Nat
      BY <1>1, <2>3 DEF Booked, Owns, Types, Request, Card
    <3> QED BY <1>7, <2>3, <3>1
  <2> QED BY <2>2, <2>3, TabMoves DEF Housed
<1> QED BY <1>6, <1>7 DEF AtTab

\* Every step keeps all at home.
LEMMA HousedKept ==
  ASSUME Types, Types', Booked, Housed, [Next]_vars
  PROVE  Housed'
BY LinedKept, BackendHoused, TabHoused, DeliveryHoused, AstrayHoused DEF Housed

\* At first no value is anywhere.
LEMMA HousedInit ==
  ASSUME Init
  PROVE  Housed
<1>1. /\ made = <<>> /\ syncs = <<>> /\ requests = {} /\ astray = {} /\ saved = NoneSaved
      /\ tab.rev = 1 /\ tab.boot = 1 /\ tab.canvas = 1 /\ nebula.rev = 1 /\ nebula.boot = 1 /\ nebula.canvas = 1
  BY DEF Init
<1>2. DOMAIN made = {} /\ Len(syncs) = 0
  BY <1>1
<1>3. Lined
  BY <1>1, <1>2 DEF Lined, Before
<1>4. AtBackend /\ AtTab /\ AtDelivery /\ AstrayIsOld
  <2>1. \A x, h : At(x, h)
    BY <1>2 DEF At
  <2> QED BY <1>1, <2>1 DEF AtBackend, AtTab, AtDelivery, AstrayIsOld
<1> QED BY <1>3, <1>4 DEF Housed

-----------------------------------------------------------------------------
(* The theorems *)

SavesInv == Types /\ Booked /\ Said /\ Housed /\ Truthful /\ Honest

\* What every step keeps: the types and the books, and of each safety property the state
\* it follows from.
THEOREM SavesInvAlways == Spec => []SavesInv
<1>1. Init => SavesInv
  BY BaseInit, HonestInit, HousedInit DEF SavesInv
<1>2. SavesInv /\ [Next]_vars => SavesInv'
  <2> SUFFICES ASSUME SavesInv, [Next]_vars PROVE SavesInv'
    OBVIOUS
  <2>1. Types /\ Booked /\ Said /\ Housed /\ Truthful /\ Honest
    BY DEF SavesInv
  <2>2. Types' /\ Booked'
    BY <2>1, BaseKept
  <2>3. Said' /\ Housed' /\ Truthful' /\ Honest'
    BY <2>1, <2>2, SaidKept, HousedKept, TruthfulKept, HonestKept
  <2> QED BY <2>2, <2>3 DEF SavesInv
<1> QED BY <1>1, <1>2, PTL DEF Spec

\* The types and the books make the state well formed.
LEMMA SavesTyped ==
  ASSUME SavesInv
  PROVE  TypeOK
<1>1. Types /\ Booked
  BY DEF SavesInv
<1>2. nebula.params \in [Key -> Value] /\ tab.params \in [Key -> Value]
  <2>1. nebula.params \in [Key -> Numbers] /\ tab.params \in [Key -> Numbers] /\ Numbers \subseteq Value
    BY <1>1, NumberFacts DEF Types, Backend, Card
  <2> QED BY <2>1
<1>3. edit.keys \subseteq Key /\ DOMAIN edit.sent \subseteq edit.keys /\ (edit = NoEdit) = (edit.keys = {})
  <2>1. edit = NoEdit => edit.keys = {}
    BY DEF NoEdit
  <2> QED BY <1>1, <2>1 DEF Types, Edits, Booked, Kept
<1>4. edit = NoEdit => saved = NoneSaved /\ gens = NoGens /\ Out = {}
  <2>1. edit = NoEdit => Out = {}
    <3>1. ASSUME NEW r \in requests PROVE r.edit # 0
      BY <1>1 DEF Booked, Owns, Types, Request
    <3> QED BY <3>1 DEF Out, NoEdit
  <2> QED BY <1>1, <2>1 DEF Booked, Kept
<1>5. \A k \in edit.keys : saved[k] # Absent /\ edit.before[k] # Absent
  BY <1>1 DEF Booked, Kept
<1>6. \A k \in Key : gens.key[k] <= gens.edit /\ gens.push <= gens.edit
  BY <1>1 DEF Booked, Kept
<1>7. timer \in BOOLEAN /\ parked.state \in {"no", "kept", "due"} /\ parked.saves \subseteq Places
  BY <1>1 DEF Types
<1>8. \A p, q \in requests : p.id = q.id => p = q
  BY <1>1 DEF Booked, Apart
<1>9. told \cup cut \cup late \cup astray \cup unowned \cup mislaid \cup parked.saves \subseteq 0..Len(made)
  BY <1>1, <1>7 DEF Types, Written, Places
<1> QED BY <1>2, <1>3, <1>4, <1>5, <1>6, <1>7, <1>8, <1>9 DEF TypeOK

\* The state is well formed: what is shown, edited and saved are values that were written
\* or none, no save's answer is awaited without an edit, and requests have ids of their own.
THEOREM TypeCorrect == Spec => []TypeOK
<1>1. SavesInv => TypeOK
  BY SavesTyped
<1> QED BY <1>1, SavesInvAlways, PTL

\* What is typed is taken, named to the person, typed over or on its way, but for the two
\* gaps that are set apart: whatever is lost, refused, put back, replaced or restarted
\* (paramSaveFailed, noteCutOff, replaceCanvasByClear).
THEOREM NothingLostUnsaidAlways == Spec => []NothingLostUnsaid
<1>1. SavesInv => NothingLostUnsaid
  BY SaidIsNothingLost DEF SavesInv
<1> QED BY <1>1, SavesInvAlways, PTL

\* Typing never reaches another canvas of the same process than the one it was typed on,
\* but for a value that an answer for a replaced canvas left as last saved: the revision
\* that pushNodeParams sends is never mistaken.
THEOREM WritesStayOnTheirCanvasAlways == Spec => []WritesStayOnTheirCanvas
<1>1. SavesInv => WritesStayOnTheirCanvas
  BY HousedIsOnItsCanvas DEF SavesInv
<1> QED BY <1>1, SavesInvAlways, PTL

\* At rest a card shows no typing that the backend never took, but for the two gaps that
\* are set apart: a failed save puts back what nobody else owns (paramSaveFailed).
THEOREM ShownIsTakenAlways == Spec => []ShownIsTaken
<1>1. SavesInv => ShownIsTaken
  BY HonestIsTaken DEF SavesInv
<1> QED BY <1>1, SavesInvAlways, PTL
=============================================================================

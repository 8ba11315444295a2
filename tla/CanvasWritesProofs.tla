------------------------- MODULE CanvasWritesProofs -------------------------
(***************************************************************************)
(* What holds of CanvasWrites for every number of writes, switches,        *)
(* replacements and failures: no write lands astray, no edit is lost       *)
(* unsaid, and what lands does so in the order it was made.                *)
(*                                                                         *)
(* The first section types the state and says what each step does to the   *)
(* writes (Goes, Quiet); "Fenced", "Accounted" and "Ordered" then          *)
(* strengthen the three properties into inductive invariants, and          *)
(* "Arranged" the type invariant.                                          *)
(***************************************************************************)
EXTENDS CanvasWrites, SequenceTheorems, TLAPS

Phases == {"none", "drain", "asking", "opened", "follow", "home"}
Write ==
  [kind : {"edit", "restore"},
   state : {"waiting", "queued", "gated", "sent", "ok", "refused", "late", "done"},
   rev : Nat, canvas : Nat, graph : Nat, header : Nat \X Nat,
   after : SUBSET Nat, answers : SUBSET Nat, limit : BOOLEAN, held : BOOLEAN, counted : BOOLEAN]

Types ==
  /\ nebula \in [rev : Nat, canvas : Nat, took : Seq([id : Nat, canvas : Nat])]
  /\ notices \in Seq([from : Nat, rev : Nat, canvas : Nat])
  /\ tab \in [rev : Nat, canvas : Nat, graph : Nat]
  /\ writes \in Seq(Write)
  /\ gate \in Nat
  /\ switch \in [phase : Phases, watching : SUBSET Nat, cut : SUBSET Nat, rev : Nat, canvas : Nat]
  /\ report \in [graph : Nat, says : BOOLEAN]
  /\ told \in SUBSET Nat /\ handed \in SUBSET Nat /\ passed \in SUBSET Nat

\* A function on 1..n is a sequence of length n.
LEMMA SeqOfFcn ==
  ASSUME NEW S, NEW n \in Nat, NEW f \in [1..n -> S]
  PROVE  f \in Seq(S) /\ Len(f) = n /\ DOMAIN f = 1..n
<1>1. f \in Seq(S)
  BY SeqDef
<1> QED BY <1>1, LenProperties

\* A write's id is its place, and a typed write is there.
LEMMA IdsFacts ==
  ASSUME Types
  PROVE  /\ Len(writes) \in Nat /\ Ids = 1..Len(writes) /\ Ids \subseteq Nat
         /\ \A i \in Ids : writes[i] \in Write
BY LenProperties, ElementOfSeq DEF Types, Ids

\* What no step changes of a write.
Same(v, w) == v.kind = w.kind /\ v.rev = w.rev /\ v.canvas = w.canvas /\ v.graph = w.graph
AsMade(w) == w.state \in {"sent", "late"} => w.header = <<w.rev, w.canvas>>

\* send stamps a write with its own admission, or answers it here.
LEMMA SentFacts ==
  ASSUME NEW w \in Write, NEW t
  PROVE  /\ Sent(w, t) \in Write /\ Same(Sent(w, t), w) /\ AsMade(Sent(w, t))
         /\ Sent(w, t).counted = w.counted /\ Sent(w, t).state \in {"sent", "refused"}
<1> DEFINE s == [w EXCEPT !.state = "sent", !.header = <<w.rev, w.canvas>>]
           d == [w EXCEPT !.state = "refused"]
<1>1. s \in Write /\ Same(s, w) /\ AsMade(s) /\ s.counted = w.counted /\ s.state = "sent"
  BY DEF Write, Same, AsMade
<1>2. d \in Write /\ Same(d, w) /\ AsMade(d) /\ d.counted = w.counted /\ d.state = "refused"
  BY DEF Write, Same, AsMade
<1> QED BY <1>1, <1>2 DEF Sent

\* What admitWrite reads is a write of the canvas shown.
LEMMA AdmissionFacts ==
  ASSUME Types, NEW kind \in {"edit", "restore"}, NEW state \in {"waiting", "queued"}
  PROVE  LET w == Admission(kind, state) IN
         w \in Write /\ w.kind = kind /\ w.state = state /\ w.graph = tab.graph /\ ~w.counted
BY DEF Types, Admission, Write

\* An edit joins the writes at the gate, on its way, refused, or waiting.
LEMMA EditTyped ==
  ASSUME Types, Edit
  PROVE  \E w \in Write : /\ writes' = Append(writes, w) /\ w.kind = "edit" /\ ~w.counted
                          /\ w.graph = tab.graph
                          /\ w.state \in {"gated", "sent", "refused", "waiting"}
                          /\ (w.state = "gated" => gate # 0) /\ AsMade(w)
<1> DEFINE w == Admission("edit", "waiting")
           g == [w EXCEPT !.state = "gated", !.held = TRUE]
           b == [w EXCEPT !.after = Pending \cup Waiting]
<1>1. w \in Write /\ w.kind = "edit" /\ w.state = "waiting" /\ w.graph = tab.graph /\ ~w.counted
  BY AdmissionFacts
<1> HIDE DEF w
<1>2. Pending \cup Waiting \subseteq Nat
  BY IdsFacts DEF Pending, Waiting
<1>3. CASE gate # 0
  <2>1. g \in Write /\ g.kind = "edit" /\ ~g.counted /\ g.graph = tab.graph /\ g.state = "gated"
    BY <1>1 DEF Write
  <2> QED BY <2>1, <1>3 DEF Edit, w, AsMade
<1>4. CASE gate = 0 /\ Pending \cup Waiting = {}
  BY <1>1, <1>4, SentFacts DEF Edit, w, Same
<1>5. CASE gate = 0 /\ Pending \cup Waiting # {}
  <2>1. b \in Write /\ b.kind = "edit" /\ ~b.counted /\ b.graph = tab.graph /\ b.state = "waiting"
    BY <1>1, <1>2 DEF Write
  <2> QED BY <2>1, <1>5 DEF Edit, w, AsMade
<1> QED BY <1>3, <1>4, <1>5

\* A restore joins them queued.
LEMMA UndoTyped ==
  ASSUME Types, Undo
  PROVE  \E w \in Write : /\ writes' = Append(writes, w) /\ w.kind = "restore" /\ ~w.counted
                          /\ w.graph = tab.graph /\ w.state = "queued"
<1> DEFINE w == Admission("restore", "queued")
           A == {i \in Live : IsEdit(i) /\ Here(i)}
           v == [w EXCEPT !.after = Pending \cup Waiting, !.answers = A]
<1>1. w \in Write /\ w.kind = "restore" /\ w.state = "queued" /\ w.graph = tab.graph /\ ~w.counted
  BY AdmissionFacts
<1>2. Pending \cup Waiting \subseteq Nat /\ A \subseteq Nat
  BY IdsFacts DEF Pending, Waiting, Live
<1>3. writes' = Append(writes, v)
  BY DEF Undo
<1> HIDE DEF w, A
<1>4. v \in Write /\ v.kind = "restore" /\ ~v.counted /\ v.graph = tab.graph /\ v.state = "queued"
  BY <1>1, <1>2 DEF Write
<1> QED BY <1>3, <1>4

\* A write goes behind the others.
LEMMA AppendFacts ==
  ASSUME Types, NEW w \in Write, writes' = Append(writes, w)
  PROVE  /\ writes' \in Seq(Write) /\ Ids' = Ids \cup {Len(writes) + 1} /\ Len(writes) + 1 \notin Ids
         /\ Len(writes) + 1 \in Nat
         /\ writes'[Len(writes) + 1] = w /\ \A i \in Ids : writes'[i] = writes[i]
BY IdsFacts, AppendProperties DEF Types, Ids

\* One write is put in the place of another.
LEMMA ChangeFacts ==
  ASSUME Types, NEW i \in Ids, NEW v \in Write, writes' = [writes EXCEPT ![i] = v]
  PROVE  /\ writes' \in Seq(Write) /\ Ids' = Ids
         /\ writes'[i] = v /\ \A j \in Ids \ {i} : writes'[j] = writes[j]
<1>1. writes \in Seq(Write) /\ i \in 1..Len(writes)
  BY IdsFacts DEF Types
<1>2. /\ writes' \in Seq(Write) /\ Len(writes') = Len(writes)
      /\ \A j \in 1..Len(writes) : writes'[j] = IF j = i THEN v ELSE writes[j]
  BY <1>1, ExceptSeq
<1> QED BY <1>1, <1>2, IdsFacts, LenProperties DEF Ids

\* All the writes change at once.
LEMMA AllFacts ==
  ASSUME Types, NEW f \in [Ids -> Write], writes' = f
  PROVE  writes' \in Seq(Write) /\ Ids' = Ids /\ \A j \in Ids : writes'[j] = f[j]
BY IdsFacts, SeqOfFcn DEF Ids

-----------------------------------------------------------------------------
(* What each step does to the writes. *)

\* What a step may do to the writes there: never who made them where, never back from the end.
Goes(i) ==
  /\ Same(writes'[i], writes[i])
  /\ AsMade(writes[i]) => AsMade(writes'[i])
  /\ writes[i].counted => writes'[i].counted
  /\ writes[i].state = "done" => writes'[i].state = "done"
\* ... and what most steps keep besides.
Quiet(i) ==
  /\ Goes(i) /\ writes'[i].counted = writes[i].counted
  /\ writes'[i].state = "done" => writes[i].state = "done"
  /\ writes'[i].state = "ok" => writes[i].state = "ok"
  /\ writes'[i].state = "gated" => writes[i].state = "gated"
  /\ writes'[i].state \in {"queued", "late"} => writes[i].state \in {"queued", "late"}

\* A write nobody touches is quiet.
LEMMA QuietIfSame == ASSUME NEW i, writes'[i] = writes[i] PROVE Quiet(i)
BY DEF Quiet, Goes, Same

\* The edit whose turn it is goes, or is refused here; the others stay.
LEMMA EditsTurnFacts ==
  ASSUME Types, NEW i \in Ids, EditsTurn(i)
  PROVE  writes' \in Seq(Write) /\ Ids' = Ids /\ \A j \in Ids : Quiet(j)
<1> DEFINE w == [writes[i] EXCEPT !.after = {}]
<1>1. w \in Write /\ Same(w, writes[i]) /\ w.counted = writes[i].counted /\ writes[i].state = "waiting"
  BY IdsFacts DEF Write, Same, EditsTurn
<1> HIDE DEF w
<1>2. writes' = [writes EXCEPT ![i] = Sent(w, tab)]
  BY DEF EditsTurn, w
<1>3. Quiet(i)
  BY <1>1, <1>2, SentFacts, ChangeFacts DEF Quiet, Goes, Same, AsMade
<1> QED BY <1>1, <1>2, <1>3, SentFacts, ChangeFacts, QuietIfSame

\* The limit on the answers only lets a restore stop waiting for them.
LEMMA AnswersLimitFacts ==
  ASSUME Types, NEW i \in Ids, AnswersLimit(i)
  PROVE  writes' \in Seq(Write) /\ Ids' = Ids /\ \A j \in Ids : Quiet(j)
<1> DEFINE w == [writes[i] EXCEPT !.answers = {}, !.limit = TRUE]
<1>1. w \in Write /\ Same(w, writes[i]) /\ w.counted = writes[i].counted
      /\ writes[i].state = "queued" /\ w.state = "queued"
  BY IdsFacts DEF Write, Same, AnswersLimit
<1>2. writes' = [writes EXCEPT ![i] = w]
  BY DEF AnswersLimit
<1> HIDE DEF w
<1>3. Quiet(i)
  BY <1>1, <1>2, ChangeFacts DEF Quiet, Goes, AsMade
<1> QED BY <1>1, <1>2, <1>3, ChangeFacts, QuietIfSame

\* A restore leaves its queue for the gate or the wire, and a drain then watches it.
LEMMA RestoresTurnFacts ==
  ASSUME Types, NEW i \in Ids, RestoresTurn(i)
  PROVE  /\ writes' \in Seq(Write) /\ Ids' = Ids /\ Goes(i) /\ \A j \in Ids \ {i} : Quiet(j)
         /\ writes'[i].counted = writes[i].counted
         /\ writes[i].state = "queued" /\ writes'[i].state \in {"gated", "sent", "refused"}
         /\ writes'[i].state = "gated" => gate # 0
         /\ \/ switch' = switch
            \/ switch.phase = "drain" /\ switch' = [switch EXCEPT !.watching = @ \cup {i}]
<1> DEFINE w == [writes[i] EXCEPT !.after = {}]
           g == [writes[i] EXCEPT !.state = "gated", !.after = {}]
<1>1. w \in Write /\ Same(w, writes[i]) /\ w.counted = writes[i].counted /\ w.state = writes[i].state
  BY IdsFacts DEF Write, Same
<1>2. g \in Write /\ Same(g, writes[i]) /\ g.counted = writes[i].counted /\ g.state = "gated"
  BY IdsFacts DEF Write, Same
<1>3. writes[i].state = "queued"
  BY DEF RestoresTurn
<1>4. \/ switch' = switch
      \/ switch.phase = "drain" /\ switch' = [switch EXCEPT !.watching = @ \cup {i}]
  BY DEF RestoresTurn
<1>5. CASE gate # 0 /\ gate <= i
  <2>1. writes' = [writes EXCEPT ![i] = g]
    BY <1>5 DEF RestoresTurn
  <2> HIDE DEF g
  <2>2. Goes(i)
    BY <1>2, <1>3, <2>1, ChangeFacts DEF Goes, Same, AsMade
  <2> QED BY <1>2, <1>3, <1>4, <1>5, <2>1, <2>2, ChangeFacts, QuietIfSame
<1>6. CASE ~(gate # 0 /\ gate <= i)
  <2> DEFINE v == Sent(w, tab)
  <2>1. writes' = [writes EXCEPT ![i] = v]
    BY <1>6 DEF RestoresTurn
  <2> HIDE DEF w
  <2>2. v \in Write /\ Same(v, writes[i]) /\ v.counted = writes[i].counted /\ AsMade(v)
        /\ v.state \in {"sent", "refused"}
    BY <1>1, SentFacts DEF Same
  <2> HIDE DEF v
  <2>3. /\ writes' \in Seq(Write) /\ Ids' = Ids /\ writes'[i] = v
        /\ \A j \in Ids \ {i} : writes'[j] = writes[j]
    BY <2>1, <2>2, ChangeFacts
  <2>4. Goes(i)
    BY <1>3, <2>2, <2>3 DEF Goes
  <2> QED BY <1>3, <1>4, <2>2, <2>3, <2>4, QuietIfSame
<1> QED BY <1>5, <1>6

\* The backend takes a write only under the revision and canvas it has open.
LEMMA DeliverFacts ==
  ASSUME Types, NEW i \in Ids, Deliver(i)
  PROVE  /\ writes' \in Seq(Write) /\ Ids' = Ids /\ Goes(i) /\ \A j \in Ids \ {i} : Quiet(j)
         /\ writes'[i].counted = writes[i].counted /\ writes'[i].state \in {"done", "ok", "refused"}
         /\ writes[i].state \in {"sent", "late"}
         /\ writes[i].state = "sent" => writes'[i].state \in {"ok", "refused"}
         /\ nebula' \in [rev : Nat, canvas : Nat, took : Seq([id : Nat, canvas : Nat])]
         /\ \/ /\ writes[i].header = <<nebula.rev, nebula.canvas>>
               /\ nebula'.took = Append(nebula.took, [id |-> i, canvas |-> nebula.canvas])
            \/ nebula' = nebula /\ writes'[i].state # "ok"
<1> DEFINE mine == writes[i].header = <<nebula.rev, nebula.canvas>>
           t == IF writes[i].state = "late" THEN "done" ELSE IF mine THEN "ok" ELSE "refused"
           v == [writes[i] EXCEPT !.state = t]
<1>1. writes[i] \in Write /\ i \in Nat
  BY IdsFacts
<1>2. /\ writes' = [writes EXCEPT ![i] = v] /\ writes[i].state \in {"sent", "late"}
      /\ nebula' = IF mine THEN [nebula EXCEPT !.took = Append(@, [id |-> i, canvas |-> nebula.canvas])]
                   ELSE nebula
  BY DEF Deliver
<1>3. t \in {"done", "ok", "refused"} /\ (writes[i].state = "sent" => t \in {"ok", "refused"})
      /\ (t = "ok" => mine)
  OBVIOUS
<1> HIDE DEF t, mine
<1>4. v \in Write /\ Same(v, writes[i]) /\ v.counted = writes[i].counted /\ v.state = t
  BY <1>1, <1>3 DEF Write, Same
<1> HIDE DEF v
<1>5. /\ writes' \in Seq(Write) /\ Ids' = Ids /\ writes'[i] = v
      /\ \A j \in Ids \ {i} : writes'[j] = writes[j]
  BY <1>2, <1>4, ChangeFacts
<1>6. Goes(i)
  BY <1>2, <1>3, <1>4, <1>5 DEF Goes, AsMade
<1> DEFINE e == [id |-> i, canvas |-> nebula.canvas]
           took == Append(nebula.took, e)
<1>7. nebula' \in [rev : Nat, canvas : Nat, took : Seq([id : Nat, canvas : Nat])]
      /\ (mine => nebula'.took = took) /\ (~mine => nebula' = nebula)
  <2>1. nebula \in [rev : Nat, canvas : Nat, took : Seq([id : Nat, canvas : Nat])]
    BY DEF Types
  <2>2. e \in [id : Nat, canvas : Nat]
    BY <1>1, <2>1
  <2>3. nebula' = IF mine THEN [nebula EXCEPT !.took = took] ELSE nebula
    BY <1>2
  <2> HIDE DEF e
  <2>4. took \in Seq([id : Nat, canvas : Nat])
    BY <2>1, <2>2, AppendProperties
  <2> HIDE DEF took
  <2> QED BY <2>1, <2>3, <2>4
<1> QED BY <1>2, <1>3, <1>4, <1>5, <1>6, <1>7, QuietIfSame DEF mine

\* A lost request leaves a write refused.
LEMMA FailFacts ==
  ASSUME Types, NEW i \in Ids, Fail(i)
  PROVE  writes' \in Seq(Write) /\ Ids' = Ids /\ \A j \in Ids : Quiet(j)
<1> DEFINE v == [writes[i] EXCEPT !.state = "refused"]
<1>1. writes' = [writes EXCEPT ![i] = v] /\ writes[i].state \in {"sent", "ok"}
  BY DEF Fail
<1>2. v \in Write /\ Same(v, writes[i]) /\ v.counted = writes[i].counted /\ v.state = "refused"
  BY IdsFacts DEF Write, Same
<1> HIDE DEF v
<1>3. /\ writes' \in Seq(Write) /\ Ids' = Ids /\ writes'[i] = v
      /\ \A j \in Ids \ {i} : writes'[j] = writes[j]
  BY <1>1, <1>2, ChangeFacts
<1>4. Quiet(i)
  BY <1>1, <1>2, <1>3 DEF Quiet, Goes, AsMade
<1> QED BY <1>3, <1>4, QuietIfSame

\* settleTracked settles one write, and only a drain that watches it counts it.
LEMMA SettledFacts ==
  ASSUME Types, NEW i \in Ids, NEW state \in {"done", "late"}, NEW ok \in BOOLEAN,
         writes[i].state \in OnItsWay, state = "late" => writes[i].state = "sent",
         Settled(i, state, ok)
  PROVE  /\ writes' \in Seq(Write) /\ Ids' = Ids /\ Goes(i) /\ \A j \in Ids \ {i} : Quiet(j)
         /\ writes'[i].state = state
         /\ writes'[i].counted = (writes[i].counted \/ (~ok /\ i \in switch.watching))
         /\ switch' \in [phase : Phases, watching : SUBSET Nat, cut : SUBSET Nat, rev : Nat, canvas : Nat]
         /\ switch'.phase = switch.phase /\ switch'.watching = switch.watching \ {i}
         /\ switch'.cut = IF ~ok /\ i \in switch.watching THEN switch.cut \cup {i} ELSE switch.cut
<1> DEFINE c == writes[i].counted \/ (~ok /\ i \in switch.watching)
           v == [writes[i] EXCEPT !.state = state, !.limit = @ \/ state = "late", !.counted = c]
           u(j) == [writes[j] EXCEPT !.answers = @ \ {i}]
           f == [j \in Ids |-> IF j = i THEN v ELSE u(j)]
<1>1. writes' = f
  BY DEF Settled
<1>2. c \in BOOLEAN
  BY IdsFacts DEF Write
<1>3. v \in Write /\ Same(v, writes[i]) /\ v.counted = c /\ v.state = state /\ v.header = writes[i].header
  BY <1>2, IdsFacts DEF Write, Same
<1>4. ASSUME NEW j \in Ids
      PROVE  u(j) \in Write /\ Same(u(j), writes[j]) /\ u(j).counted = writes[j].counted
             /\ u(j).state = writes[j].state /\ u(j).header = writes[j].header
  BY IdsFacts DEF Write, Same
<1> HIDE DEF v, u
<1>5. f \in [Ids -> Write]
  BY <1>3, <1>4
<1>6. /\ writes' \in Seq(Write) /\ Ids' = Ids /\ writes'[i] = v
      /\ \A j \in Ids \ {i} : writes'[j] = u(j)
  BY <1>1, <1>5, AllFacts
<1>7. Goes(i)
  BY <1>3, <1>6 DEF Goes, AsMade, Same, OnItsWay
<1>8. \A j \in Ids \ {i} : Quiet(j)
  BY <1>4, <1>6 DEF Quiet, Goes, AsMade, Same
<1>9. /\ switch' \in [phase : Phases, watching : SUBSET Nat, cut : SUBSET Nat, rev : Nat, canvas : Nat]
      /\ switch'.phase = switch.phase /\ switch'.watching = switch.watching \ {i}
      /\ switch'.cut = IF ~ok /\ i \in switch.watching THEN switch.cut \cup {i} ELSE switch.cut
  BY IdsFacts DEF Settled, Types
<1> QED BY <1>3, <1>6, <1>7, <1>8, <1>9

\* openWriteGate leaves none at the gate, and settles none.
LEMMA GateOpensFacts ==
  ASSUME Types, NEW t, GateOpens(t)
  PROVE  /\ gate' = 0 /\ writes' \in Seq(Write) /\ Ids' = Ids
         /\ \A j \in Ids : Quiet(j) /\ writes'[j].state # "gated"
<1> DEFINE held(i)  == writes[i].state = "gated"
           here(i)  == writes[i].graph = t.graph
           ahead(i) == {j \in Ids : here(j) /\ (Pressed(j) \/ writes[j].state = "waiting"
                                                \/ (held(j) /\ IsEdit(j) /\ j < i))}
           behind(i) == {j \in Ids : here(j) /\ (Pressed(j) \/ writes[j].state = "waiting")}
           atOnce(i) == IsRestore(i) \/ ~StillAdmitted(writes[i], t) \/ behind(i) = {}
           s(i) == Sent(writes[i], t)
           b(i) == [writes[i] EXCEPT !.state = "waiting", !.after = ahead(i)]
           f == [i \in Ids |-> IF ~held(i) THEN writes[i] ELSE IF atOnce(i) THEN s(i) ELSE b(i)]
<1>1. writes' = f /\ gate' = 0
  BY DEF GateOpens
<1>2. ASSUME NEW i \in Ids
      PROVE  /\ b(i) \in Write /\ Same(b(i), writes[i]) /\ b(i).counted = writes[i].counted
             /\ b(i).state = "waiting"
  <2>1. ahead(i) \in SUBSET Nat /\ writes[i] \in Write
    BY IdsFacts
  <2> HIDE DEF ahead
  <2> QED BY <2>1 DEF Write, Same
<1>3. ASSUME NEW i \in Ids
      PROVE  /\ s(i) \in Write /\ Same(s(i), writes[i]) /\ s(i).counted = writes[i].counted
             /\ s(i).state \in {"sent", "refused"} /\ AsMade(s(i))
  BY IdsFacts, SentFacts
<1> HIDE DEF s, b, atOnce
<1>4. f \in [Ids -> Write]
  BY <1>2, <1>3, IdsFacts
<1>5. /\ writes' \in Seq(Write) /\ Ids' = Ids
      /\ \A j \in Ids : writes'[j] = IF ~held(j) THEN writes[j] ELSE IF atOnce(j) THEN s(j) ELSE b(j)
  BY <1>1, <1>4, AllFacts
<1>6. ASSUME NEW i \in Ids PROVE Quiet(i) /\ writes'[i].state # "gated"
  <2>1. CASE ~held(i)
    BY <1>5, <2>1, QuietIfSame
  <2>2. CASE held(i) /\ atOnce(i)
    BY <1>3, <1>5, <2>2 DEF Quiet, Goes, AsMade
  <2>3. CASE held(i) /\ ~atOnce(i)
    BY <1>2, <1>5, <2>3 DEF Quiet, Goes, AsMade
  <2> QED BY <2>1, <2>2, <2>3
<1> QED BY <1>1, <1>5, <1>6

\* The drain's limit counts what it watches, and settles none.
LEMMA DrainLimitFacts ==
  ASSUME Types, DrainLimit
  PROVE  /\ writes' \in Seq(Write) /\ Ids' = Ids
         /\ \A j \in Ids : /\ Goes(j) /\ writes'[j].state = writes[j].state
                           /\ writes'[j].counted = (writes[j].counted \/ j \in switch.watching)
<1> DEFINE c(i) == writes[i].counted \/ i \in switch.watching
           v(i) == [writes[i] EXCEPT !.counted = c(i)]
           f == [i \in Ids |-> v(i)]
<1>1. writes' = f
  BY DEF DrainLimit
<1>2. ASSUME NEW i \in Ids
      PROVE  /\ v(i) \in Write /\ Same(v(i), writes[i]) /\ v(i).counted = c(i)
             /\ v(i).state = writes[i].state /\ v(i).header = writes[i].header
  BY IdsFacts DEF Write, Same
<1> HIDE DEF v
<1>3. f \in [Ids -> Write]
  BY <1>2
<1>4. writes' \in Seq(Write) /\ Ids' = Ids /\ \A j \in Ids : writes'[j] = v(j)
  BY <1>1, <1>3, AllFacts
<1> QED BY <1>2, <1>4 DEF Goes, AsMade, Same

-----------------------------------------------------------------------------
(* Types. *)

\* The state typed at the start.
LEMMA InitTyped == Init => Types
BY EmptySeq, CanvasWritesAssumption DEF Init, Types, NoSwitch, Phases

\* A replacement leaves what Nebula took as it is.
LEMMA ReplacesTyped ==
  ASSUME Types, NEW rev \in Nat, Replaces(rev)
  PROVE  /\ nebula' \in [rev : Nat, canvas : Nat, took : Seq([id : Nat, canvas : Nat])]
         /\ notices' \in Seq([from : Nat, rev : Nat, canvas : Nat]) /\ nebula'.took = nebula.took
<1> DEFINE c == nebula.canvas + 1
<1>1. nebula' \in [rev : Nat, canvas : Nat, took : Seq([id : Nat, canvas : Nat])] /\ nebula'.took = nebula.took
  <2>1. nebula' = [nebula EXCEPT !.rev = rev, !.canvas = c]
    BY DEF Replaces
  <2>2. c \in Nat /\ nebula \in [rev : Nat, canvas : Nat, took : Seq([id : Nat, canvas : Nat])]
    BY DEF Types
  <2> HIDE DEF c
  <2> QED BY <2>1, <2>2
<1> DEFINE n == [from |-> nebula.rev, rev |-> rev, canvas |-> nebula'.canvas]
<1>2. n \in [from : Nat, rev : Nat, canvas : Nat]
  BY <1>1 DEF Types
<1>3. notices' = Append(notices, n)
  BY DEF Replaces
<1> HIDE DEF n
<1> QED BY <1>1, <1>2, <1>3, AppendProperties DEF Types

\* What every step does to the writes, and that only the backend's fence takes one.
WritesGo ==
  /\ writes' \in Seq(Write) /\ Ids \subseteq Ids'
  /\ \A i \in Ids : Goes(i)
  /\ \A i \in Ids' \ Ids : AsMade(writes'[i])

\* A step that leaves the writes alone keeps them quiet.
LEMMA SameWrites ==
  ASSUME Types, writes' = writes
  PROVE  WritesGo /\ Ids' = Ids /\ \A i \in Ids : Quiet(i)
BY QuietIfSame DEF WritesGo, Types, Ids, Quiet

\* A graphSync changes no write, and nothing of Nebula's.
LEMMA ReceiveTyped ==
  ASSUME Types, ReceiveSync
  PROVE  Types' /\ WritesGo /\ nebula' = nebula
<1> DEFINE s == Head(notices)
<1>1. s \in [from : Nat, rev : Nat, canvas : Nat] /\ notices' \in Seq([from : Nat, rev : Nat, canvas : Nat])
  BY HeadTailProperties DEF ReceiveSync, Types
<1>2. writes' = writes /\ nebula' = nebula /\ bounds' = bounds
      /\ (CanvasReplaced(s) \/ AgentSwitched(s) \/ WorkspaceMoved(s) \/ NotForThisTab(s))
  BY DEF ReceiveSync
<1>3. WritesGo
  BY <1>2, SameWrites
<1> HIDE DEF s
<1>4. CASE CanvasReplaced(s)
  <2> DEFINE g == tab.graph + 1
  <2>1. tab' = [tab EXCEPT !.canvas = s.canvas, !.graph = g] /\ report' = [graph |-> tab'.graph, says |-> TRUE]
    BY <1>4 DEF CanvasReplaced
  <2>2. g \in Nat /\ tab \in [rev : Nat, canvas : Nat, graph : Nat]
    BY DEF Types
  <2> HIDE DEF g
  <2>3. tab' \in [rev : Nat, canvas : Nat, graph : Nat]
    BY <1>1, <2>1, <2>2
  <2>4. report' \in [graph : Nat, says : BOOLEAN]
    BY <2>1, <2>3
  <2> QED BY <1>1, <1>2, <1>3, <1>4, <2>3, <2>4 DEF CanvasReplaced, Types, WritesGo, past
<1>5. CASE AgentSwitched(s)
  <2>1. Live \subseteq Nat
    BY IdsFacts DEF Live
  <2>2. handed' \in SUBSET Nat /\ passed' \in SUBSET Nat
    BY <1>5, <2>1 DEF AgentSwitched, Types
  <2>3. switch' \in [phase : Phases, watching : SUBSET Nat, cut : SUBSET Nat, rev : Nat, canvas : Nat]
    BY <1>5 DEF AgentSwitched, NoSwitch, Phases
  <2>4. tab' \in [rev : Nat, canvas : Nat, graph : Nat]
    BY <1>5 DEF AgentSwitched, Types
  <2>5. gate' \in Nat
    BY <1>5, IdsFacts DEF AgentSwitched
  <2> QED BY <1>1, <1>2, <1>3, <1>5, <2>2, <2>3, <2>4, <2>5 DEF AgentSwitched, Types, WritesGo
<1>6. CASE WorkspaceMoved(s)
  <2>1. switch' \in [phase : Phases, watching : SUBSET Nat, cut : SUBSET Nat, rev : Nat, canvas : Nat]
    BY <1>6 DEF WorkspaceMoved, Types, Phases
  <2> QED BY <1>1, <1>2, <1>3, <1>6, <2>1 DEF WorkspaceMoved, Types, WritesGo, past
<1>7. CASE NotForThisTab(s)
  BY <1>1, <1>2, <1>3, <1>7 DEF NotForThisTab, Types, WritesGo, past
<1> QED BY <1>2, <1>3, <1>4, <1>5, <1>6, <1>7

\* A step of a write's own.
Steps(i) == Turn(i) \/ AnswersLimit(i) \/ RestoreTimesOut(i) \/ Deliver(i) \/ Fail(i) \/ Answered(i)

\* A step of one write keeps the types, and only a delivery reaches Nebula.
LEMMA StepTyped ==
  ASSUME Types, NEW i \in Ids, Steps(i)
  PROVE  Types' /\ WritesGo /\ (nebula' = nebula \/ Deliver(i))
<1>1. i \in Nat
  BY IdsFacts
<1>2. CASE EditsTurn(i)
  <2>1. writes' \in Seq(Write) /\ Ids' = Ids /\ \A j \in Ids : Goes(j)
    BY <1>2, EditsTurnFacts DEF Quiet
  <2> QED BY <1>2, <2>1 DEF EditsTurn, Types, WritesGo, past
<1>3. CASE RestoresTurn(i)
  <2>1. /\ writes' \in Seq(Write) /\ Ids' = Ids /\ \A j \in Ids : Goes(j)
        /\ switch' = switch \/ switch' = [switch EXCEPT !.watching = @ \cup {i}]
    BY <1>3, RestoresTurnFacts DEF Quiet
  <2>2. switch' \in [phase : Phases, watching : SUBSET Nat, cut : SUBSET Nat, rev : Nat, canvas : Nat]
    <3> DEFINE x == switch.watching \cup {i}
    <3>1. x \in SUBSET Nat /\ (switch' = switch \/ switch' = [switch EXCEPT !.watching = x])
          /\ switch \in [phase : Phases, watching : SUBSET Nat, cut : SUBSET Nat, rev : Nat, canvas : Nat]
      BY <1>1, <2>1 DEF Types
    <3> HIDE DEF x
    <3> QED BY <3>1
  <2> QED BY <1>3, <2>1, <2>2 DEF RestoresTurn, Types, WritesGo, past
<1>4. CASE AnswersLimit(i)
  <2>1. writes' \in Seq(Write) /\ Ids' = Ids /\ \A j \in Ids : Goes(j)
    BY <1>4, AnswersLimitFacts DEF Quiet
  <2> QED BY <1>4, <2>1 DEF AnswersLimit, Types, WritesGo, past
<1>5. CASE RestoreTimesOut(i)
  <2>1. PICK state \in {"done", "late"} :
          Settled(i, state, FALSE) /\ (state = "late" => writes[i].state = "sent")
    BY <1>5 DEF RestoreTimesOut
  <2>2. writes[i].state \in OnItsWay
    BY <1>5 DEF RestoreTimesOut
  <2>3. /\ writes' \in Seq(Write) /\ Ids' = Ids /\ \A j \in Ids : Goes(j)
        /\ switch' \in [phase : Phases, watching : SUBSET Nat, cut : SUBSET Nat, rev : Nat, canvas : Nat]
    BY <2>1, <2>2, SettledFacts DEF Quiet
  <2> QED BY <1>5, <2>3 DEF RestoreTimesOut, Types, WritesGo, past
<1>6. CASE Deliver(i)
  <2>1. /\ writes' \in Seq(Write) /\ Ids' = Ids /\ \A j \in Ids : Goes(j)
        /\ nebula' \in [rev : Nat, canvas : Nat, took : Seq([id : Nat, canvas : Nat])]
    BY <1>6, DeliverFacts DEF Quiet
  <2> QED BY <1>6, <2>1 DEF Deliver, Types, WritesGo, past
<1>7. CASE Fail(i)
  <2>1. writes' \in Seq(Write) /\ Ids' = Ids /\ \A j \in Ids : Goes(j)
    BY <1>7, FailFacts DEF Quiet
  <2> QED BY <1>7, <2>1 DEF Fail, Types, WritesGo, past
<1>8. CASE Answered(i)
  <2>1. /\ writes[i].state \in OnItsWay /\ Settled(i, "done", writes[i].state = "ok")
        /\ told' \subseteq told \cup {i} /\ handed' = handed /\ passed' = passed
        /\ UNCHANGED <<nebula, notices, tab, gate, report, bounds>>
    BY <1>8 DEF Answered, OnItsWay
  <2>2. /\ writes' \in Seq(Write) /\ Ids' = Ids /\ \A j \in Ids : Goes(j)
        /\ switch' \in [phase : Phases, watching : SUBSET Nat, cut : SUBSET Nat, rev : Nat, canvas : Nat]
    BY <2>1, SettledFacts DEF Quiet
  <2> QED BY <1>1, <2>1, <2>2 DEF Types, WritesGo
<1> QED BY <1>2, <1>3, <1>4, <1>5, <1>6, <1>7, <1>8 DEF Steps, Turn

\* So does a step of the person, a switch or an agent.
LEMMA OthersTyped ==
  ASSUME Types,
         Edit \/ Undo \/ PersonSwitches \/ Drained \/ DrainLimit \/ NebulaOpens \/ SwitchFails
         \/ PersonSwitched \/ AgentReplaces \/ Followed \/ FollowFails
  PROVE  Types' /\ WritesGo /\ nebula'.took = nebula.took
<1>1. CASE Edit
  <2>1. PICK w \in Write : writes' = Append(writes, w) /\ AsMade(w)
    BY <1>1, EditTyped
  <2>2. WritesGo
    BY <2>1, AppendFacts, QuietIfSame DEF WritesGo, Quiet
  <2> QED BY <1>1, <2>2 DEF Edit, Types, WritesGo, past
<1>2. CASE Undo
  <2>1. PICK w \in Write : writes' = Append(writes, w) /\ AsMade(w)
    BY <1>2, UndoTyped DEF AsMade
  <2>2. WritesGo
    BY <2>1, AppendFacts, QuietIfSame DEF WritesGo, Quiet
  <2> QED BY <1>2, <2>2 DEF Undo, Types, WritesGo, past
<1>3. CASE PersonSwitches
  <2>1. switch' \in [phase : Phases, watching : SUBSET Nat, cut : SUBSET Nat, rev : Nat, canvas : Nat]
    BY <1>3, IdsFacts DEF PersonSwitches, NoSwitch, Phases, Live
  <2>2. gate' \in Nat /\ WritesGo
    BY <1>3, IdsFacts, SameWrites DEF PersonSwitches
  <2> QED BY <1>3, <2>1, <2>2 DEF PersonSwitches, Types, WritesGo, past
<1>4. CASE Drained
  BY <1>4, SameWrites DEF Drained, Types, Phases, past
<1>5. CASE DrainLimit
  <2>1. WritesGo
    BY <1>5, DrainLimitFacts DEF WritesGo
  <2> QED BY <1>5, <2>1 DEF DrainLimit, Types, WritesGo, Phases, past
<1>6. CASE NebulaOpens
  <2>1. nebula.rev + 1 \in Nat
    BY DEF Types
  <2>2. /\ nebula' \in [rev : Nat, canvas : Nat, took : Seq([id : Nat, canvas : Nat])]
        /\ notices' \in Seq([from : Nat, rev : Nat, canvas : Nat]) /\ nebula'.took = nebula.took
    BY <1>6, <2>1, ReplacesTyped DEF NebulaOpens
  <2> QED BY <1>6, <2>2, SameWrites DEF NebulaOpens, Types, Phases, past
<1>7. CASE SwitchFails
  <2>1. gate' = 0 /\ WritesGo
    BY <1>7, GateOpensFacts DEF SwitchFails, WritesGo, Quiet
  <2> QED BY <1>7, <2>1 DEF SwitchFails, Types, WritesGo, NoSwitch, Phases
<1>8. CASE PersonSwitched
  <2>1. gate' = 0 /\ WritesGo
    BY <1>8, GateOpensFacts DEF PersonSwitched, WritesGo, Quiet
  <2> DEFINE g == tab.graph + 1
  <2>2. g \in Nat /\ tab' = [rev |-> switch.rev, canvas |-> switch.canvas, graph |-> g]
    BY <1>8 DEF PersonSwitched, Types
  <2>3. tab' \in [rev : Nat, canvas : Nat, graph : Nat]
    BY <2>2 DEF Types
  <2> QED BY <1>8, <2>1, <2>3 DEF PersonSwitched, Types, WritesGo, NoSwitch, Phases
<1>9. CASE AgentReplaces
  <2>1. nebula.rev + 1 \in Nat /\ nebula.rev \in Nat
    BY DEF Types
  <2>2. /\ nebula' \in [rev : Nat, canvas : Nat, took : Seq([id : Nat, canvas : Nat])]
        /\ notices' \in Seq([from : Nat, rev : Nat, canvas : Nat]) /\ nebula'.took = nebula.took
    BY <1>9, <2>1, ReplacesTyped DEF AgentReplaces
  <2> QED BY <1>9, <2>2, SameWrites DEF AgentReplaces, Types, past
<1>10. CASE Followed
  <2>1. gate' = 0 /\ WritesGo
    BY <1>10, GateOpensFacts DEF Followed, WritesGo, Quiet
  <2> QED BY <1>10, <2>1 DEF Followed, Types, WritesGo, NoSwitch, Phases, past
<1>11. CASE FollowFails
  <2>1. gate' = 0 /\ WritesGo
    BY <1>11, GateOpensFacts DEF FollowFails, WritesGo, Quiet
  <2> QED BY <1>11, <2>1 DEF FollowFails, Types, WritesGo, NoSwitch, Phases, past
<1> QED BY <1>1, <1>2, <1>3, <1>4, <1>5, <1>6, <1>7, <1>8, <1>9, <1>10, <1>11

\* Every step keeps the types, and only a delivery adds to what Nebula took.
LEMMA NextTyped ==
  ASSUME Types, Next
  PROVE  Types' /\ WritesGo /\ (nebula'.took = nebula.took \/ \E i \in Ids : Deliver(i))
<1>1. CASE \E i \in Ids : Steps(i)
  BY <1>1, StepTyped
<1>2. CASE ReceiveSync
  BY <1>2, ReceiveTyped
<1>3. CASE ~(\E i \in Ids : Steps(i)) /\ ~ReceiveSync
  BY <1>3, OthersTyped DEF Next, Steps
<1> QED BY <1>1, <1>2, <1>3

-----------------------------------------------------------------------------
(* The fence. *)

\* Whatever is on its way says where it was made, and what Nebula took was made there.
Fenced ==
  /\ \A i \in Ids : AsMade(writes[i])
  /\ TookIds \subseteq Ids
  /\ NoWriteAstray

\* Fenced is kept: a delivery needs the header, and the header is the write's own.
LEMMA FencedStep ==
  ASSUME Types, Types', Fenced, WritesGo, nebula'.took = nebula.took \/ \E i \in Ids : Deliver(i)
  PROVE  Fenced'
<1>1. \A i \in Ids' : AsMade(writes'[i])
  BY DEF Fenced, WritesGo, Goes
<1>2. \A n \in DOMAIN nebula.took : nebula.took[n].id \in Ids
  BY DEF Fenced, TookIds
<1>3. \A n \in DOMAIN nebula.took : nebula.took[n].canvas = writes'[nebula.took[n].id].canvas
  BY <1>2 DEF Fenced, NoWriteAstray, WritesGo, Goes, Same
<1>4. CASE nebula'.took = nebula.took
  BY <1>1, <1>2, <1>3, <1>4 DEF Fenced, TookIds, NoWriteAstray, WritesGo
<1>5. ASSUME NEW i \in Ids, Deliver(i), nebula'.took # nebula.took PROVE Fenced'
  <2> DEFINE e == [id |-> i, canvas |-> nebula.canvas]
  <2>1. /\ writes[i].header = <<nebula.rev, nebula.canvas>> /\ writes[i].state \in {"sent", "late"}
        /\ nebula'.took = Append(nebula.took, e)
    BY <1>5, DeliverFacts
  <2>2. nebula.canvas = writes'[i].canvas
    BY <2>1 DEF Fenced, AsMade, WritesGo, Goes, Same
  <2>3. e.id = i /\ e.canvas = nebula.canvas /\ e \in [id : Nat, canvas : Nat]
    BY IdsFacts DEF Types
  <2> HIDE DEF e
  <2>4. /\ DOMAIN nebula'.took = (DOMAIN nebula.took) \cup {Len(nebula.took) + 1}
        /\ nebula'.took[Len(nebula.took) + 1] = e
        /\ \A n \in DOMAIN nebula.took : nebula'.took[n] = nebula.took[n]
    <3>1. nebula.took \in Seq([id : Nat, canvas : Nat])
      BY DEF Types
    <3> QED BY <2>1, <2>3, <3>1, AppendProperties, LenProperties
  <2>5. \A n \in DOMAIN nebula'.took :
          nebula'.took[n].id \in Ids /\ nebula'.took[n].canvas = writes'[nebula'.took[n].id].canvas
    BY <1>2, <1>3, <2>2, <2>3, <2>4
  <2> QED BY <1>1, <2>5 DEF Fenced, TookIds, NoWriteAstray, WritesGo
<1> QED BY <1>4, <1>5

\* It holds at the start, when there are no writes.
LEMMA InitFenced == Init => Types /\ Fenced
<1>1. Init => writes = <<>> /\ nebula.took = <<>>
  BY DEF Init
<1>2. DOMAIN <<>> = {}
  OBVIOUS
<1> QED BY <1>1, <1>2, InitTyped DEF Fenced, TookIds, NoWriteAstray, Ids

\* Every step keeps it.
LEMMA FencedNext ==
  ASSUME Types, Fenced, [Next]_vars
  PROVE  Types' /\ Fenced'
<1>1. CASE Next
  BY <1>1, NextTyped, FencedStep
<1>2. CASE UNCHANGED vars
  BY <1>2 DEF vars, past, Types, Fenced, AsMade, TookIds, NoWriteAstray, Ids
<1> QED BY <1>1, <1>2

\* Whatever a write waited behind, and whatever replaced the canvas meanwhile, it never
\* lands on a canvas other than the one the person made it on (admitWrite, send and
\* openWriteGate of graphStore.ts; the backend's _check_workspace_revision).
THEOREM NoWriteAstrayAlways == Spec => []NoWriteAstray
<1>1. Types /\ Fenced => NoWriteAstray
  BY DEF Fenced
<1> QED BY InitFenced, FencedNext, <1>1, PTL DEF Spec

-----------------------------------------------------------------------------
(* What was lost is named. *)

Kept(i) == i \in told \cup handed \cup passed \cup switch.cut
GivenUp(i) == writes[i].state = "done" \/ i \in handed \cup passed

\* An edit of a canvas replaced since still has a line to be added to, or a drain counted
\* it; one an agent's switch found on its way is in the handoff.
Named(i) ==
  /\ IsEdit(i) => writes[i].state \notin {"queued", "late"}
  /\ writes[i].state = "gated" => gate # 0
  /\ writes[i].state = "ok" => i \in TookIds
  /\ writes[i].counted => Kept(i)
  /\ (IsEdit(i) /\ writes[i].state # "done" /\ ~Here(i) /\ ~writes[i].counted)
     => report.says \/ i \in handed \cup passed
  /\ (IsEdit(i) /\ writes[i].state = "done" /\ i \notin TookIds) => Kept(i)
  /\ (switch.phase = "follow" /\ IsEdit(i)) => GivenUp(i)

Accounted ==
  /\ report.graph = tab.graph
  /\ switch.phase = "none" => gate = 0
  /\ switch.phase \notin {"drain", "asking", "opened"} => switch.cut = {} /\ switch.watching = {}
  /\ switch.phase = "follow" => tab.rev = 0
  /\ \A i \in Ids : Named(i)

\* A write that is only moved on stays named, given what the step does to the lines.
LEMMA NamedQuiet ==
  ASSUME NEW i \in Ids, Named(i), Quiet(i), Kept(i) => Kept(i)', TookIds \subseteq TookIds',
         handed \cup passed \subseteq handed' \cup passed',
         (IsEdit(i) => GivenUp(i)) \/ (tab'.graph = tab.graph /\ report' = report) \/ report'.says,
         writes'[i].state = "gated" => gate' # 0,
         (switch'.phase = "follow" /\ IsEdit(i)) => GivenUp(i)'
  PROVE  Named(i)'
<1>1. /\ writes'[i].kind = writes[i].kind /\ writes'[i].graph = writes[i].graph
      /\ writes'[i].counted = writes[i].counted
      /\ (writes'[i].state = "done") = (writes[i].state = "done")
      /\ writes'[i].state = "ok" => writes[i].state = "ok"
      /\ writes'[i].state \in {"queued", "late"} => writes[i].state \in {"queued", "late"}
  BY DEF Quiet, Goes, Same
<1> QED BY <1>1 DEF Named, IsEdit, Here, GivenUp

\* It holds at the start, when there are no writes.
LEMMA InitAccounted == Init => Accounted
<1>1. ASSUME Init PROVE Ids = {}
  <2>1. writes = <<>>
    BY <1>1 DEF Init
  <2>2. DOMAIN <<>> = {}
    OBVIOUS
  <2> QED BY <2>1, <2>2 DEF Ids
<1> QED BY <1>1 DEF Init, Accounted, NoSwitch

\* The next steps change none of the writes that are there, or only move them on.
LEMMA AccountedTab ==
  ASSUME Types, Accounted,
         Edit \/ Undo \/ PersonSwitches \/ Drained \/ DrainLimit \/ NebulaOpens \/ AgentReplaces
  PROVE  Accounted'
<1>1. ASSUME NEW w \in Write, writes' = Append(writes, w), ~w.counted, w.graph = tab.graph,
             w.kind = "edit" => w.state \notin {"queued", "late"}, w.state = "gated" => gate # 0,
             w.state \notin {"ok", "done"}, switch.phase # "follow",
             UNCHANGED <<nebula, notices, tab, gate, switch, report, past, bounds>>
      PROVE  Accounted'
  <2>1. PICK n \in Nat : Ids' = Ids \cup {n} /\ writes'[n] = w /\ \A i \in Ids : writes'[i] = writes[i]
    BY <1>1, AppendFacts
  <2>2. Named(n)'
    BY <1>1, <2>1 DEF Named, IsEdit, Here
  <2>3. ASSUME NEW i \in Ids PROVE Named(i)'
    BY <1>1, <2>1, <2>3 DEF Accounted, Named, IsEdit, Here, Kept, GivenUp, TookIds, past
  <2> QED BY <1>1, <2>1, <2>2, <2>3 DEF Accounted, past
<1>2. CASE Edit
  <2>1. PICK w \in Write : /\ writes' = Append(writes, w) /\ w.kind = "edit" /\ ~w.counted
                           /\ w.graph = tab.graph
                           /\ w.state \in {"gated", "sent", "refused", "waiting"}
                           /\ (w.state = "gated" => gate # 0) /\ AsMade(w)
    BY <1>2, EditTyped
  <2>2. switch.phase # "follow" /\ UNCHANGED <<nebula, notices, tab, gate, switch, report, past, bounds>>
    BY <1>2 DEF Edit, Acts, Accounted
  <2> QED BY <1>1, <2>1, <2>2
<1>3. CASE Undo
  <2>1. PICK w \in Write : /\ writes' = Append(writes, w) /\ w.kind = "restore" /\ ~w.counted
                           /\ w.graph = tab.graph /\ w.state = "queued"
    BY <1>3, UndoTyped
  <2>2. switch.phase # "follow" /\ UNCHANGED <<nebula, notices, tab, gate, switch, report, past, bounds>>
    BY <1>3 DEF Undo, Acts, Accounted
  <2> QED BY <1>1, <2>1, <2>2
<1>4. CASE PersonSwitches
  <2>1. /\ writes' = writes /\ gate' # 0 /\ switch.phase = "none" /\ switch'.phase = "drain" /\ switch'.cut = {}
        /\ UNCHANGED <<nebula, notices, tab, report, past>>
    BY <1>4, IdsFacts DEF PersonSwitches, NoSwitch
  <2>2. ASSUME NEW i \in Ids PROVE Named(i)'
    BY <2>1, SameWrites, NamedQuiet DEF Accounted, Kept, TookIds, past
  <2> QED BY <2>1, <2>2, SameWrites DEF Accounted, past
<1>5. CASE Drained
  <2>1. /\ writes' = writes /\ switch.phase = "drain" /\ switch'.phase = "asking" /\ switch'.cut = switch.cut
        /\ UNCHANGED <<nebula, notices, tab, gate, report, past>>
    BY <1>5 DEF Drained, Types
  <2>2. ASSUME NEW i \in Ids PROVE Named(i)'
    BY <2>1, SameWrites, NamedQuiet DEF Accounted, Kept, Named, TookIds, past
  <2> QED BY <2>1, <2>2, SameWrites DEF Accounted, past
<1>6. CASE DrainLimit
  <2>1. /\ switch.phase = "drain" /\ switch'.phase = "asking" /\ switch'.cut = switch.cut \cup switch.watching
        /\ UNCHANGED <<nebula, notices, tab, gate, report, past>>
    BY <1>6 DEF DrainLimit, Types
  <2>2. /\ Ids' = Ids
        /\ \A i \in Ids : /\ writes'[i].kind = writes[i].kind /\ writes'[i].graph = writes[i].graph
                          /\ writes'[i].state = writes[i].state
                          /\ writes[i].counted => writes'[i].counted
                          /\ writes'[i].counted => writes[i].counted \/ i \in switch'.cut
    BY <1>6, <2>1, DrainLimitFacts DEF Goes, Same
  <2>3. ASSUME NEW i \in Ids PROVE Named(i)'
    BY <2>1, <2>2 DEF Accounted, Named, IsEdit, Here, Kept, GivenUp, TookIds, past
  <2> QED BY <2>1, <2>2, <2>3 DEF Accounted, past
<1>7. CASE NebulaOpens
  <2>1. /\ writes' = writes /\ switch.phase = "asking" /\ switch'.phase = "opened" /\ switch'.cut = switch.cut
        /\ nebula'.took = nebula.took /\ UNCHANGED <<tab, gate, report, past>>
    BY <1>7 DEF NebulaOpens, Replaces, Types
  <2>2. ASSUME NEW i \in Ids PROVE Named(i)'
    BY <2>1, SameWrites, NamedQuiet DEF Accounted, Kept, Named, TookIds, past
  <2> QED BY <2>1, <2>2, SameWrites DEF Accounted, past
<1>8. CASE AgentReplaces
  <2>1. writes' = writes /\ nebula'.took = nebula.took /\ UNCHANGED <<tab, gate, switch, report, past>>
    BY <1>8 DEF AgentReplaces, Replaces, Types
  <2>2. ASSUME NEW i \in Ids PROVE Named(i)'
    BY <2>1, SameWrites, NamedQuiet DEF Accounted, Kept, Named, GivenUp, TookIds, past
  <2> QED BY <2>1, <2>2, SameWrites DEF Accounted, past
<1> QED BY <1>2, <1>3, <1>4, <1>5, <1>6, <1>7, <1>8

\* The gate opens, on this canvas or another.
LEMMA AccountedOpens ==
  ASSUME Types, Accounted, SwitchFails \/ PersonSwitched \/ Followed \/ FollowFails
  PROVE  Accounted'
<1>1. /\ gate' = 0 /\ Ids' = Ids /\ \A j \in Ids : Quiet(j) /\ writes'[j].state # "gated"
  BY GateOpensFacts DEF SwitchFails, PersonSwitched, Followed, FollowFails
<1>2. nebula' = nebula /\ switch'.phase \in {"none", "home"} /\ switch'.cut = {} /\ switch'.watching = {}
  BY DEF SwitchFails, PersonSwitched, Followed, FollowFails, NoSwitch
<1>3. told \subseteq told' /\ handed \subseteq handed' /\ passed \subseteq passed'
      /\ switch.cut \subseteq told' \cup passed'
  BY DEF SwitchFails, PersonSwitched, Followed, FollowFails, past, Accounted
<1>4. report'.graph = tab'.graph
      /\ (switch.phase = "follow" \/ (tab' = tab /\ report' = report) \/ report'.says)
  BY DEF SwitchFails, PersonSwitched, Followed, FollowFails, Accounted, past
<1>5. ASSUME NEW i \in Ids PROVE Named(i)'
  <2>1. (IsEdit(i) => GivenUp(i)) \/ (tab'.graph = tab.graph /\ report' = report) \/ report'.says
    BY <1>4 DEF Accounted, Named
  <2>2. Kept(i) => Kept(i)'
    BY <1>3 DEF Kept
  <2>3. Named(i) /\ TookIds \subseteq TookIds' /\ handed \cup passed \subseteq handed' \cup passed'
    BY <1>2, <1>3 DEF Accounted, TookIds
  <2> QED BY <1>1, <1>2, <2>1, <2>2, <2>3, NamedQuiet
<1> QED BY <1>1, <1>2, <1>4, <1>5 DEF Accounted

\* The canvas is replaced under the tab, by an agent: its line is fresh, or the edits out
\* are handed over.
LEMMA AccountedSync ==
  ASSUME Types, Accounted, ReceiveSync
  PROVE  Accounted'
<1> DEFINE s == Head(notices)
<1>1. writes' = writes /\ nebula' = nebula
      /\ (CanvasReplaced(s) \/ AgentSwitched(s) \/ WorkspaceMoved(s) \/ NotForThisTab(s))
  BY DEF ReceiveSync
<1> HIDE DEF s
<1>2. Ids' = Ids /\ TookIds' = TookIds /\ \A i \in Ids : Quiet(i) /\ writes'[i] = writes[i]
  BY <1>1, SameWrites DEF TookIds
<1>3. CASE CanvasReplaced(s)
  <2>1. report' = [graph |-> tab'.graph, says |-> TRUE] /\ tab'.rev = tab.rev
        /\ UNCHANGED <<gate, switch, told, handed, passed>>
    BY <1>3 DEF CanvasReplaced, past, Types
  <2>2. ASSUME NEW i \in Ids PROVE Named(i)'
    BY <1>2, <2>1, NamedQuiet DEF Accounted, Kept, Named, GivenUp
  <2> QED BY <1>2, <2>1, <2>2 DEF Accounted
<1>4. CASE AgentSwitched(s)
  <2>1. /\ switch.phase = "none" /\ gate' # 0 /\ switch'.phase = "follow"
        /\ switch'.cut = {} /\ switch'.watching = {}
        /\ tab'.rev = 0 /\ tab'.graph = tab.graph /\ report' = report /\ told' = told
        /\ handed \subseteq handed' /\ passed \subseteq passed'
        /\ \A i \in Live : IsEdit(i) => i \in handed' \cup passed'
    BY <1>4, IdsFacts DEF AgentSwitched, NoSwitch, Types
  <2>2. ASSUME NEW i \in Ids PROVE Named(i)'
    <3>1. IsEdit(i) => writes[i].state = "done" \/ i \in Live
      <4>1. writes[i].state # "gated"
        BY <2>1 DEF Accounted, Named
      <4>2. writes[i].state \in {"waiting", "queued", "gated", "sent", "ok", "refused", "late", "done"}
        BY IdsFacts DEF Write
      <4> QED BY <4>1, <4>2 DEF Accounted, Named, Live, OnItsWay
    <3>2. IsEdit(i) => GivenUp(i)'
      BY <1>2, <2>1, <3>1 DEF GivenUp
    <3> QED BY <1>2, <2>1, <3>2, NamedQuiet DEF Accounted, Kept
  <2> QED BY <1>2, <2>1, <2>2 DEF Accounted
<1>5. CASE WorkspaceMoved(s)
  <2>1. /\ switch.phase = "none" /\ switch'.phase = "home"
        /\ switch'.cut = switch.cut /\ switch'.watching = switch.watching
        /\ UNCHANGED <<tab, gate, report, told, handed, passed>>
    BY <1>5 DEF WorkspaceMoved, past, Types
  <2>2. ASSUME NEW i \in Ids PROVE Named(i)'
    BY <1>2, <2>1, NamedQuiet DEF Accounted, Kept, Named
  <2> QED BY <1>2, <2>1, <2>2 DEF Accounted
<1>6. CASE NotForThisTab(s)
  <2>1. UNCHANGED <<tab, gate, switch, report, told, handed, passed>>
    BY <1>6 DEF NotForThisTab, past
  <2>2. ASSUME NEW i \in Ids PROVE Named(i)'
    BY <1>2, <2>1, NamedQuiet DEF Accounted, Kept, Named, GivenUp
  <2> QED BY <1>2, <2>1, <2>2 DEF Accounted
<1> QED BY <1>1, <1>3, <1>4, <1>5, <1>6

\* A write that has just been settled leaves every write named.
LEMMA NamedSettled ==
  ASSUME Types, Accounted, NEW i \in Ids, NEW state \in {"done", "late"}, NEW ok \in BOOLEAN,
         writes[i].state \in OnItsWay, state = "late" => writes[i].state = "sent",
         Settled(i, state, ok), IsEdit(i) => state = "done",
         ok => writes[i].state = "ok",
         told \subseteq told', UNCHANGED <<nebula, tab, gate, report, handed, passed>>,
         (IsEdit(i) /\ ~ok /\ (Here(i) \/ (~writes'[i].counted /\ report.graph = tab.graph /\ report.says)))
         => i \in told'
  PROVE  Accounted'
<1>1. /\ Ids' = Ids /\ Goes(i) /\ \A j \in Ids \ {i} : Quiet(j)
      /\ writes'[i].state = state
      /\ writes'[i].counted = (writes[i].counted \/ (~ok /\ i \in switch.watching))
      /\ switch'.phase = switch.phase /\ switch'.watching = switch.watching \ {i}
      /\ switch'.cut = IF ~ok /\ i \in switch.watching THEN switch.cut \cup {i} ELSE switch.cut
  BY SettledFacts
<1>2. \A j \in Ids : Kept(j) => Kept(j)'
  BY <1>1 DEF Kept
<1>3. TookIds' = TookIds
  BY DEF TookIds
<1>4. ASSUME NEW j \in Ids \ {i} PROVE Named(j)'
  <2>1. /\ Quiet(j) /\ Named(j) /\ (Kept(j) => Kept(j)') /\ switch'.phase = switch.phase
        /\ (writes[j].state = "done" => writes'[j].state = "done")
        /\ (writes'[j].state = "gated" => writes[j].state = "gated")
    BY <1>1, <1>2 DEF Accounted, Quiet, Goes
  <2> QED BY <1>3, <2>1, NamedQuiet DEF Named, GivenUp
<1>5. Named(i)'
  <2>1. writes'[i].counted => Kept(i)'
    <3>1. writes'[i].counted => writes[i].counted \/ i \in switch'.cut
      BY <1>1
    <3> QED BY <1>2, <3>1 DEF Accounted, Named, Kept
  <2>2. (IsEdit(i) /\ i \notin TookIds) => Kept(i)'
    <3> SUFFICES ASSUME IsEdit(i), i \notin TookIds PROVE Kept(i)'
      OBVIOUS
    <3>1. ~ok /\ writes[i].state # "done"
      BY DEF Accounted, Named, OnItsWay
    <3>2. Here(i) \/ writes[i].counted \/ report.says \/ i \in handed \cup passed
      BY <3>1 DEF Accounted, Named
    <3>3. i \in told' \/ writes'[i].counted \/ i \in handed' \cup passed'
      BY <1>1, <3>1, <3>2 DEF Accounted, Goes
    <3> QED BY <2>1, <3>3 DEF Kept
  <2>3. IsEdit(i)' = IsEdit(i) /\ GivenUp(i)' = (state = "done" \/ i \in handed \cup passed)
    BY <1>1 DEF Goes, Same, IsEdit, GivenUp
  <2> QED BY <1>1, <1>3, <2>1, <2>2, <2>3 DEF Named
<1> QED BY <1>1, <1>4, <1>5 DEF Accounted

\* A step of a write's own.
LEMMA AccountedSteps ==
  ASSUME Types, Accounted, NEW i \in Ids, Steps(i)
  PROVE  Accounted'
<1>1. ASSUME Ids' = Ids, \A j \in Ids : Quiet(j),
             UNCHANGED <<nebula, tab, gate, switch, report, told, handed, passed>>
      PROVE  Accounted'
  <2>1. ASSUME NEW j \in Ids PROVE Named(j)'
    BY <1>1, NamedQuiet DEF Accounted, Kept, Named, GivenUp, TookIds, Quiet, Goes
  <2> QED BY <1>1, <2>1 DEF Accounted
<1>2. CASE EditsTurn(i)
  BY <1>1, <1>2, EditsTurnFacts DEF EditsTurn, past
<1>3. CASE AnswersLimit(i)
  BY <1>1, <1>3, AnswersLimitFacts DEF AnswersLimit, past
<1>4. CASE Fail(i)
  BY <1>1, <1>4, FailFacts DEF Fail, past
<1>5. CASE RestoresTurn(i)
  <2>1. /\ Ids' = Ids /\ Goes(i) /\ \A j \in Ids \ {i} : Quiet(j)
        /\ writes'[i].counted = writes[i].counted
        /\ writes[i].state = "queued" /\ writes'[i].state \in {"gated", "sent", "refused"}
        /\ writes'[i].state = "gated" => gate # 0
        /\ switch'.phase = switch.phase /\ switch'.cut = switch.cut
        /\ switch'.watching = switch.watching \/ switch.phase = "drain"
        /\ UNCHANGED <<nebula, tab, gate, report, told, handed, passed>>
    BY <1>5, RestoresTurnFacts DEF RestoresTurn, Types, past
  <2>2. ASSUME NEW j \in Ids \ {i} PROVE Named(j)'
    BY <2>1, NamedQuiet DEF Accounted, Kept, Named, GivenUp, TookIds, Quiet, Goes
  <2>3. Named(i)'
    BY <2>1 DEF Accounted, Named, Goes, Same, IsEdit, Kept
  <2> QED BY <2>1, <2>2, <2>3 DEF Accounted
<1>6. CASE Deliver(i)
  <2>1. /\ Ids' = Ids /\ Goes(i) /\ \A j \in Ids \ {i} : Quiet(j)
        /\ writes'[i].counted = writes[i].counted /\ writes'[i].state \in {"done", "ok", "refused"}
        /\ writes[i].state = "sent" => writes'[i].state \in {"ok", "refused"}
        /\ writes[i].state \in {"sent", "late"}
        /\ UNCHANGED <<tab, gate, switch, report, told, handed, passed>>
    BY <1>6, DeliverFacts DEF Deliver, past
  <2>2. TookIds \subseteq TookIds' /\ (writes'[i].state = "ok" => i \in TookIds')
    <3>1. CASE nebula' = nebula /\ writes'[i].state # "ok"
      BY <3>1 DEF TookIds
    <3>2. CASE nebula'.took = Append(nebula.took, [id |-> i, canvas |-> nebula.canvas])
      <4> DEFINE e == [id |-> i, canvas |-> nebula.canvas]
      <4>1. e.id = i /\ e \in [id : Nat, canvas : Nat] /\ nebula.took \in Seq([id : Nat, canvas : Nat])
        BY IdsFacts DEF Types
      <4>2. nebula'.took = Append(nebula.took, e)
        BY <3>2
      <4> HIDE DEF e
      <4>3. /\ DOMAIN nebula'.took = (DOMAIN nebula.took) \cup {Len(nebula.took) + 1}
            /\ nebula'.took[Len(nebula.took) + 1] = e
            /\ \A n \in DOMAIN nebula.took : nebula'.took[n] = nebula.took[n]
        BY <4>1, <4>2, AppendProperties, LenProperties
      <4> QED BY <4>1, <4>3 DEF TookIds
    <3> QED BY <1>6, <3>1, <3>2, DeliverFacts
  <2>3. ASSUME NEW j \in Ids \ {i} PROVE Named(j)'
    BY <2>1, <2>2, NamedQuiet DEF Accounted, Kept, Named, GivenUp, Quiet, Goes
  <2>4. Named(i)'
    BY <2>1, <2>2 DEF Accounted, Named, Goes, Same, IsEdit, Here, Kept, GivenUp
  <2> QED BY <2>1, <2>3, <2>4 DEF Accounted
<1>7. CASE RestoreTimesOut(i)
  <2>1. PICK state \in {"done", "late"} :
          Settled(i, state, FALSE) /\ (state = "late" => writes[i].state = "sent")
    BY <1>7 DEF RestoreTimesOut
  <2>2. ~IsEdit(i) /\ writes[i].state \in OnItsWay /\ told' = told
        /\ UNCHANGED <<nebula, tab, gate, report, handed, passed>>
    BY <1>7 DEF RestoreTimesOut, IsRestore, IsEdit, past
  <2> QED BY <2>1, <2>2, NamedSettled
<1>8. CASE Answered(i)
  <2> DEFINE ok == writes[i].state = "ok"
             said == ~ok /\ (Here(i) \/ (~Here(i) /\ ~writes'[i].counted /\ report.graph = tab.graph /\ report.says))
  <2>1. /\ writes[i].state \in OnItsWay /\ Settled(i, "done", ok)
        /\ told' = (IF said THEN told \cup {i} ELSE told)
        /\ UNCHANGED <<nebula, tab, gate, report, handed, passed>>
    BY <1>8 DEF Answered, OnItsWay
  <2>2. told \subseteq told' /\ (said => i \in told')
    BY <2>1
  <2> QED BY <2>1, <2>2, NamedSettled
<1> QED BY <1>2, <1>3, <1>4, <1>5, <1>6, <1>7, <1>8 DEF Steps, Turn

\* Every step keeps it.
LEMMA AccountedNext ==
  ASSUME Types, Accounted, [Next]_vars
  PROVE  Accounted'
<1>1. CASE \E i \in Ids : Steps(i)
  BY <1>1, AccountedSteps
<1>2. CASE ReceiveSync
  BY <1>2, AccountedSync
<1>3. CASE Next /\ ~(\E i \in Ids : Steps(i)) /\ ~ReceiveSync
  BY <1>3, AccountedTab, AccountedOpens DEF Next, Steps
<1>4. CASE UNCHANGED vars
  BY <1>4 DEF vars, past, Accounted, Named, IsEdit, Here, Kept, GivenUp, TookIds, Ids
<1> QED BY <1>1, <1>2, <1>3, <1>4

\* An edit that Nebula never took does not go unsaid: whichever line, drain, handoff or
\* replacement it meets, in any order, it is named, handed over or counted
\* (settleTracked, noteCutOff, drainWrites and beginAgentSwitch of graphStore.ts).
THEOREM LostNamedAlways == Spec => []LostIsNamed
<1>1. Types /\ Accounted => LostIsNamed
  BY DEF Accounted, Named, LostIsNamed, Kept
<1> QED BY InitFenced, InitAccounted, FencedNext, AccountedNext, <1>1, PTL DEF Spec

-----------------------------------------------------------------------------
(* The order of the writes. *)

\* A late restore passed its limit, only restores queue, an edit at the gate was held
\* there, and what Nebula took is on its way no more.
Kinds ==
  \A i \in Ids :
    /\ writes[i].state = "late" => writes[i].limit
    /\ IsRestore(i) => writes[i].state # "waiting"
    /\ IsEdit(i) => writes[i].state \notin {"queued", "late"}
    /\ IsEdit(i) /\ writes[i].state = "gated" => writes[i].held
    /\ i \in TookIds => writes[i].state \in {"ok", "refused", "done"}

\* While the restore i is pressed, j waits behind it, is held at the gate, or never reaches
\* Nebula.
Behind(i, j) ==
  IsRestore(i) /\ Pressed(i) =>
    \/ writes[j].state \in {"waiting", "queued"} /\ i \in writes[j].after
    \/ writes[j].state = "gated" /\ IsEdit(j)
    \/ writes[j].state \in {"refused", "done"} /\ j \notin TookIds

\* While the edit i has no answer, the restore j is queued for it.
Awaits(i, j) ==
  (IsEdit(i) /\ ~writes[i].held /\ writes[i].state # "done" /\ IsRestore(j) /\ ~writes[j].limit) =>
    writes[j].state = "queued" /\ i \in writes[j].answers

Queues == \A i, j \in Ids : i < j /\ writes[i].graph = writes[j].graph => Behind(i, j) /\ Awaits(i, j)

Ordered == Kinds /\ Queues /\ InOrder

\* The way of a write: where it can come from, and what it waits for.
From(v, w) ==
  /\ w.kind = v.kind /\ w.graph = v.graph /\ w.held = v.held /\ (v.limit => w.limit)
  /\ w.state = "waiting" => v.state = "waiting" \/ (v.state = "gated" /\ v.kind = "edit")
  /\ w.state = "queued" => v.state = "queued"
  /\ w.state = "gated" => v.state = "gated" \/ (v.state = "queued" /\ v.kind = "restore")
  /\ w.state = "sent" => v.state \in {"waiting", "queued", "gated", "sent"}
  /\ w.state = "ok" => v.state \in {"sent", "ok"}
  /\ w.state = "late" => v.state = "late" \/ (v.state = "sent" /\ v.kind = "restore" /\ w.limit)
  /\ v.state = "done" => w.state = "done"
  /\ v.state = "late" => w.state \in {"late", "done"}
  /\ v.state \in {"ok", "refused"} => w.state \in {"ok", "refused", "done"}
  /\ v.state = w.state /\ w.state \in {"waiting", "queued"} => w.after = v.after

Onward(j) ==
  /\ From(writes[j], writes'[j])
  /\ writes'[j].state = "queued" /\ ~writes'[j].limit =>
       \A i \in writes[j].answers : i \in writes'[j].answers \/ writes'[i].state \in {"done", "late"}
  /\ writes[j].state = "waiting" /\ writes'[j].state = "sent" => BehindNone(j)
  /\ writes[j].state = "queued" /\ writes'[j].state # "queued" =>
       BehindNone(j) /\ writes[j].answers = {}
  /\ writes[j].state = "gated" /\ IsEdit(j) /\ writes'[j].state \in {"sent", "waiting"} =>
       \A i \in Ids : Pressed(i) /\ writes[i].graph = writes[j].graph =>
         writes'[j].state = "waiting" /\ i \in writes'[j].after

\* A write that is where it was has gone nowhere.
LEMMA OnwardIfSame == ASSUME NEW i, writes'[i] = writes[i] PROVE Onward(i)
BY DEF Onward, From

\* A change of nothing that counts is a way to stay.
LEMMA FromAlike ==
  ASSUME NEW v, NEW w, w.kind = v.kind, w.graph = v.graph, w.held = v.held, w.limit = v.limit,
         w.state = v.state, w.after = v.after
  PROVE  From(v, w)
BY DEF From

\* Of two writes, the later one keeps waiting for the earlier.
LEMMA PairStep ==
  ASSUME Types, Kinds, NEW i \in Ids, NEW j \in Ids, writes[i].graph = writes[j].graph,
         Behind(i, j), Awaits(i, j), Onward(i), Onward(j), writes'[j] \in Write,
         j \in TookIds' => j \in TookIds \/ writes[j].state \in {"sent", "late"}
  PROVE  Behind(i, j)' /\ Awaits(i, j)'
<1>1. From(writes[i], writes'[i]) /\ From(writes[j], writes'[j])
  BY DEF Onward
<1>2. writes[i] \in Write /\ writes[j] \in Write
  BY IdsFacts
<1>3. ASSUME IsRestore(i)', Pressed(i)' PROVE Behind(i, j)'
  <2>1. IsRestore(i) /\ Pressed(i)
    BY <1>1, <1>2, <1>3 DEF From, IsRestore, Pressed, OnItsWay, Kinds, Write
  <2>2. CASE writes[j].state \in {"waiting", "queued"} /\ i \in writes[j].after
    <3>1. ~BehindNone(j)
      BY <2>1, <2>2 DEF BehindNone
    <3>2. j \notin TookIds
      BY <2>2 DEF Kinds
    <3>3. \/ writes'[j].state = writes[j].state
          \/ writes'[j].state \in {"refused", "done"}
      BY <1>1, <1>2, <2>2, <3>1 DEF From, Onward, Write
    <3> QED BY <1>1, <2>2, <3>2, <3>3 DEF From, Behind
  <2>3. CASE writes[j].state = "gated" /\ IsEdit(j)
    <3>1. j \notin TookIds
      BY <2>3 DEF Kinds
    <3>2. \/ writes'[j].state = "gated" \/ writes'[j].state \in {"refused", "done"}
          \/ writes'[j].state = "waiting" /\ i \in writes'[j].after
      BY <1>1, <1>2, <2>1, <2>3 DEF From, Onward, Write
    <3> QED BY <1>1, <2>3, <3>1, <3>2 DEF From, Behind, IsEdit
  <2>4. CASE writes[j].state \in {"refused", "done"} /\ j \notin TookIds
    BY <1>1, <2>4 DEF From, Behind
  <2> QED BY <2>1, <2>2, <2>3, <2>4 DEF Behind
<1>4. ASSUME IsEdit(i)', ~writes'[i].held, writes'[i].state # "done", IsRestore(j)', ~writes'[j].limit
      PROVE  Awaits(i, j)'
  <2>1. writes[j].state = "queued" /\ i \in writes[j].answers
    BY <1>1, <1>2, <1>4 DEF From, Awaits, IsEdit, IsRestore
  <2>2. writes'[j].state = "queued"
    BY <2>1 DEF Onward
  <2>3. writes'[i].state # "late"
    BY <1>1, <1>4 DEF From, Kinds, IsEdit
  <2>4. i \in writes'[j].answers
    BY <1>4, <2>1, <2>2, <2>3 DEF Onward
  <2> QED BY <2>2, <2>4 DEF Awaits
<1> QED BY <1>3, <1>4 DEF Behind, Awaits

\* A write that is taken was on its way.
Takes == TookIds' \subseteq TookIds \cup {i \in Ids : writes[i].state \in {"sent", "late"}}

\* A step of the writes there that moves each onward keeps them in their queues.
LEMMA QueuesStep ==
  ASSUME Types, Types', Kinds, Queues, Ids' = Ids, \A j \in Ids : Onward(j), Takes
  PROVE  Queues'
<1>1. ASSUME NEW i \in Ids, NEW j \in Ids, i < j, writes'[i].graph = writes'[j].graph
      PROVE  Behind(i, j)' /\ Awaits(i, j)'
  <2>1. writes[i].graph = writes[j].graph
    BY <1>1 DEF Onward, From
  <2>2. writes'[j] \in Write
    <3>1. writes' \in Seq(Write) /\ DOMAIN writes' = Ids
      BY DEF Types, Ids
    <3> QED BY <3>1, LenProperties, ElementOfSeq
  <2>3. Behind(i, j) /\ Awaits(i, j)
    BY <1>1, <2>1 DEF Queues
  <2>4. j \in TookIds' => j \in TookIds \/ writes[j].state \in {"sent", "late"}
    BY DEF Takes
  <2> QED BY <2>1, <2>2, <2>3, <2>4, PairStep
<1> QED BY <1>1 DEF Queues

\* ... and keeps what a write can be.
LEMMA KindsStep ==
  ASSUME Types, Kinds, Ids' = Ids, \A j \in Ids : Onward(j),
         \A j \in TookIds' : j \in TookIds \/ writes'[j].state \in {"ok", "refused", "done"}
  PROVE  Kinds'
<1>1. ASSUME NEW i \in Ids
      PROVE  /\ writes'[i].state = "late" => writes'[i].limit
             /\ IsRestore(i)' => writes'[i].state # "waiting"
             /\ IsEdit(i)' => writes'[i].state \notin {"queued", "late"}
             /\ IsEdit(i)' /\ writes'[i].state = "gated" => writes'[i].held
             /\ i \in TookIds' => writes'[i].state \in {"ok", "refused", "done"}
  <2>1. From(writes[i], writes'[i]) /\ writes[i] \in Write
    BY IdsFacts DEF Onward
  <2> QED BY <2>1 DEF From, Kinds, IsEdit, IsRestore, Write
<1> QED BY <1>1 DEF Kinds

\* A step that takes no write keeps the order of those taken.
LEMMA OrderKept ==
  ASSUME Types, Fenced, InOrder, nebula'.took = nebula.took,
         \A j \in Ids : Onward(j)
  PROVE  InOrder'
<1>1. TookIds' = TookIds /\ TookIds \subseteq Ids /\ \A i, j : Before(i, j)' <=> Before(i, j)
  BY DEF TookIds, Before, Fenced
<1>2. ASSUME NEW i \in TookIds, NEW j \in TookIds, Swapped(i, j)' PROVE IsEdit(i)' /\ writes'[i].held
  <2>1. /\ From(writes[i], writes'[i]) /\ From(writes[j], writes'[j])
        /\ writes[i] \in Write /\ writes[j] \in Write
    BY <1>1, IdsFacts DEF Onward
  <2>2. Swapped(i, j)
    BY <1>1, <1>2, <2>1 DEF Swapped, From
  <2> QED BY <1>2, <2>1, <2>2 DEF InOrder, From, IsEdit
<1> QED BY <1>1, <1>2 DEF InOrder

\* The next write taken is swapped with none before it.
LEMMA OrderTaken ==
  ASSUME Types, Types', Fenced, Kinds, Queues, InOrder, NEW n \in Ids, writes[n].state \in {"sent", "late"},
         \A j \in Ids : Onward(j), NEW c \in Nat,
         nebula'.took = Append(nebula.took, [id |-> n, canvas |-> c])
  PROVE  InOrder' /\ TookIds' = TookIds \cup {n}
<1> DEFINE e == [id |-> n, canvas |-> c]
           l == Len(nebula.took)
<1>1. /\ l \in Nat /\ DOMAIN nebula.took = 1..l /\ DOMAIN nebula'.took = 1..(l + 1)
      /\ nebula'.took[l + 1].id = n
      /\ \A m \in 1..l : nebula'.took[m] = nebula.took[m]
  <2>1. nebula.took \in Seq([id : Nat, canvas : Nat]) /\ e \in [id : Nat, canvas : Nat] /\ e.id = n
    BY IdsFacts DEF Types
  <2> HIDE DEF e
  <2>2. nebula'.took = Append(nebula.took, e)
    BY DEF e
  <2> QED BY <2>1, <2>2, AppendProperties, LenProperties
<1>2. TookIds' = TookIds \cup {n} /\ TookIds \subseteq Ids
  BY <1>1 DEF TookIds, Fenced
<1>3. \A i, j : Before(i, j)' => Before(i, j) \/ (j = n /\ i \in TookIds)
  BY <1>1 DEF Before, TookIds
<1>4. ASSUME NEW i \in TookIds', NEW j \in TookIds', Swapped(i, j)' PROVE IsEdit(i)' /\ writes'[i].held
  <2>1. /\ From(writes[i], writes'[i]) /\ From(writes[j], writes'[j])
        /\ writes[i] \in Write /\ writes[j] \in Write /\ i \in Ids /\ j \in Ids
    BY <1>2, IdsFacts DEF Onward
  <2>2. CASE Before(j, i)
    <3>1. i \in TookIds /\ j \in TookIds
      BY <2>2 DEF Before, TookIds
    <3>2. Swapped(i, j)
      BY <1>4, <2>1, <2>2 DEF Swapped, From
    <3> QED BY <2>1, <3>1, <3>2 DEF InOrder, From, IsEdit
  <2>3. CASE i = n /\ j \in TookIds
    <3>1. /\ i < j /\ writes[i].graph = writes[j].graph
          /\ "restore" \in {writes[i].kind, writes[j].kind}
          /\ ~writes[i].limit /\ ~writes[j].limit
      BY <1>4, <2>1 DEF Swapped, From
    <3>2. writes[i].state = "sent" /\ writes[j].state \in {"ok", "refused", "done"}
      BY <2>1, <2>3, <3>1 DEF Kinds
    <3>3. Behind(i, j) /\ Awaits(i, j)
      BY <2>1, <3>1 DEF Queues
    <3>4. ~IsRestore(i)
      BY <2>3, <3>2, <3>3 DEF Behind, Pressed, OnItsWay
    <3>5. IsEdit(i) /\ IsRestore(j)
      BY <2>1, <3>1, <3>4 DEF IsEdit, IsRestore, Write
    <3>6. writes[i].held
      BY <3>1, <3>2, <3>3, <3>5 DEF Awaits
    <3> QED BY <2>1, <3>5, <3>6 DEF From, IsEdit
  <2> QED BY <1>3, <1>4, <2>2, <2>3 DEF Swapped
<1> QED BY <1>2, <1>4 DEF InOrder

\* What send does to a write that waited.
LEMMA SentFrom ==
  ASSUME NEW w \in Write, NEW t
  PROVE  /\ Sent(w, t).kind = w.kind /\ Sent(w, t).graph = w.graph /\ Sent(w, t).held = w.held
         /\ Sent(w, t).limit = w.limit /\ Sent(w, t).answers = w.answers
         /\ Sent(w, t).state \in {"sent", "refused"}
BY DEF Sent, Write

\* The edit whose turn it is was behind none.
LEMMA EditsTurnOnward ==
  ASSUME Types, NEW i \in Ids, EditsTurn(i)
  PROVE  Ids' = Ids /\ \A j \in Ids : Onward(j)
<1> DEFINE w == [writes[i] EXCEPT !.after = {}]
           v == Sent(w, tab)
<1>1. /\ w \in Write /\ w.kind = writes[i].kind /\ w.graph = writes[i].graph /\ w.held = writes[i].held
      /\ w.limit = writes[i].limit /\ w.answers = writes[i].answers
  BY IdsFacts DEF Write
<1>2. writes' = [writes EXCEPT ![i] = v] /\ writes[i].state = "waiting" /\ BehindNone(i)
  BY DEF EditsTurn
<1> HIDE DEF w
<1>3. /\ v \in Write /\ v.kind = writes[i].kind /\ v.graph = writes[i].graph /\ v.held = writes[i].held
      /\ v.limit = writes[i].limit /\ v.state \in {"sent", "refused"}
  BY <1>1, SentFacts, SentFrom
<1> HIDE DEF v
<1>4. Ids' = Ids /\ writes'[i] = v /\ \A j \in Ids \ {i} : writes'[j] = writes[j]
  BY <1>2, <1>3, ChangeFacts
<1>5. Onward(i)
  BY <1>2, <1>3, <1>4 DEF Onward, From
<1> QED BY <1>4, <1>5, OnwardIfSame

\* A restore that stops waiting for answers says so.
LEMMA AnswersLimitOnward ==
  ASSUME Types, NEW i \in Ids, AnswersLimit(i)
  PROVE  Ids' = Ids /\ \A j \in Ids : Onward(j)
<1> DEFINE v == [writes[i] EXCEPT !.answers = {}, !.limit = TRUE]
<1>1. /\ v \in Write /\ v.kind = writes[i].kind /\ v.graph = writes[i].graph /\ v.held = writes[i].held
      /\ v.limit /\ v.after = writes[i].after /\ v.state = writes[i].state
  BY IdsFacts DEF Write
<1>2. writes' = [writes EXCEPT ![i] = v] /\ writes[i].state = "queued"
  BY DEF AnswersLimit
<1> HIDE DEF v
<1>4. Ids' = Ids /\ writes'[i] = v /\ \A j \in Ids \ {i} : writes'[j] = writes[j]
  BY <1>1, <1>2, ChangeFacts
<1>5. Onward(i)
  BY <1>1, <1>2, <1>4 DEF Onward, From
<1> QED BY <1>4, <1>5, OnwardIfSame

\* The restore whose turn it is was behind none and has its answers.
LEMMA RestoresTurnOnward ==
  ASSUME Types, Kinds, NEW i \in Ids, RestoresTurn(i)
  PROVE  Ids' = Ids /\ \A j \in Ids : Onward(j)
<1> DEFINE w == [writes[i] EXCEPT !.after = {}]
           g == [writes[i] EXCEPT !.state = "gated", !.after = {}]
           s == Sent(w, tab)
<1>1. /\ w \in Write /\ w.kind = writes[i].kind /\ w.graph = writes[i].graph /\ w.held = writes[i].held
      /\ w.limit = writes[i].limit
  BY IdsFacts DEF Write
<1>2. /\ g \in Write /\ g.kind = writes[i].kind /\ g.graph = writes[i].graph /\ g.held = writes[i].held
      /\ g.limit = writes[i].limit /\ g.state = "gated"
  BY IdsFacts DEF Write
<1>3. /\ writes[i].state = "queued" /\ writes[i].answers = {} /\ BehindNone(i)
      /\ writes' = [writes EXCEPT ![i] = g] \/ writes' = [writes EXCEPT ![i] = s]
  BY DEF RestoresTurn
<1>4. writes[i].kind = "restore"
  BY <1>3, IdsFacts DEF Kinds, IsEdit, Write
<1> HIDE DEF w, g
<1>5. /\ s \in Write /\ s.kind = writes[i].kind /\ s.graph = writes[i].graph /\ s.held = writes[i].held
      /\ s.limit = writes[i].limit /\ s.state \in {"sent", "refused"}
  BY <1>1, SentFacts, SentFrom
<1> HIDE DEF s
<1>6. ASSUME NEW v \in Write, writes' = [writes EXCEPT ![i] = v],
             v.kind = writes[i].kind, v.graph = writes[i].graph, v.held = writes[i].held,
             v.limit = writes[i].limit, v.state \in {"gated", "sent", "refused"}
      PROVE  Ids' = Ids /\ \A j \in Ids : Onward(j)
  <2>1. Ids' = Ids /\ writes'[i] = v /\ \A j \in Ids \ {i} : writes'[j] = writes[j]
    BY <1>6, ChangeFacts
  <2>2. Onward(i)
    BY <1>3, <1>4, <1>6, <2>1 DEF Onward, From
  <2> QED BY <2>1, <2>2, OnwardIfSame
<1> QED BY <1>2, <1>3, <1>5, <1>6

\* What Nebula answers was on its way.
LEMMA DeliverOnward ==
  ASSUME Types, NEW i \in Ids, Deliver(i)
  PROVE  Ids' = Ids /\ \A j \in Ids : Onward(j)
<1> DEFINE mine == writes[i].header = <<nebula.rev, nebula.canvas>>
           t == IF writes[i].state = "late" THEN "done" ELSE IF mine THEN "ok" ELSE "refused"
           v == [writes[i] EXCEPT !.state = t]
<1>1. writes' = [writes EXCEPT ![i] = v] /\ writes[i].state \in {"sent", "late"}
  BY DEF Deliver
<1>2. t \in {"done", "ok", "refused"} /\ (writes[i].state = "late" => t = "done")
  OBVIOUS
<1> HIDE DEF t, mine
<1>3. /\ v \in Write /\ v.kind = writes[i].kind /\ v.graph = writes[i].graph /\ v.held = writes[i].held
      /\ v.limit = writes[i].limit /\ v.state = t
  BY <1>2, IdsFacts DEF Write
<1> HIDE DEF v
<1>4. Ids' = Ids /\ writes'[i] = v /\ \A j \in Ids \ {i} : writes'[j] = writes[j]
  BY <1>1, <1>3, ChangeFacts
<1>5. Onward(i)
  BY <1>1, <1>2, <1>3, <1>4 DEF Onward, From
<1> QED BY <1>4, <1>5, OnwardIfSame

\* A request that fails was on its way.
LEMMA FailOnward ==
  ASSUME Types, NEW i \in Ids, Fail(i)
  PROVE  Ids' = Ids /\ \A j \in Ids : Onward(j)
<1> DEFINE v == [writes[i] EXCEPT !.state = "refused"]
<1>1. writes' = [writes EXCEPT ![i] = v] /\ writes[i].state \in {"sent", "ok"}
  BY DEF Fail
<1>2. /\ v \in Write /\ v.kind = writes[i].kind /\ v.graph = writes[i].graph /\ v.held = writes[i].held
      /\ v.limit = writes[i].limit /\ v.state = "refused"
  BY IdsFacts DEF Write
<1> HIDE DEF v
<1>3. Ids' = Ids /\ writes'[i] = v /\ \A j \in Ids \ {i} : writes'[j] = writes[j]
  BY <1>1, <1>2, ChangeFacts
<1>4. Onward(i)
  BY <1>1, <1>2, <1>3 DEF Onward, From
<1> QED BY <1>3, <1>4, OnwardIfSame

\* The answer of one write is what the others wait for.
LEMMA SettledOnward ==
  ASSUME Types, NEW i \in Ids, NEW state \in {"done", "late"}, NEW ok \in BOOLEAN,
         writes[i].state \in OnItsWay, state = "late" => writes[i].state = "sent" /\ IsRestore(i),
         Settled(i, state, ok)
  PROVE  Ids' = Ids /\ \A j \in Ids : Onward(j)
<1> DEFINE c == writes[i].counted \/ (~ok /\ i \in switch.watching)
           m == writes[i].limit \/ state = "late"
           v == [writes[i] EXCEPT !.state = state, !.limit = m, !.counted = c]
           u(j) == [writes[j] EXCEPT !.answers = @ \ {i}]
           f == [j \in Ids |-> IF j = i THEN v ELSE u(j)]
<1>1. writes' = f
  BY DEF Settled
<1>2. c \in BOOLEAN /\ m \in BOOLEAN /\ (state = "late" => m) /\ (writes[i].limit => m)
  BY IdsFacts DEF Write
<1> HIDE DEF c, m
<1>3. /\ v \in Write /\ v.kind = writes[i].kind /\ v.graph = writes[i].graph /\ v.held = writes[i].held
      /\ v.limit = m /\ v.state = state
  BY <1>2, IdsFacts DEF Write
<1>4. ASSUME NEW j \in Ids
      PROVE  /\ u(j) \in Write /\ u(j).kind = writes[j].kind /\ u(j).graph = writes[j].graph
             /\ u(j).held = writes[j].held /\ u(j).limit = writes[j].limit /\ u(j).state = writes[j].state
             /\ u(j).after = writes[j].after /\ u(j).answers = writes[j].answers \ {i}
  BY IdsFacts DEF Write
<1> HIDE DEF v, u
<1>5. f \in [Ids -> Write]
  BY <1>3, <1>4
<1>6. /\ Ids' = Ids /\ writes'[i] = v
      /\ \A j \in Ids \ {i} : writes'[j] = u(j)
  BY <1>1, <1>5, AllFacts
<1>7. Onward(i)
  <2>1. From(writes[i], writes'[i])
    BY <1>2, <1>3, <1>6 DEF From, IsRestore, OnItsWay
  <2> QED BY <1>3, <1>6, <2>1 DEF Onward, OnItsWay
<1>8. ASSUME NEW j \in Ids \ {i} PROVE Onward(j)
  <2>1. From(writes[j], writes'[j])
    BY <1>4, <1>6, FromAlike
  <2> QED BY <1>3, <1>4, <1>6, <2>1 DEF Onward
<1> QED BY <1>6, <1>7, <1>8

\* The gate lets an edit go only when no restore is pressed, or behind those that are.
LEMMA GateOpensOnward ==
  ASSUME Types, NEW t, GateOpens(t)
  PROVE  Ids' = Ids /\ \A j \in Ids : Onward(j)
<1> DEFINE held(i)  == writes[i].state = "gated"
           here(i)  == writes[i].graph = t.graph
           ahead(i) == {j \in Ids : here(j) /\ (Pressed(j) \/ writes[j].state = "waiting"
                                                \/ (held(j) /\ IsEdit(j) /\ j < i))}
           behind(i) == {j \in Ids : here(j) /\ (Pressed(j) \/ writes[j].state = "waiting")}
           atOnce(i) == IsRestore(i) \/ ~StillAdmitted(writes[i], t) \/ behind(i) = {}
           s(i) == Sent(writes[i], t)
           b(i) == [writes[i] EXCEPT !.state = "waiting", !.after = ahead(i)]
           f == [i \in Ids |-> IF ~held(i) THEN writes[i] ELSE IF atOnce(i) THEN s(i) ELSE b(i)]
<1>1. writes' = f
  BY DEF GateOpens
<1>2. ASSUME NEW i \in Ids
      PROVE  /\ b(i) \in Write /\ b(i).kind = writes[i].kind /\ b(i).graph = writes[i].graph
             /\ b(i).held = writes[i].held /\ b(i).limit = writes[i].limit
             /\ b(i).state = "waiting" /\ b(i).after = ahead(i)
  <2>1. ahead(i) \in SUBSET Nat /\ writes[i] \in Write
    BY IdsFacts
  <2> HIDE DEF ahead
  <2> QED BY <2>1 DEF Write
<1>3. ASSUME NEW i \in Ids
      PROVE  /\ s(i) \in Write /\ s(i).kind = writes[i].kind /\ s(i).graph = writes[i].graph
             /\ s(i).held = writes[i].held /\ s(i).limit = writes[i].limit
             /\ s(i).state \in {"sent", "refused"}
             /\ s(i).state = "sent" => StillAdmitted(writes[i], t)
  <2>1. writes[i] \in Write
    BY IdsFacts
  <2>2. s(i).state = "sent" => StillAdmitted(writes[i], t)
    BY <2>1 DEF Sent, Write
  <2> QED BY <2>1, <2>2, SentFacts, SentFrom
<1>4. ASSUME NEW i \in Ids, NEW j \in Ids, StillAdmitted(writes[j], t), writes[i].graph = writes[j].graph, Pressed(i)
      PROVE  i \in ahead(j) /\ (atOnce(j) => IsRestore(j))
  BY <1>4 DEF StillAdmitted
<1>5. ASSUME NEW i \in Ids, ~atOnce(i) PROVE ~IsRestore(i) /\ StillAdmitted(writes[i], t)
  BY <1>5
<1> HIDE DEF s, b, atOnce, ahead
<1>6. f \in [Ids -> Write]
  BY <1>2, <1>3, IdsFacts
<1>7. /\ Ids' = Ids
      /\ \A j \in Ids : writes'[j] = IF ~held(j) THEN writes[j] ELSE IF atOnce(j) THEN s(j) ELSE b(j)
  BY <1>1, <1>6, AllFacts
<1>8. ASSUME NEW j \in Ids PROVE Onward(j)
  <2>1. CASE ~held(j)
    BY <1>7, <2>1, OnwardIfSame
  <2>2. CASE held(j) /\ atOnce(j)
    <3>1. writes'[j] = s(j)
      BY <1>7, <2>2
    <3>2. From(writes[j], writes'[j])
      BY <1>3, <2>2, <3>1 DEF From
    <3>3. IsEdit(j) /\ writes'[j].state \in {"sent", "waiting"} =>
            \A i \in Ids : ~(Pressed(i) /\ writes[i].graph = writes[j].graph)
      BY <1>3, <1>4, <2>2, <3>1 DEF IsEdit, IsRestore
    <3> QED BY <2>2, <3>1, <3>2, <3>3, <1>3 DEF Onward
  <2>3. CASE held(j) /\ ~atOnce(j)
    <3>1. writes'[j] = b(j) /\ writes[j].kind = "edit" /\ StillAdmitted(writes[j], t)
      BY <1>5, <1>7, <2>3, IdsFacts DEF IsRestore, Write
    <3>2. From(writes[j], writes'[j])
      BY <1>2, <2>3, <3>1 DEF From
    <3>3. \A i \in Ids : Pressed(i) /\ writes[i].graph = writes[j].graph => i \in writes'[j].after
      BY <1>2, <1>4, <3>1
    <3> QED BY <1>2, <2>3, <3>1, <3>2, <3>3 DEF Onward
  <2> QED BY <2>1, <2>2, <2>3
<1> QED BY <1>7, <1>8

\* The drain's limit moves no write.
LEMMA DrainLimitOnward ==
  ASSUME Types, DrainLimit
  PROVE  Ids' = Ids /\ \A j \in Ids : Onward(j)
<1> DEFINE c(i) == writes[i].counted \/ i \in switch.watching
           v(i) == [writes[i] EXCEPT !.counted = c(i)]
           f == [i \in Ids |-> v(i)]
<1>1. writes' = f
  BY DEF DrainLimit
<1>2. ASSUME NEW i \in Ids
      PROVE  /\ v(i) \in Write /\ v(i).kind = writes[i].kind /\ v(i).graph = writes[i].graph
             /\ v(i).held = writes[i].held /\ v(i).limit = writes[i].limit /\ v(i).state = writes[i].state
             /\ v(i).after = writes[i].after /\ v(i).answers = writes[i].answers
  BY IdsFacts DEF Write
<1> HIDE DEF v
<1>3. f \in [Ids -> Write]
  BY <1>2
<1>4. Ids' = Ids /\ \A j \in Ids : writes'[j] = v(j)
  BY <1>1, <1>3, AllFacts
<1>5. ASSUME NEW j \in Ids PROVE Onward(j)
  <2>1. From(writes[j], writes'[j])
    BY <1>2, <1>4, FromAlike
  <2> QED BY <1>2, <1>4, <2>1 DEF Onward
<1> QED BY <1>4, <1>5

-----------------------------------------------------------------------------
(* Every step keeps the order. *)

\* A new write goes behind the restores pressed, and a restore behind the edits on their way.
LEMMA NewIsBehind ==
  ASSUME Types, Kinds, Edit \/ Undo
  PROVE  \E w \in Write :
           /\ writes' = Append(writes, w) /\ w.graph = tab.graph
           /\ w.state \in {"gated", "sent", "refused", "waiting", "queued"}
           /\ w.state = "gated" => w.kind = "edit" /\ w.held
           /\ w.state = "waiting" => w.kind = "edit" /\ Pending \subseteq w.after
           /\ w.state = "queued" => w.kind = "restore" /\ Pending \subseteq w.after
           /\ w.state = "sent" => Pending = {}
           /\ w.kind = "restore" => w.state = "queued" /\ {k \in Live : IsEdit(k) /\ Here(k)} \subseteq w.answers
<1> DEFINE P == Pending \cup Waiting
           A == {k \in Live : IsEdit(k) /\ Here(k)}
<1>1. P \in SUBSET Nat /\ A \in SUBSET Nat /\ Pending \subseteq P
  BY IdsFacts DEF Pending, Waiting, Live
<1>2. CASE Edit
  <2> DEFINE w == Admission("edit", "waiting")
             g == [w EXCEPT !.state = "gated", !.held = TRUE]
             b == [w EXCEPT !.after = P]
             s == Sent(w, tab)
  <2>1. w \in Write /\ w.kind = "edit" /\ w.state = "waiting" /\ w.graph = tab.graph
    BY AdmissionFacts
  <2>2. writes' = Append(writes, IF gate # 0 THEN g ELSE IF P = {} THEN s ELSE b)
    BY <1>2 DEF Edit
  <2> HIDE DEF w, P, A
  <2>3. g \in Write /\ g.kind = "edit" /\ g.graph = tab.graph /\ g.state = "gated" /\ g.held
    BY <2>1 DEF Write
  <2>4. b \in Write /\ b.kind = "edit" /\ b.graph = tab.graph /\ b.state = "waiting" /\ b.after = P
    BY <1>1, <2>1 DEF Write
  <2>5. s \in Write /\ s.kind = "edit" /\ s.graph = tab.graph /\ s.state \in {"sent", "refused"}
    BY <2>1, SentFacts, SentFrom
  <2> HIDE DEF g, b, s
  <2>6. CASE gate # 0
    BY <2>2, <2>3, <2>6
  <2>7. CASE gate = 0 /\ P = {}
    BY <1>1, <2>2, <2>5, <2>7
  <2>8. CASE gate = 0 /\ P # {}
    BY <1>1, <2>2, <2>4, <2>8
  <2> QED BY <2>6, <2>7, <2>8
<1>3. CASE Undo
  <2> DEFINE w == Admission("restore", "queued")
             v == [w EXCEPT !.after = P, !.answers = A]
  <2>1. w \in Write /\ w.kind = "restore" /\ w.state = "queued" /\ w.graph = tab.graph
    BY AdmissionFacts
  <2>2. writes' = Append(writes, v)
    BY <1>3 DEF Undo
  <2> HIDE DEF w, P, A
  <2>3. v \in Write /\ v.kind = "restore" /\ v.graph = tab.graph /\ v.state = "queued"
        /\ v.after = P /\ v.answers = A
    BY <1>1, <2>1 DEF Write
  <2> HIDE DEF v
  <2> QED BY <1>1, <2>2, <2>3 DEF A
<1> QED BY <1>2, <1>3

\* A write that is made joins the queues at their end.
LEMMA NewKeepsOrder ==
  ASSUME Types, Fenced, Ordered, Edit \/ Undo
  PROVE  Ordered'
<1>1. PICK w \in Write :
           /\ writes' = Append(writes, w) /\ w.graph = tab.graph
           /\ w.state \in {"gated", "sent", "refused", "waiting", "queued"}
           /\ w.state = "gated" => w.kind = "edit" /\ w.held
           /\ w.state = "waiting" => w.kind = "edit" /\ Pending \subseteq w.after
           /\ w.state = "queued" => w.kind = "restore" /\ Pending \subseteq w.after
           /\ w.state = "sent" => Pending = {}
           /\ w.kind = "restore" => w.state = "queued" /\ {k \in Live : IsEdit(k) /\ Here(k)} \subseteq w.answers
  BY NewIsBehind DEF Ordered
<1>2. PICK n \in Nat : /\ Ids' = Ids \cup {n} /\ Ids \subseteq Nat /\ \A i \in Ids : i < n
                      /\ writes'[n] = w /\ \A i \in Ids : writes'[i] = writes[i]
  BY <1>1, AppendFacts, IdsFacts
<1>3. nebula' = nebula /\ tab' = tab
  BY DEF Edit, Undo
<1>4. TookIds' = TookIds /\ TookIds \subseteq Ids /\ n \notin TookIds /\ \A i, j : Before(i, j)' <=> Before(i, j)
  BY <1>2, <1>3 DEF TookIds, Before, Fenced
<1>5. Kinds'
  <2>1. ASSUME NEW i \in Ids
        PROVE  /\ writes'[i].state = "late" => writes'[i].limit
               /\ IsRestore(i)' => writes'[i].state # "waiting"
               /\ IsEdit(i)' => writes'[i].state \notin {"queued", "late"}
               /\ IsEdit(i)' /\ writes'[i].state = "gated" => writes'[i].held
               /\ i \in TookIds' => writes'[i].state \in {"ok", "refused", "done"}
    BY <1>2, <1>4 DEF Ordered, Kinds, IsEdit, IsRestore
  <2>2. /\ writes'[n].state = "late" => writes'[n].limit
        /\ IsRestore(n)' => writes'[n].state # "waiting"
        /\ IsEdit(n)' => writes'[n].state \notin {"queued", "late"}
        /\ IsEdit(n)' /\ writes'[n].state = "gated" => writes'[n].held
        /\ n \in TookIds' => writes'[n].state \in {"ok", "refused", "done"}
    BY <1>1, <1>2, <1>4 DEF IsEdit, IsRestore
  <2> QED BY <1>2, <2>1, <2>2 DEF Kinds
<1>6. ASSUME NEW i \in Ids, NEW j \in Ids, i < j, writes'[i].graph = writes'[j].graph
      PROVE  Behind(i, j)' /\ Awaits(i, j)'
  BY <1>2, <1>4, <1>6 DEF Ordered, Queues, Behind, Awaits, IsEdit, IsRestore, Pressed
<1>7. ASSUME NEW i \in Ids, writes'[i].graph = writes'[n].graph
      PROVE  Behind(i, n)' /\ Awaits(i, n)'
  <2>1. writes'[i] = writes[i] /\ writes[i] \in Write /\ Here(i) /\ writes'[n] = w
    BY <1>1, <1>2, <1>7, IdsFacts DEF Here
  <2>2. IsRestore(i)' /\ Pressed(i)' => i \in Pending
    BY <2>1 DEF IsRestore, Pressed, Pending
  <2>3. Behind(i, n)'
    BY <1>1, <1>4, <2>1, <2>2 DEF Behind, IsEdit
  <2>4. IsEdit(i)' /\ ~writes'[i].held /\ writes'[i].state # "done" => i \in Live /\ IsEdit(i)
    BY <2>1 DEF Ordered, Kinds, Live, IsEdit, OnItsWay, Write
  <2>5. Awaits(i, n)'
    BY <1>1, <2>1, <2>4 DEF Awaits, IsRestore
  <2> QED BY <2>3, <2>5
<1>8. Queues'
  <2>1. ASSUME NEW i \in Ids', NEW j \in Ids', i < j, writes'[i].graph = writes'[j].graph
        PROVE  Behind(i, j)' /\ Awaits(i, j)'
    <3>1. i \in Ids
      <4>1. (i \in Ids \/ i = n) /\ (j \in Ids \/ j = n)
        BY <1>2, <2>1
      <4>2. CASE i = n
        <5>1. j < n \/ j = n
          BY <1>2, <4>1
        <5>2. j \in Nat
          BY <1>2, <4>1
        <5> QED BY <2>1, <4>2, <5>1, <5>2
      <4> QED BY <4>1, <4>2
    <3> QED BY <1>2, <1>6, <1>7, <2>1, <3>1
  <2> QED BY <2>1 DEF Queues
<1>9. InOrder'
  <2>1. ASSUME NEW i \in TookIds, NEW j \in TookIds, Swapped(i, j)' PROVE IsEdit(i)' /\ writes'[i].held
    <3>1. Swapped(i, j) /\ writes'[i] = writes[i]
      BY <1>2, <1>4, <2>1 DEF Swapped
    <3> QED BY <3>1 DEF Ordered, InOrder, IsEdit
  <2> QED BY <1>4, <2>1 DEF InOrder
<1> QED BY <1>5, <1>8, <1>9 DEF Ordered

\* A step that moves each write onward, and takes none, keeps the order.
LEMMA OnwardKeepsOrder ==
  ASSUME Types, Types', Fenced, Ordered, Ids' = Ids, \A j \in Ids : Onward(j), nebula'.took = nebula.took
  PROVE  Ordered'
<1>1. TookIds' = TookIds
  BY DEF TookIds
<1>2. Takes
  BY <1>1 DEF Takes
<1>3. Queues'
  BY <1>2, QueuesStep DEF Ordered
<1>4. Kinds'
  BY <1>1, KindsStep DEF Ordered
<1> QED BY <1>3, <1>4, OrderKept DEF Ordered

\* What Nebula takes was on its way, and everything before it is resolved.
LEMMA DeliverKeepsOrder ==
  ASSUME Types, Types', Fenced, Ordered, NEW i \in Ids, Deliver(i)
  PROVE  Ordered'
<1>1. Ids' = Ids /\ \A j \in Ids : Onward(j)
  BY DeliverOnward
<1>2. CASE nebula'.took = nebula.took
  BY <1>1, <1>2, OnwardKeepsOrder
<1>3. CASE nebula'.took # nebula.took
  <2>1. /\ writes[i].state \in {"sent", "late"} /\ writes'[i].state \in {"done", "ok", "refused"}
        /\ nebula'.took = Append(nebula.took, [id |-> i, canvas |-> nebula.canvas])
    BY <1>3, DeliverFacts
  <2>2. nebula.canvas \in Nat
    BY DEF Types
  <2>3. InOrder' /\ TookIds' = TookIds \cup {i}
    BY <1>1, <2>1, <2>2, OrderTaken DEF Ordered
  <2>4. Takes
    BY <2>1, <2>3 DEF Takes
  <2>5. Queues'
    BY <1>1, <2>4, QueuesStep DEF Ordered
  <2>6. Kinds'
    BY <1>1, <2>1, <2>3, KindsStep DEF Ordered
  <2> QED BY <2>3, <2>5, <2>6 DEF Ordered
<1> QED BY <1>2, <1>3

\* So does every other step.
LEMMA OrderedNext ==
  ASSUME Types, Fenced, Ordered, [Next]_vars
  PROVE  Ordered'
<1>1. Types'
  BY FencedNext
<1>2. CASE Edit \/ Undo
  BY <1>2, NewKeepsOrder
<1>3. ASSUME NEW i \in Ids, Deliver(i) PROVE Ordered'
  BY <1>1, <1>3, DeliverKeepsOrder
<1>4. ASSUME NEW i \in Ids, EditsTurn(i) PROVE Ordered'
  BY <1>1, <1>4, EditsTurnOnward, OnwardKeepsOrder DEF EditsTurn
<1>5. ASSUME NEW i \in Ids, RestoresTurn(i) PROVE Ordered'
  <2>1. nebula'.took = nebula.took /\ Kinds
    BY <1>5 DEF RestoresTurn, Ordered
  <2> QED BY <1>1, <1>5, <2>1, RestoresTurnOnward, OnwardKeepsOrder
<1>6. ASSUME NEW i \in Ids, AnswersLimit(i) PROVE Ordered'
  BY <1>1, <1>6, AnswersLimitOnward, OnwardKeepsOrder DEF AnswersLimit
<1>7. ASSUME NEW i \in Ids, Fail(i) PROVE Ordered'
  BY <1>1, <1>7, FailOnward, OnwardKeepsOrder DEF Fail
<1>8. ASSUME NEW i \in Ids, RestoreTimesOut(i) PROVE Ordered'
  <2>1. PICK state \in {"done", "late"} :
          Settled(i, state, FALSE) /\ (state = "late" => writes[i].state = "sent" /\ IsRestore(i))
    BY <1>8 DEF RestoreTimesOut
  <2>2. writes[i].state \in OnItsWay /\ nebula'.took = nebula.took
    BY <1>8 DEF RestoreTimesOut
  <2>3. Ids' = Ids /\ \A j \in Ids : Onward(j)
    BY <2>1, <2>2, SettledOnward
  <2> QED BY <1>1, <2>2, <2>3, OnwardKeepsOrder
<1>9. ASSUME NEW i \in Ids, Answered(i) PROVE Ordered'
  <2>1. writes[i].state \in OnItsWay /\ Settled(i, "done", writes[i].state = "ok") /\ nebula'.took = nebula.took
    BY <1>9 DEF Answered, OnItsWay
  <2>2. Ids' = Ids /\ \A j \in Ids : Onward(j)
    BY <2>1, SettledOnward
  <2> QED BY <1>1, <2>1, <2>2, OnwardKeepsOrder
<1>10. ASSUME NEW t, GateOpens(t), nebula'.took = nebula.took PROVE Ordered'
  BY <1>1, <1>10, GateOpensOnward, OnwardKeepsOrder
<1>11. CASE SwitchFails \/ PersonSwitched \/ Followed \/ FollowFails
  BY <1>10, <1>11 DEF SwitchFails, PersonSwitched, Followed, FollowFails
<1>12. CASE DrainLimit
  BY <1>1, <1>12, DrainLimitOnward, OnwardKeepsOrder DEF DrainLimit
<1>13. CASE writes' = writes /\ nebula'.took = nebula.took
  <2>1. Ids' = Ids /\ \A j \in Ids : Onward(j)
    BY <1>13, OnwardIfSame DEF Ids
  <2> QED BY <1>1, <1>13, <2>1, OnwardKeepsOrder
<1>14. CASE PersonSwitches \/ Drained \/ NebulaOpens \/ AgentReplaces
  <2>1. \A rev \in Nat : Replaces(rev) => nebula'.took = nebula.took
    BY ReplacesTyped
  <2>2. nebula.rev + 1 \in Nat /\ nebula.rev \in Nat
    BY DEF Types
  <2>3. writes' = writes /\ nebula'.took = nebula.took
    BY <1>14, <2>1, <2>2 DEF PersonSwitches, Drained, NebulaOpens, AgentReplaces
  <2> QED BY <1>13, <2>3
<1>15. CASE ReceiveSync \/ UNCHANGED vars
  BY <1>13, <1>15 DEF ReceiveSync, vars
<1> QED BY <1>2, <1>3, <1>4, <1>5, <1>6, <1>7, <1>8, <1>9, <1>11, <1>12, <1>14, <1>15 DEF Next, Turn

\* There is nothing to order at first.
LEMMA InitOrdered == Init => Ordered
<1>1. ASSUME Init PROVE Ids = {} /\ TookIds = {}
  <2>1. writes = <<>> /\ nebula.took = <<>>
    BY <1>1 DEF Init
  <2>2. DOMAIN <<>> = {}
    OBVIOUS
  <2> QED BY <2>1, <2>2 DEF Ids, TookIds
<1> QED BY <1>1 DEF Ordered, Kinds, Queues, InOrder

\* Nebula applies a canvas's edits and undos in the order they were made, whatever replaced
\* the canvas or was slow meanwhile; but for the two cases InOrder sets apart
\* (sendRestore, writesAnsweredNow and openWriteGate of graphStore.ts).
THEOREM InOrderAlways == Spec => []InOrder
<1>1. Types /\ Fenced /\ Ordered => InOrder
  BY DEF Ordered
<1> QED BY InitFenced, InitOrdered, FencedNext, OrderedNext, <1>1, PTL DEF Spec

-----------------------------------------------------------------------------
(* The type invariant. *)

\* Where a write stands: what it is behind and what it waits for were there before it, and
\* the gate that holds it closed before it was admitted.
Placed(i) ==
  /\ writes[i].after \subseteq Ids \ {i} /\ writes[i].answers \subseteq 1..(i - 1)
  /\ IsEdit(i) => writes[i].answers = {}
  /\ writes[i].state = "gated" => gate # 0 /\ gate <= i

\* The places, and what the switch and the lines speak of.
Arranged ==
  /\ Len(writes) <= MaxWrites /\ \A i \in Ids : Placed(i)
  /\ gate <= Len(writes) + 1 /\ (gate = 0) = (switch.phase \in {"none", "home"})
  /\ switch.watching \subseteq Live /\ switch.cut \subseteq Ids
  /\ told \cup handed \cup passed \subseteq Ids

\* A step that leaves a write in its place, and one that leaves it on its way.
Stays(j) ==
  /\ writes'[j].kind = writes[j].kind
  /\ writes'[j].answers \subseteq writes[j].answers /\ writes'[j].after \subseteq Ids \ {j}
  /\ writes'[j].state = "gated" => writes[j].state = "gated" \/ (gate # 0 /\ gate <= j)
Lives(j) == j \in Live => writes'[j].state \in OnItsWay \cup {"waiting"}

\* A write that is where it was stays there.
LEMMA SameStays ==
  ASSUME NEW j \in Ids, Placed(j), writes'[j] = writes[j]
  PROVE  Stays(j) /\ Lives(j)
BY DEF Stays, Lives, Placed, Live

\* One write changes: the others stay.
LEMMA OneStays ==
  ASSUME Types, \A j \in Ids : Placed(j), NEW i \in Ids, NEW v \in Write,
         writes' = [writes EXCEPT ![i] = v], v.kind = writes[i].kind,
         v.answers \subseteq writes[i].answers, v.after \subseteq writes[i].after,
         v.state = "gated" => writes[i].state = "gated" \/ (gate # 0 /\ gate <= i)
  PROVE  /\ Ids' = Ids /\ \A j \in Ids : Stays(j)
         /\ \A j \in Ids \ {i} : Lives(j)
         /\ writes'[i] = v
<1>1. Ids' = Ids /\ writes'[i] = v /\ \A j \in Ids \ {i} : writes'[j] = writes[j]
  BY ChangeFacts
<1>2. Stays(i)
  BY <1>1 DEF Stays, Placed
<1>3. \A j \in Ids \ {i} : Stays(j) /\ Lives(j)
  BY <1>1, SameStays
<1> QED BY <1>1, <1>2, <1>3

\* send changes nothing of a write's place.
LEMMA SentPlace ==
  ASSUME NEW w \in Write, NEW t
  PROVE  /\ Sent(w, t) \in Write /\ Sent(w, t).kind = w.kind /\ Sent(w, t).answers = w.answers
         /\ Sent(w, t).after = w.after /\ Sent(w, t).state \in {"sent", "refused"}
<1>1. Sent(w, t).after = w.after
  BY DEF Sent, Write
<1> QED BY <1>1, SentFacts, SentFrom

\* The steps of a write's own that settle nothing.
LEMMA StepStays ==
  ASSUME Types, \A j \in Ids : Placed(j), NEW i \in Ids,
         Turn(i) \/ AnswersLimit(i) \/ Deliver(i) \/ Fail(i)
  PROVE  /\ Ids' = Ids /\ \A j \in Ids : Stays(j) /\ Lives(j)
         /\ RestoresTurn(i) /\ switch' # switch => writes'[i].state \in {"sent", "refused"}
<1>1. writes[i] \in Write
  BY IdsFacts
<1> DEFINE w == [writes[i] EXCEPT !.after = {}]
           g == [writes[i] EXCEPT !.state = "gated", !.after = {}]
           s == Sent(w, tab)
           a == [writes[i] EXCEPT !.answers = {}, !.limit = TRUE]
           d(x) == [writes[i] EXCEPT !.state = x]
<1>2. w \in Write /\ w.kind = writes[i].kind /\ w.answers = writes[i].answers /\ w.after = {}
  BY <1>1 DEF Write
<1>3. /\ g \in Write /\ g.kind = writes[i].kind /\ g.answers = writes[i].answers
      /\ g.after = {} /\ g.state = "gated"
  BY <1>1 DEF Write
<1>4. /\ a \in Write /\ a.kind = writes[i].kind /\ a.answers = {} /\ a.after = writes[i].after
      /\ a.state = writes[i].state
  BY <1>1 DEF Write
<1>5. ASSUME NEW x \in {"ok", "refused", "done"}
      PROVE  /\ d(x) \in Write /\ d(x).kind = writes[i].kind /\ d(x).answers = writes[i].answers
             /\ d(x).after = writes[i].after /\ d(x).state = x
  BY <1>1 DEF Write
<1> HIDE DEF w
<1>6. /\ s \in Write /\ s.kind = writes[i].kind /\ s.answers = writes[i].answers
      /\ s.after = {} /\ s.state \in {"sent", "refused"}
  BY <1>2, SentPlace
<1>7. CASE EditsTurn(i)
  <2>1. writes' = [writes EXCEPT ![i] = s] /\ switch' = switch
    BY <1>7 DEF EditsTurn, w
  <2>2. ~RestoresTurn(i) \/ switch' = switch
    BY <2>1
  <2> HIDE DEF s
  <2>3. Ids' = Ids /\ (\A j \in Ids : Stays(j)) /\ (\A j \in Ids \ {i} : Lives(j)) /\ writes'[i] = s
    BY <1>6, <2>1, OneStays
  <2> QED BY <1>6, <2>2, <2>3 DEF Lives, OnItsWay
<1>8. CASE RestoresTurn(i)
  <2>1. CASE gate # 0 /\ gate <= i
    <3>1. writes' = [writes EXCEPT ![i] = g] /\ switch' = switch /\ writes[i].state = "queued"
      BY <1>8, <2>1 DEF RestoresTurn
    <3> HIDE DEF g
    <3>2. Ids' = Ids /\ (\A j \in Ids : Stays(j)) /\ (\A j \in Ids \ {i} : Lives(j))
      BY <1>3, <2>1, <3>1, OneStays
    <3>3. Lives(i)
      BY <3>1 DEF Lives, Live, OnItsWay
    <3> QED BY <3>1, <3>2, <3>3
  <2>2. CASE ~(gate # 0 /\ gate <= i)
    <3>1. writes' = [writes EXCEPT ![i] = s]
      BY <1>8, <2>2 DEF RestoresTurn, w
    <3> HIDE DEF s
    <3>2. Ids' = Ids /\ (\A j \in Ids : Stays(j)) /\ (\A j \in Ids \ {i} : Lives(j)) /\ writes'[i] = s
      BY <1>6, <3>1, OneStays
    <3> QED BY <1>6, <3>2 DEF Lives, OnItsWay
  <2> QED BY <2>1, <2>2
<1>9. CASE AnswersLimit(i)
  <2>1. writes' = [writes EXCEPT ![i] = a] /\ switch' = switch /\ writes[i].state = "queued"
    BY <1>9 DEF AnswersLimit
  <2> HIDE DEF a
  <2>2. Ids' = Ids /\ (\A j \in Ids : Stays(j)) /\ (\A j \in Ids \ {i} : Lives(j))
    BY <1>4, <2>1, OneStays
  <2>3. Lives(i)
    BY <2>1 DEF Lives, Live, OnItsWay
  <2> QED BY <2>1, <2>2, <2>3
<1>10. CASE Deliver(i) \/ Fail(i)
  <2>1. PICK x \in {"ok", "refused", "done"} :
          /\ writes' = [writes EXCEPT ![i] = d(x)] /\ switch' = switch
          /\ writes[i].state \in {"sent", "late", "ok"} /\ (x = "done" => writes[i].state = "late")
    BY <1>10 DEF Deliver, Fail
  <2> DEFINE v == d(x)
  <2>2. /\ v \in Write /\ v.kind = writes[i].kind /\ v.answers = writes[i].answers
        /\ v.after = writes[i].after /\ v.state = x
    BY <1>5
  <2>3. writes' = [writes EXCEPT ![i] = v]
    BY <2>1
  <2> HIDE DEF v
  <2>4. Ids' = Ids /\ (\A j \in Ids : Stays(j)) /\ (\A j \in Ids \ {i} : Lives(j)) /\ writes'[i] = v
    BY <2>2, <2>3, OneStays
  <2>5. Lives(i)
    BY <2>1, <2>2, <2>4 DEF Lives, Live, OnItsWay
  <2> QED BY <2>1, <2>4, <2>5
<1> QED BY <1>7, <1>8, <1>9, <1>10 DEF Turn

\* settleTracked: the write it settles leaves those on their way, and no other.
LEMMA SettledStays ==
  ASSUME Types, \A j \in Ids : Placed(j), NEW i \in Ids, NEW state \in {"done", "late"}, NEW ok \in BOOLEAN,
         Settled(i, state, ok)
  PROVE  /\ Ids' = Ids /\ (\A j \in Ids : Stays(j)) /\ \A j \in Ids \ {i} : Lives(j)
         /\ switch'.watching = switch.watching \ {i} /\ switch'.cut \subseteq switch.cut \cup {i}
         /\ switch'.phase = switch.phase
<1> DEFINE c == writes[i].counted \/ (~ok /\ i \in switch.watching)
           m == writes[i].limit \/ state = "late"
           v == [writes[i] EXCEPT !.state = state, !.limit = m, !.counted = c]
           u(j) == [writes[j] EXCEPT !.answers = @ \ {i}]
           f == [j \in Ids |-> IF j = i THEN v ELSE u(j)]
<1>1. writes' = f
  BY DEF Settled
<1>2. c \in BOOLEAN /\ m \in BOOLEAN
  BY IdsFacts DEF Write
<1> HIDE DEF c, m
<1>3. /\ v \in Write /\ v.kind = writes[i].kind /\ v.answers = writes[i].answers
      /\ v.after = writes[i].after /\ v.state = state
  BY <1>2, IdsFacts DEF Write
<1>4. ASSUME NEW j \in Ids
      PROVE  /\ u(j) \in Write /\ u(j).kind = writes[j].kind /\ u(j).answers \subseteq writes[j].answers
             /\ u(j).after = writes[j].after /\ u(j).state = writes[j].state
  BY IdsFacts DEF Write
<1> HIDE DEF v, u
<1>5. f \in [Ids -> Write]
  BY <1>3, <1>4
<1>6. Ids' = Ids /\ writes'[i] = v /\ \A j \in Ids \ {i} : writes'[j] = u(j)
  BY <1>1, <1>5, AllFacts
<1>7. \A j \in Ids \ {i} : Stays(j) /\ Lives(j)
  BY <1>4, <1>6 DEF Stays, Lives, Placed, Live
<1>8. Stays(i)
  BY <1>3, <1>6 DEF Stays, Placed
<1>9. /\ switch'.watching = switch.watching \ {i} /\ switch'.cut \subseteq switch.cut \cup {i}
      /\ switch'.phase = switch.phase
  BY DEF Settled, Types
<1> QED BY <1>6, <1>7, <1>8, <1>9

\* The gate opens: an edit it held goes behind writes that were there, itself not among them.
LEMMA GateOpensStays ==
  ASSUME Types, \A j \in Ids : Placed(j), NEW t, GateOpens(t)
  PROVE  Ids' = Ids /\ \A j \in Ids : Stays(j) /\ Lives(j)
<1> DEFINE held(i)  == writes[i].state = "gated"
           here(i)  == writes[i].graph = t.graph
           ahead(i) == {j \in Ids : here(j) /\ (Pressed(j) \/ writes[j].state = "waiting"
                                                \/ (held(j) /\ IsEdit(j) /\ j < i))}
           behind(i) == {j \in Ids : here(j) /\ (Pressed(j) \/ writes[j].state = "waiting")}
           atOnce(i) == IsRestore(i) \/ ~StillAdmitted(writes[i], t) \/ behind(i) = {}
           s(i) == Sent(writes[i], t)
           b(i) == [writes[i] EXCEPT !.state = "waiting", !.after = ahead(i)]
           f == [i \in Ids |-> IF ~held(i) THEN writes[i] ELSE IF atOnce(i) THEN s(i) ELSE b(i)]
<1>1. writes' = f
  BY DEF GateOpens
<1>2. ASSUME NEW i \in Ids
      PROVE  /\ b(i) \in Write /\ b(i).kind = writes[i].kind /\ b(i).answers = writes[i].answers
             /\ b(i).after = ahead(i) /\ b(i).state = "waiting"
  <2>1. ahead(i) \in SUBSET Nat /\ writes[i] \in Write
    BY IdsFacts
  <2> HIDE DEF ahead
  <2> QED BY <2>1 DEF Write
<1>3. ASSUME NEW i \in Ids, held(i), ~IsRestore(i) PROVE ahead(i) \subseteq Ids \ {i}
  <2>1. ~Pressed(i) /\ writes[i].state # "waiting"
    BY <1>3 DEF Pressed
  <2>2. ~(i < i)
    BY IdsFacts
  <2> QED BY <2>1, <2>2
<1>4. ASSUME NEW i \in Ids
      PROVE  /\ s(i) \in Write /\ s(i).kind = writes[i].kind /\ s(i).answers = writes[i].answers
             /\ s(i).after = writes[i].after /\ s(i).state \in {"sent", "refused"}
  BY IdsFacts, SentPlace
<1> HIDE DEF s, b, ahead, behind
<1>5. f \in [Ids -> Write]
  BY <1>2, <1>4, IdsFacts
<1>6. /\ Ids' = Ids
      /\ \A j \in Ids : writes'[j] = IF ~held(j) THEN writes[j] ELSE IF atOnce(j) THEN s(j) ELSE b(j)
  BY <1>1, <1>5, AllFacts
<1>7. ASSUME NEW i \in Ids PROVE Stays(i) /\ Lives(i)
  <2>1. CASE ~held(i)
    BY <1>6, <2>1, SameStays
  <2>2. CASE held(i) /\ atOnce(i)
    BY <1>4, <1>6, <2>2 DEF Stays, Lives, Placed, OnItsWay
  <2>3. CASE held(i) /\ ~atOnce(i)
    BY <1>2, <1>3, <1>6, <2>3 DEF Stays, Lives, OnItsWay
  <2> QED BY <2>1, <2>2, <2>3
<1> QED BY <1>6, <1>7

\* The drain's limit moves no write.
LEMMA DrainLimitStays ==
  ASSUME Types, \A j \in Ids : Placed(j), DrainLimit
  PROVE  Ids' = Ids /\ \A j \in Ids : Stays(j) /\ Lives(j)
<1> DEFINE c(i) == writes[i].counted \/ i \in switch.watching
           v(i) == [writes[i] EXCEPT !.counted = c(i)]
           f == [i \in Ids |-> v(i)]
<1>1. writes' = f
  BY DEF DrainLimit
<1>2. ASSUME NEW i \in Ids
      PROVE  /\ v(i) \in Write /\ v(i).kind = writes[i].kind /\ v(i).answers = writes[i].answers
             /\ v(i).after = writes[i].after /\ v(i).state = writes[i].state
  <2>1. c(i) \in BOOLEAN /\ writes[i] \in Write
    BY IdsFacts DEF Write
  <2> HIDE DEF c
  <2> QED BY <2>1 DEF Write
<1> HIDE DEF v
<1>3. f \in [Ids -> Write]
  BY <1>2
<1>4. Ids' = Ids /\ \A j \in Ids : writes'[j] = v(j)
  BY <1>1, <1>3, AllFacts
<1> QED BY <1>2, <1>4 DEF Stays, Lives, Placed, Live

\* Writes that stay are placed as before, if the gate is closed as before or holds none.
LEMMA PlacesKept ==
  ASSUME Types, Types', Ids' = Ids, \A j \in Ids : Placed(j) /\ Stays(j),
         gate' = gate \/ \A j \in Ids : writes'[j].state # "gated"
  PROVE  Len(writes') = Len(writes) /\ \A j \in Ids' : Placed(j)'
<1>1. Len(writes) \in Nat /\ Ids = 1..Len(writes)
  BY IdsFacts
<1>2. Len(writes') \in Nat /\ Ids' = 1..Len(writes')
  BY LenProperties DEF Types, Ids
<1>3. Len(writes') = Len(writes)
  BY <1>1, <1>2
<1>4. ASSUME NEW j \in Ids PROVE Placed(j)'
  <2>1. writes'[j].answers \subseteq 1..(j - 1) /\ writes'[j].after \subseteq Ids \ {j}
    BY DEF Placed, Stays
  <2>2. IsEdit(j)' => writes'[j].answers = {}
    BY DEF Placed, Stays, IsEdit
  <2>3. writes'[j].state = "gated" => gate' # 0 /\ gate' <= j
    BY DEF Placed, Stays
  <2> QED BY <2>1, <2>2, <2>3 DEF Placed
<1> QED BY <1>3, <1>4

\* A new write has its place behind the others.
LEMMA AppendPlaced ==
  ASSUME Types, Arranged, Types', NEW w \in Write, writes' = Append(writes, w), Len(writes) < MaxWrites,
         w.after \subseteq Ids, w.answers \subseteq Ids, w.kind = "edit" => w.answers = {},
         w.state = "gated" => gate # 0, UNCHANGED <<gate, switch, told, handed, passed>>
  PROVE  Arranged'
<1> DEFINE n == Len(writes) + 1
<1>1. /\ Len(writes) \in Nat /\ Ids = 1..Len(writes) /\ Ids' = Ids \cup {n} /\ n \notin Ids
      /\ writes'[n] = w /\ \A i \in Ids : writes'[i] = writes[i]
  BY AppendFacts, IdsFacts
<1>2. Len(writes') = n
  BY <1>1, AppendProperties DEF Types
<1>3. gate \in Nat /\ MaxWrites \in Nat /\ gate <= n
  BY CanvasWritesAssumption DEF Types, Arranged
<1>4. n <= MaxWrites /\ gate <= n + 1 /\ Ids = 1..(n - 1)
  BY <1>1, <1>3
<1> HIDE DEF n
<1>5. ASSUME NEW i \in Ids' PROVE Placed(i)'
  <2>1. CASE i \in Ids
    <3>1. Placed(i) /\ writes'[i] = writes[i]
      BY <1>1, <2>1 DEF Arranged
    <3> QED BY <1>1, <3>1 DEF Placed, IsEdit
  <2>2. CASE i = n
    <3>1. w.after \subseteq Ids' \ {n} /\ w.answers \subseteq 1..(n - 1)
      BY <1>1, <1>4
    <3> QED BY <1>1, <1>3, <2>2, <3>1 DEF Placed, IsEdit
  <2> QED BY <1>1, <2>1, <2>2
<1>6. Live \subseteq Live'
  BY <1>1 DEF Live
<1>7. /\ switch'.watching \subseteq Live' /\ switch'.cut \subseteq Ids'
      /\ told' \cup handed' \cup passed' \subseteq Ids'
  BY <1>1, <1>6 DEF Arranged
<1>8. Len(writes') <= MaxWrites /\ gate' <= Len(writes') + 1
  BY <1>2, <1>4
<1>9. (gate' = 0) = (switch'.phase \in {"none", "home"})
  BY DEF Arranged
<1> QED BY <1>5, <1>7, <1>8, <1>9 DEF Arranged

\* The person's writes.
LEMMA NewArranged ==
  ASSUME Types, Types', Arranged, Edit \/ Undo
  PROVE  Arranged'
<1> DEFINE B == Pending \cup Waiting
           A == {i \in Live : IsEdit(i) /\ Here(i)}
           e == Admission("edit", "waiting")
           u == Admission("restore", "queued")
           g == [e EXCEPT !.state = "gated", !.held = TRUE]
           b == [e EXCEPT !.after = B]
           r == [u EXCEPT !.after = B, !.answers = A]
           s == Sent(e, tab)
<1>1. B \subseteq Ids /\ A \subseteq Ids /\ B \subseteq Nat /\ A \subseteq Nat
  BY IdsFacts DEF Pending, Waiting, Live
<1>2. Len(writes) < MaxWrites /\ UNCHANGED <<gate, switch, told, handed, passed>>
  BY DEF Edit, Undo, Acts, past
<1>3. e \in Write /\ e.kind = "edit" /\ e.answers = {} /\ e.after = {} /\ e.state = "waiting"
  BY AdmissionFacts DEF Admission
<1>4. u \in Write /\ u.kind = "restore"
  BY AdmissionFacts
<1>5. \/ writes' = Append(writes, g) /\ gate # 0
      \/ writes' = Append(writes, s) \/ writes' = Append(writes, b) \/ writes' = Append(writes, r)
  BY DEF Edit, Undo
<1> HIDE DEF e, u, A, B
<1>6. g \in Write /\ g.kind = "edit" /\ g.answers = {} /\ g.after = {}
  BY <1>3 DEF Write
<1>7. b \in Write /\ b.kind = "edit" /\ b.answers = {} /\ b.after = B /\ b.state = "waiting"
  BY <1>1, <1>3 DEF Write
<1>8. s \in Write /\ s.kind = "edit" /\ s.answers = {} /\ s.after = {} /\ s.state \in {"sent", "refused"}
  BY <1>3, SentPlace
<1>9. r \in Write /\ r.kind = "restore" /\ r.answers = A /\ r.after = B
  BY <1>1, <1>4 DEF Write
<1>10. r.state = "queued"
  BY <1>4, AdmissionFacts DEF Write, u
<1> HIDE DEF g, b, s, r
<1>11. CASE writes' = Append(writes, g) /\ gate # 0
  BY <1>2, <1>6, <1>11, AppendPlaced
<1>12. CASE writes' = Append(writes, s)
  BY <1>2, <1>8, <1>12, AppendPlaced
<1>13. CASE writes' = Append(writes, b)
  BY <1>1, <1>2, <1>7, <1>13, AppendPlaced
<1>14. CASE writes' = Append(writes, r)
  BY <1>1, <1>2, <1>9, <1>10, <1>14, AppendPlaced
<1> QED BY <1>5, <1>11, <1>12, <1>13, <1>14

\* The steps of one write.
LEMMA StepsArranged ==
  ASSUME Types, Types', Arranged, NEW i \in Ids, Steps(i)
  PROVE  Arranged'
<1>1. \A j \in Ids : Placed(j)
  BY DEF Arranged
<1>2. CASE Turn(i) \/ AnswersLimit(i) \/ Deliver(i) \/ Fail(i)
  <2>1. /\ Ids' = Ids /\ \A j \in Ids : Stays(j) /\ Lives(j)
        /\ RestoresTurn(i) /\ switch' # switch => writes'[i].state \in {"sent", "refused"}
    BY <1>1, <1>2, StepStays
  <2>2. gate' = gate /\ UNCHANGED <<told, handed, passed>>
    BY <1>2 DEF Turn, EditsTurn, RestoresTurn, AnswersLimit, Deliver, Fail, past
  <2>3. Len(writes') = Len(writes) /\ \A j \in Ids' : Placed(j)'
    BY <1>1, <2>1, <2>2, PlacesKept
  <2>4. switch' = switch \/ (RestoresTurn(i) /\ switch' = [switch EXCEPT !.watching = @ \cup {i}])
    BY <1>2 DEF Turn, EditsTurn, RestoresTurn, AnswersLimit, Deliver, Fail
  <2>5. Live \subseteq Live'
    BY <2>1 DEF Live, Lives
  <2>6. /\ switch'.watching \subseteq Live' /\ switch'.cut \subseteq Ids'
        /\ switch'.phase = switch.phase
    <3>1. CASE switch' = switch
      BY <2>1, <2>5, <3>1 DEF Arranged
    <3>2. CASE switch' # switch
      <4>1. i \in Live'
        BY <2>1, <2>4, <3>2 DEF Live, OnItsWay
      <4>2. /\ switch'.watching = switch.watching \cup {i} /\ switch'.cut = switch.cut
            /\ switch'.phase = switch.phase
        BY <2>4, <3>2 DEF Types
      <4> QED BY <2>1, <2>5, <4>1, <4>2 DEF Arranged
    <3> QED BY <3>1, <3>2
  <2>7. told' \cup handed' \cup passed' \subseteq Ids' /\ gate' <= Len(writes') + 1 /\ Len(writes') <= MaxWrites
    BY <2>1, <2>2, <2>3 DEF Arranged
  <2>8. (gate' = 0) = (switch'.phase \in {"none", "home"})
    BY <2>2, <2>6 DEF Arranged
  <2> QED BY <2>3, <2>6, <2>7, <2>8 DEF Arranged
<1>3. CASE RestoreTimesOut(i) \/ Answered(i)
  <2>1. PICK state \in {"done", "late"}, ok \in BOOLEAN : Settled(i, state, ok)
    BY <1>3 DEF RestoreTimesOut, Answered
  <2>2. /\ Ids' = Ids /\ (\A j \in Ids : Stays(j)) /\ \A j \in Ids \ {i} : Lives(j)
        /\ switch'.watching = switch.watching \ {i} /\ switch'.cut \subseteq switch.cut \cup {i}
        /\ switch'.phase = switch.phase
    BY <1>1, <2>1, SettledStays
  <2>3. gate' = gate /\ UNCHANGED <<handed, passed>> /\ told' \subseteq told \cup {i}
    BY <1>3 DEF RestoreTimesOut, Answered, past
  <2>4. Len(writes') = Len(writes) /\ \A j \in Ids' : Placed(j)'
    BY <1>1, <2>2, <2>3, PlacesKept
  <2>5. Live \ {i} \subseteq Live'
    BY <2>2 DEF Live, Lives
  <2>6. switch'.watching \subseteq Live' /\ switch'.cut \subseteq Ids'
    BY <2>2, <2>5 DEF Arranged
  <2>7. told' \cup handed' \cup passed' \subseteq Ids' /\ gate' <= Len(writes') + 1 /\ Len(writes') <= MaxWrites
    BY <2>2, <2>3, <2>4 DEF Arranged
  <2>8. (gate' = 0) = (switch'.phase \in {"none", "home"})
    BY <2>2, <2>3 DEF Arranged
  <2> QED BY <2>4, <2>6, <2>7, <2>8 DEF Arranged
<1> QED BY <1>2, <1>3 DEF Steps

\* The gate opens when a switch ends.
LEMMA OpensArranged ==
  ASSUME Types, Types', Arranged, NEW t, GateOpens(t), switch'.phase \in {"none", "home"},
         switch'.watching = {}, switch'.cut = {}, UNCHANGED handed,
         told' \subseteq told \cup switch.cut, passed' \subseteq passed \cup switch.cut
  PROVE  Arranged'
<1>1. Ids' = Ids /\ (\A j \in Ids : Placed(j) /\ Stays(j)) /\ gate' = 0 /\ \A j \in Ids : writes'[j].state # "gated"
  BY GateOpensStays, GateOpensFacts DEF Arranged
<1>2. Len(writes') = Len(writes) /\ \A j \in Ids' : Placed(j)'
  BY <1>1, PlacesKept
<1>3. told' \cup handed' \cup passed' \subseteq Ids' /\ Len(writes') <= MaxWrites
  BY <1>1, <1>2 DEF Arranged
<1>4. gate' <= Len(writes') + 1
  BY <1>1, <1>2, IdsFacts
<1> QED BY <1>1, <1>2, <1>3, <1>4 DEF Arranged

\* The switches, and what they leave.
LEMMA SwitchArranged ==
  ASSUME Types, Types', Arranged, SwitchFails \/ PersonSwitched \/ Followed \/ FollowFails
  PROVE  Arranged'
<1>1. PICK t : GateOpens(t)
  BY DEF SwitchFails, PersonSwitched, Followed, FollowFails
<1>2. /\ switch'.phase \in {"none", "home"} /\ switch'.watching = {} /\ switch'.cut = {} /\ UNCHANGED handed
      /\ told' \subseteq told \cup switch.cut /\ passed' \subseteq passed \cup switch.cut
  BY DEF SwitchFails, PersonSwitched, Followed, FollowFails, NoSwitch, past
<1> QED BY <1>1, <1>2, OpensArranged

\* Steps that leave the writes where they are.
LEMMA RestArranged ==
  ASSUME Types, Types', Arranged,
         PersonSwitches \/ Drained \/ NebulaOpens \/ AgentReplaces \/ ReceiveSync \/ UNCHANGED vars
  PROVE  Arranged'
<1>1. writes' = writes /\ Ids' = Ids /\ Live' = Live /\ Len(writes) \in Nat /\ Ids = 1..Len(writes)
  <2>1. writes' = writes
    BY DEF PersonSwitches, Drained, NebulaOpens, AgentReplaces, ReceiveSync, vars
  <2> QED BY <2>1, IdsFacts DEF Ids, Live
<1>2. \A i \in Ids : Placed(i) /\ i <= Len(writes) /\ (writes[i].state = "gated" => gate # 0)
  BY <1>1 DEF Arranged, Placed
<1>3. ASSUME gate' = gate PROVE \A i \in Ids' : Placed(i)'
  BY <1>1, <1>2, <1>3 DEF Placed, IsEdit
<1>4. ASSUME gate = 0 PROVE \A i \in Ids' : Placed(i)'
  BY <1>1, <1>2, <1>4 DEF Placed, IsEdit
<1>5. Live \subseteq Ids
  BY DEF Live
<1>6. CASE PersonSwitches
  <2>1. /\ gate = 0 /\ gate' = Len(writes) + 1 /\ switch'.phase = "drain" /\ switch'.watching = Live
        /\ switch'.cut = {} /\ UNCHANGED <<told, handed, passed>>
    BY <1>6 DEF PersonSwitches, NoSwitch, Arranged, past
  <2>2. gate' # 0 /\ gate' <= Len(writes') + 1
    BY <1>1, <2>1
  <2> QED BY <1>1, <1>4, <2>1, <2>2 DEF Arranged
<1>7. CASE Drained \/ NebulaOpens \/ AgentReplaces \/ UNCHANGED vars
  <2>1. /\ gate' = gate /\ switch'.watching = switch.watching /\ switch'.cut = switch.cut
        /\ UNCHANGED <<told, handed, passed>>
        /\ \/ switch'.phase = switch.phase
           \/ switch.phase \in {"drain", "asking"} /\ switch'.phase \in {"asking", "opened"}
    BY <1>7 DEF Drained, NebulaOpens, AgentReplaces, vars, past, Types
  <2> QED BY <1>1, <1>3, <2>1 DEF Arranged
<1>8. CASE ReceiveSync
  <2>1. PICK s : CanvasReplaced(s) \/ AgentSwitched(s) \/ WorkspaceMoved(s) \/ NotForThisTab(s)
    BY <1>8 DEF ReceiveSync
  <2>2. CASE AgentSwitched(s)
    <3>1. /\ gate = 0 /\ gate' = Len(writes) + 1 /\ switch'.phase = "follow" /\ switch'.watching = {}
          /\ switch'.cut = {} /\ told' \cup handed' \cup passed' \subseteq told \cup handed \cup passed \cup Live
      BY <2>2 DEF AgentSwitched, NoSwitch, Arranged
    <3>2. gate' # 0 /\ gate' <= Len(writes') + 1
      BY <1>1, <3>1
    <3>3. told' \cup handed' \cup passed' \subseteq Ids'
      BY <1>1, <1>5, <3>1 DEF Arranged
    <3>4. (gate' = 0) = (switch'.phase \in {"none", "home"})
      BY <3>1, <3>2
    <3> QED BY <1>1, <1>4, <3>1, <3>2, <3>3, <3>4 DEF Arranged
  <2>3. CASE CanvasReplaced(s) \/ WorkspaceMoved(s) \/ NotForThisTab(s)
    <3>1. /\ gate' = gate /\ switch'.watching = switch.watching /\ switch'.cut = switch.cut
          /\ UNCHANGED <<told, handed, passed>>
          /\ \/ switch'.phase = switch.phase
             \/ switch.phase = "none" /\ switch'.phase = "home"
      BY <2>3 DEF CanvasReplaced, WorkspaceMoved, NotForThisTab, past, Types
    <3> QED BY <1>1, <1>3, <3>1 DEF Arranged
  <2> QED BY <2>1, <2>2, <2>3
<1> QED BY <1>6, <1>7, <1>8

\* Every step keeps the arrangement.
LEMMA ArrangedNext ==
  ASSUME Types, Fenced, Arranged, [Next]_vars
  PROVE  Arranged'
<1>1. Types'
  BY FencedNext
<1>2. CASE DrainLimit
  <2>1. Ids' = Ids /\ \A j \in Ids : Placed(j) /\ Stays(j) /\ Lives(j)
    BY <1>2, DrainLimitStays DEF Arranged
  <2>2. /\ gate' = gate /\ UNCHANGED <<told, handed, passed>> /\ switch.phase = "drain"
        /\ switch'.phase = "asking" /\ switch'.watching = {} /\ switch'.cut = switch.cut \cup switch.watching
    BY <1>2 DEF DrainLimit, past, Types
  <2>3. Len(writes') = Len(writes) /\ \A j \in Ids' : Placed(j)'
    BY <1>1, <2>1, <2>2, PlacesKept
  <2>4. Live \subseteq Ids
    BY DEF Live
  <2> QED BY <2>1, <2>2, <2>3, <2>4 DEF Arranged
<1> QED BY <1>1, <1>2, NewArranged, StepsArranged, SwitchArranged, RestArranged DEF Next, Steps

\* The type invariant: what each write waits for was made before it, the gate is closed
\* exactly while a switch is under way and holds only what came after, and a drain watches
\* writes that are still on their way.
THEOREM TypeCorrect == Spec => []TypeOK
<1>1. Init => Arranged
  <2> SUFFICES ASSUME Init PROVE Arranged
    OBVIOUS
  <2>1. writes = <<>> /\ gate = 0 /\ switch = NoSwitch /\ told = {} /\ handed = {} /\ passed = {}
    BY DEF Init
  <2>2. DOMAIN <<>> = {} /\ Len(<<>>) = 0
    OBVIOUS
  <2> QED BY <2>1, <2>2, CanvasWritesAssumption DEF Arranged, NoSwitch, Ids
<1>2. Types /\ Kinds /\ Arranged => TypeOK
  <2> SUFFICES ASSUME Types, Kinds, Arranged PROVE TypeOK
    OBVIOUS
  <2>1. gate \in 0..(MaxWrites + 1)
    BY IdsFacts, CanvasWritesAssumption DEF Types, Arranged
  <2>2. ASSUME NEW i \in Ids
        PROVE  /\ writes[i].kind \in {"edit", "restore"}
               /\ writes[i].state \in OnItsWay \cup {"waiting", "queued", "gated", "late", "done"}
               /\ writes[i].after \subseteq Ids \ {i} /\ writes[i].answers \subseteq 1..(i - 1)
               /\ IsRestore(i) => writes[i].state # "waiting"
               /\ IsEdit(i) => writes[i].state \notin {"queued", "late"} /\ writes[i].answers = {}
               /\ writes[i].state = "gated" => gate # 0 /\ gate <= i
    <3>1. writes[i] \in Write /\ Placed(i)
      BY IdsFacts DEF Arranged
    <3> QED BY <3>1 DEF Write, Placed, Kinds, OnItsWay
  <2>3. switch.phase \in Phases
    BY DEF Types
  <2> QED BY <2>1, <2>2, <2>3 DEF TypeOK, Arranged, Phases
<1>3. Types /\ Fenced /\ Ordered /\ Arranged /\ [Next]_vars => (Types /\ Fenced /\ Ordered /\ Arranged)'
  BY FencedNext, OrderedNext, ArrangedNext
<1>4. Types /\ Ordered /\ Arranged => TypeOK
  BY <1>2 DEF Ordered
<1> QED BY <1>1, <1>3, <1>4, InitFenced, InitOrdered, PTL DEF Spec
=============================================================================

----------------------------- MODULE ParamSaves -----------------------------
(***************************************************************************)
(* A setting typed on a card and its way to the backend and back           *)
(* (frontend/src/store/graphStore.ts): the debounce, the saves on their    *)
(* way, the syncs that arrive meanwhile, the echo that lets an edit go,    *)
(* the save refused after a restart and kept for the next sync, and the    *)
(* replacements of the canvas that cut a save off.                         *)
(*                                                                         *)
(* One tab, one node (n1) with the settings Key, and the backend as the    *)
(* tab meets it: its graph write, its syncs in order, its restarts, and an *)
(* agent that edits, clears and loads.  Every value written is a number of *)
(* its own, its place in "made"; the backend may store its own form of it, *)
(* written -v.                                                             *)
(***************************************************************************)
EXTENDS Integers, Sequences, FiniteSets

CONSTANTS
  Key,        \* the settings of the node
  MaxTyped,   \* bound: values the person types
  MaxAgent,   \* bound: values an agent sets
  MaxCanvas,  \* bound: canvases cleared or loaded
  MaxBoot,    \* bound: restarts of the backend
  MaxGaps,    \* bound: lost connections
  MaxFails,   \* bound: requests refused, or that fail on their way
  MaxTrouble  \* bound: those five together

ASSUME ParamSavesAssumption ==
  {MaxTyped, MaxAgent, MaxCanvas, MaxBoot, MaxGaps, MaxFails, MaxTrouble} \subseteq Nat

VARIABLES
  nebula,    \* the backend: its params, revisions, process and canvas
  syncs,     \* graphSync messages on their way, in order
  socket,    \* whether the tab's socket is open
  tab,       \* the card, and the revision, process and canvas the tab holds
  edit,      \* the node's UnsavedParamEdit
  saved,     \* savedParamValues
  gens,      \* paramEditGen, paramKeyGen, lastPushGen
  timer,     \* paramPushTimers
  parked,    \* parkedParamSaves: "no", "kept" or "due" (to be sent again now)
  requests,  \* PUTs on their way there or back, each with its ParamPush
  made,      \* history: who wrote each value, for which key, on which canvas
  order,     \* history: the values in the order the backend took them
  told,      \* history: values that a line to the person named
  cut,       \* history: values that an import found in their debounce
  late,      \* history: values whose save was refused as out of date
  astray,    \* history: values the backend took on another canvas than theirs
  unowned,   \* history: values a key was handed back on, to a save it is no key of
  mislaid,   \* history: values an answer for a replaced canvas left as last saved
  bounds     \* gaps and fails so far

server == <<nebula, syncs, socket>>
book   == <<edit, saved, gens>>
past   == <<made, order, told, cut, late, astray, unowned, mislaid>>
vars   == <<server, tab, book, timer, parked, requests, past, bounds>>

Value  == -(MaxTyped + MaxAgent)..(MaxTyped + MaxAgent)
Abs(v) == IF v < 0 THEN -v ELSE v
Absent == MaxTyped + MaxAgent + 1   \* no last saved value is known
Fresh  == [k \in Key |-> 0]
NoneSaved == [k \in Key |-> Absent]
NoEdit == [id |-> 0, keys |-> {}, sent |-> <<>>, echoed |-> FALSE,
           before |-> NoneSaved, answered |-> FALSE]
NoGens == [edit |-> 0, key |-> Fresh, push |-> 0]
NoneParked == [state |-> "no", saves |-> {}]
Trouble(max, n) ==  \* one more of a kind is within its bound
  n < max /\ Cardinality({v \in DOMAIN made : made[v].who = "agent"})
             + nebula.canvas + nebula.boot + bounds.gaps + bounds.fails < 2 + MaxTrouble
By(who)   == {v \in DOMAIN made : made[v].who = who}
Carried(r) == {Abs(r.sent[k]) : k \in DOMAIN r.sent}

\* paramPushesOut and inFlight: the saves of this edit whose answer is awaited.
Out == {r \in requests : r.edit = edit.id}
Settled == Out = {} /\ ~timer

TypeOK ==
  /\ nebula.params \in [Key -> Value] /\ tab.params \in [Key -> Value]
  /\ edit.keys \subseteq Key /\ DOMAIN edit.sent \subseteq edit.keys
  /\ (edit = NoEdit) = (edit.keys = {})
  /\ edit = NoEdit => saved = NoneSaved /\ gens = NoGens /\ Out = {}
  /\ \A k \in edit.keys : saved[k] # Absent /\ edit.before[k] # Absent
  /\ \A k \in Key : gens.key[k] <= gens.edit /\ gens.push <= gens.edit
  /\ timer \in BOOLEAN /\ parked.state \in {"no", "kept", "due"}
  /\ \A p, q \in requests : p.id = q.id => p = q
  /\ told \cup cut \cup late \cup astray \cup unowned \cup mislaid \cup parked.saves
       \subseteq 0..Len(made)

Init ==
  /\ nebula = [params |-> Fresh, rev |-> 1, boot |-> 1, canvas |-> 1, shape |-> 1, lost |-> FALSE]
  /\ tab = [params |-> Fresh, rev |-> 1, boot |-> 1, canvas |-> 1, shape |-> 1, graph |-> 1,
            edits |-> 0, pushes |-> 0]
  /\ syncs = <<>> /\ socket = TRUE /\ requests = {}
  /\ edit = NoEdit /\ saved = NoneSaved /\ gens = NoGens
  /\ timer = FALSE /\ parked = NoneParked
  /\ made = <<>> /\ order = <<>> /\ told = {} /\ cut = {} /\ late = {} /\ astray = {}
  /\ unowned = {} /\ mislaid = {}
  /\ bounds = [gaps |-> 0, fails |-> 0]

-----------------------------------------------------------------------------
(* The backend *)

\* A graphSync of the graph as it is now, to an open socket.
Sync(kind) == [kind |-> kind, params |-> nebula'.params, rev |-> nebula'.rev, boot |-> nebula'.boot,
               canvas |-> nebula'.canvas, shape |-> nebula'.shape, lost |-> kind = "hello" /\ nebula'.lost]
Broadcast(kind) == syncs' = IF socket THEN Append(syncs, Sync(kind)) ELSE syncs

\* update_graph_node: refused for another canvas, else merged, and its sync goes out
\* before the answer.  Some values are stored in the backend's own form.
Deliver(r) ==
  /\ r.state = "sent"
  /\ \/ /\ r.rev # nebula.rev
        /\ requests' = (requests \ {r}) \cup {[r EXCEPT !.state = "stale"]}
        /\ UNCHANGED <<nebula, syncs, order, astray>>
     \/ /\ r.rev = nebula.rev
        /\ \E own \in SUBSET DOMAIN r.sent :
             nebula' = [nebula EXCEPT !.params =
                         [k \in Key |-> IF k \notin DOMAIN r.sent THEN @[k]
                                        ELSE IF k \in own THEN -Abs(r.sent[k]) ELSE r.sent[k]]]
        /\ Broadcast("edit")
        /\ requests' = (requests \ {r}) \cup {[r EXCEPT !.state = "ok"]}
        /\ order' = Append(order, Carried(r))
        /\ astray' = astray \cup {v \in Carried(r) \ {0} : made[v].canvas # nebula.canvas}
  /\ UNCHANGED <<socket, tab, book, timer, parked, made, told, cut, late, unowned, mislaid, bounds>>

\* A request, or its answer, is lost; or the backend refuses the values.
Fail(r) ==
  /\ r.state \in {"sent", "ok", "stale"} /\ Trouble(MaxFails, bounds.fails)
  /\ bounds' = [bounds EXCEPT !.fails = @ + 1]
  /\ requests' = (requests \ {r}) \cup {[r EXCEPT !.state = "failed"]}
  /\ UNCHANGED <<server, tab, book, timer, parked, past>>

AgentEdit(k) ==
  /\ Trouble(MaxAgent, Cardinality(By("agent")))
  /\ made' = Append(made, [who |-> "agent", key |-> k, canvas |-> nebula.canvas,
                           boot |-> nebula.boot, graph |-> 0])
  /\ nebula' = [nebula EXCEPT !.params[k] = Len(made')]
  /\ order' = Append(order, {Len(made')}) /\ Broadcast("edit")
  /\ UNCHANGED <<socket, tab, book, timer, parked, requests, told, cut, late, astray, unowned, mislaid,
                 bounds>>

\* An agent's clear, after which node ids start again: n1 is another node, perhaps of
\* the same definition.  Or its graph load, which says that it replaced the graph.
AgentReplaces(kind) ==
  /\ Trouble(MaxCanvas, nebula.canvas)
  /\ \E shape \in {nebula.shape, 2} :
       nebula' = [nebula EXCEPT !.params = Fresh, !.rev = @ + 1, !.canvas = @ + 1, !.shape = shape]
  /\ Broadcast(kind)
  /\ UNCHANGED <<socket, tab, book, timer, parked, requests, past, bounds>>

\* The socket closes, and some of what it had not delivered is lost.
Closes == socket' = FALSE /\ \E n \in 0..Len(syncs) : syncs' = SubSeq(syncs, 1, n)

Gap ==
  /\ socket /\ Trouble(MaxGaps, bounds.gaps) /\ bounds' = [bounds EXCEPT !.gaps = @ + 1]
  /\ Closes /\ UNCHANGED <<nebula, tab, book, timer, parked, requests, past>>

\* A restart keeps the graph, and the canvas revision unless that file was lost.  The old
\* process's answers have come, or failed, by then.
Restart ==
  /\ Trouble(MaxBoot, nebula.boot - 1) /\ \A r \in requests : r.state \in {"sent", "failed"}
  /\ Closes /\ \E lost \in BOOLEAN :
       nebula' = [nebula EXCEPT !.boot = @ + 1, !.lost = lost, !.rev = IF lost THEN @ + 1 ELSE @]
  /\ UNCHANGED <<tab, book, timer, parked, requests, past, bounds>>

Reconnect ==
  /\ ~socket /\ socket' = TRUE /\ UNCHANGED nebula /\ syncs' = Append(syncs, Sync("hello"))
  /\ UNCHANGED <<tab, book, timer, parked, requests, past, bounds>>

-----------------------------------------------------------------------------
(* The tab *)

\* updateNodeData and noteParamEdit: the card shows it, and the debounce starts again.
Type(k) ==
  /\ Cardinality(By("person")) < MaxTyped
  /\ made' = Append(made, [who |-> "person", key |-> k, canvas |-> tab.canvas,
                           boot |-> tab.boot, graph |-> tab.graph])
  /\ LET new == edit = NoEdit
         e   == IF new THEN [NoEdit EXCEPT !.id = tab.edits + 1] ELSE edit
     IN /\ edit' = [e EXCEPT !.keys = @ \cup {k},
                             !.before[k] = IF k \in e.keys THEN @ ELSE tab.params[k]]
        /\ tab' = [tab EXCEPT !.params[k] = Len(made'), !.edits = IF new THEN @ + 1 ELSE @]
  /\ saved' = [saved EXCEPT ![k] = IF @ = Absent THEN tab.params[k] ELSE @]
  /\ gens' = [gens EXCEPT !.edit = @ + 1, !.key[k] = gens.edit + 1]
  /\ timer' = TRUE
  /\ UNCHANGED <<server, parked, requests, order, told, cut, late, astray, unowned, mislaid,
                 bounds>>

\* forgetParamEdit
Forget == edit' = NoEdit /\ saved' = NoneSaved /\ gens' = NoGens

\* pushNodeParams: every unsaved key goes; the save owns those edited since the last one.
Push(resent) ==
  IF edit = NoEdit THEN UNCHANGED <<tab, book, requests>>
  ELSE /\ tab' = [tab EXCEPT !.pushes = @ + 1]
       /\ edit' = [edit EXCEPT !.sent = [k \in edit.keys |-> tab.params[k]],
                               !.echoed = FALSE, !.answered = FALSE]
       /\ gens' = [gens EXCEPT !.push = gens.edit]
       /\ requests' = requests \cup
            {[id |-> tab.pushes + 1, edit |-> edit.id, gen |-> gens.edit, since |-> gens.push,
              keys |-> {k \in edit.keys : gens.key[k] > gens.push}, sent |-> edit'.sent,
              rev |-> tab.rev, graph |-> tab.graph, resent |-> resent, state |-> "sent"]}
       /\ UNCHANGED saved

\* scheduleParamPush: the debounce is over.
Debounced ==
  /\ timer /\ timer' = FALSE /\ Push(FALSE)
  /\ UNCHANGED <<server, parked, past, bounds>>

\* resendParkedParamSave: typing since then is on its own timer and goes with it.
Resend ==
  /\ parked.state = "due" /\ parked' = NoneParked
  /\ IF timer THEN UNCHANGED <<tab, book, requests>> ELSE Push(TRUE)
  /\ UNCHANGED <<server, timer, past, bounds>>

\* PARKED_SAVE_MAX_MS
ParkedTimeout ==
  /\ parked.state = "kept" /\ parked' = [parked EXCEPT !.state = "due"]
  /\ UNCHANGED <<server, tab, book, timer, requests, past, bounds>>

\* PARAM_ECHO_WAIT_MS after the answer.  A sync on its way takes less than that.
Linger ==
  /\ edit.answered /\ Settled /\ syncs = <<>> /\ Forget
  /\ UNCHANGED <<server, tab, timer, parked, requests, past, bounds>>

\* What settleParamEdit does once this answer is in.
Settles(r) == r.edit = edit.id /\ Out = {r} /\ ~timer

\* Mutant: the answer starts no wait for the echo.
AnswerOkUnnoted(r) ==
  /\ r.state = "ok" /\ requests' = requests \ {r}
  /\ IF Settles(r) /\ (edit.echoed \/ DOMAIN edit.sent = {}) THEN Forget ELSE UNCHANGED book
  /\ UNCHANGED <<server, tab, timer, parked, past, bounds>>

\* The last saved values are this save's now, whichever canvas it was for: the answer is
\* not asked.
AnswerOk(r) ==
  LET kept == [k \in Key |-> IF k \in DOMAIN r.sent /\ saved[k] # Absent THEN r.sent[k] ELSE saved[k]]
  IN /\ r.state = "ok" /\ requests' = requests \ {r}
     /\ IF Settles(r) /\ (edit.echoed \/ DOMAIN edit.sent = {})
        THEN Forget
        ELSE /\ edit' = IF Settles(r) THEN [edit EXCEPT !.answered = TRUE] ELSE edit
             /\ saved' = kept /\ UNCHANGED gens
     /\ mislaid' = IF r.graph = tab.graph THEN mislaid ELSE mislaid \cup
          {Abs(r.sent[k]) : k \in {k \in DOMAIN r.sent : saved[k] # Absent}}
     /\ UNCHANGED <<server, tab, timer, parked, made, order, told, cut, late, astray, unowned, bounds>>

\* noteCutOff: for a canvas replaced since, the replacement's line names it.
AnswerCutOff(r) ==
  /\ r.state \in {"stale", "failed"} /\ r.graph # tab.graph
  /\ requests' = requests \ {r} /\ told' = told \cup Carried(r)
  /\ UNCHANGED <<server, tab, book, timer, parked, made, order, cut, late, astray, unowned, mislaid,
                 bounds>>

Parks(r) == r.state = "stale" /\ ~r.resent /\ r.edit = edit.id

\* parkParamSave: out of date, though this tab saw no replacement.
AnswerParked(r) ==
  /\ Parks(r) /\ r.graph = tab.graph /\ requests' = requests \ {r}
  /\ parked' = [state |-> IF parked.state = "due" \/ tab.rev # r.rev THEN "due" ELSE "kept",
                saves |-> parked.saves \cup Carried(r)]
  /\ gens' = [gens EXCEPT !.push = IF @ = r.gen THEN r.since ELSE @]
  /\ edit' = [edit EXCEPT !.sent = <<>>]
  /\ late' = late \cup Carried(r)
  /\ UNCHANGED <<server, tab, saved, timer, made, order, told, cut, astray, unowned, mislaid, bounds>>

Older(r, k) == {p \in Out \ {r} : p.gen < r.gen /\ k \in DOMAIN p.sent}
Newest(ps)  == CHOOSE p \in ps : \A q \in ps : q.gen < p.gen \/ (q.gen = p.gen /\ p.id <= q.id)

\* A failed save's own keys, but for those a later edit touched.
Back(r) == {k \in r.keys : saved # NoneSaved /\ gens.key[k] <= r.gen}
\* Of these, the ones it leaves on what an older save carried and is no key of it.
Orphans(r) == {k \in Back(r) : Older(r, k) # {} /\ k \notin Newest(Older(r, k)).keys}

\* Where a failed save puts a key back: to what an older save still out carried, else to
\* the last saved value.
PutBack(r, k) ==
  IF Older(r, k) # {} THEN Newest(Older(r, k)).sent[k]
  ELSE IF saved[k] # Absent THEN saved[k] ELSE r.sent[k]

\* What paramSaveFailed leaves on the card, and says.
PutsBack(r) ==
  /\ r.state \in {"stale", "failed"} /\ ~Parks(r) /\ r.graph = tab.graph
  /\ requests' = requests \ {r}
  /\ tab' = [tab EXCEPT !.params = [k \in Key |-> IF k \in Back(r) THEN PutBack(r, k) ELSE @[k]]]
  /\ told' = told \cup {Abs(r.sent[k]) : k \in {k \in r.keys : saved # NoneSaved}}
  /\ unowned' = unowned \cup {Abs(PutBack(r, k)) : k \in Orphans(r)}
  /\ UNCHANGED <<server, timer, parked, made, order, cut, late, astray, mislaid, bounds>>

\* Mutant: a key put back to an older save's value still counts as the failed save's.
AnswerFailedOwns(r) == PutsBack(r) /\ (IF Settles(r) THEN Forget ELSE UNCHANGED book)

\* paramSaveFailed: its own keys go back, but for those a later edit touched, and the
\* line names them.
AnswerFailed(r) ==
  /\ PutsBack(r)
  /\ IF Settles(r) THEN Forget
     ELSE /\ gens' = [gens EXCEPT !.key =
                [k \in Key |-> IF k \in Back(r) /\ Older(r, k) # {} THEN Newest(Older(r, k)).gen ELSE @[k]]]
          /\ UNCHANGED <<edit, saved>>

\* Mutant: any canvas with the nodes on screen is the same one.
SameNodes(s) == s.rev = tab.rev \/ s.shape = tab.shape

\* The tab's canvas revision moved.  A hello from another process that lost its
\* revisions, with the nodes on screen, is the same canvas (sameBackendCanvas).
SameCanvas(s) == s.rev = tab.rev \/ (s.lost /\ s.boot # tab.boot /\ s.shape = tab.shape)

Shown(s, params) ==
  [tab EXCEPT !.params = params, !.rev = s.rev, !.boot = s.boot, !.canvas = s.canvas, !.shape = s.shape,
              !.graph = IF s.kind = "import" \/ ~SameCanvas(s) THEN @ + 1 ELSE @]

\* The graphReplaced branch of applyGraphSync: an agent's import into this project.
SyncImport(s) ==
  /\ s.kind = "import" /\ Forget /\ tab' = Shown(s, s.params)
  /\ told' = told \cup parked.saves /\ parked' = NoneParked
  /\ cut' = cut \cup {Abs(tab.params[k]) : k \in {k \in edit.keys : gens.key[k] > gens.push}}
  /\ UNCHANGED <<timer, late>>

\* Mutant: the line names the saves on their way only.
SyncOtherCanvasUnsaid(s) ==
  /\ s.kind # "import" /\ ~SameCanvas(s) /\ Forget /\ tab' = Shown(s, s.params)
  /\ told' = told \cup parked.saves /\ parked' = NoneParked /\ timer' = FALSE
  /\ UNCHANGED <<cut, late>>

\* replaceCanvasByClear: an agent's clear, or another canvas found at a reconnect.
SyncOtherCanvas(s) ==
  /\ s.kind # "import" /\ ~SameCanvas(s) /\ Forget /\ tab' = Shown(s, s.params)
  /\ told' = told \cup parked.saves \cup (IF timer THEN {Abs(tab.params[k]) : k \in edit.keys} ELSE {})
  /\ parked' = NoneParked /\ timer' = FALSE
  /\ UNCHANGED <<cut, late>>

\* noteParamEcho: whether this sync lets the edit go.
Echo(s)  == DOMAIN edit.sent # {} /\ \A k \in DOMAIN edit.sent : s.params[k] = edit.sent[k]
Stale(s) == \A k \in edit.keys : s.params[k] = edit.before[k]
LetsGo(s) ==
  /\ DOMAIN edit.sent # {} /\ ~edit.echoed /\ Settled
  /\ Echo(s) \/ (edit.answered /\ ~Stale(s))

\* mergeSyncedNode: the keys the backend may not have yet stay as the card has them.
SyncMerged(s) ==
  /\ s.kind # "import" /\ SameCanvas(s)
  /\ IF LetsGo(s) THEN Forget
     ELSE edit' = [edit EXCEPT !.echoed = @ \/ Echo(s)] /\ UNCHANGED <<saved, gens>>
  /\ tab' = Shown(s, [k \in Key |-> IF k \in edit'.keys THEN tab.params[k] ELSE s.params[k]])
  /\ parked' = [parked EXCEPT !.state = IF @ = "kept" THEN "due" ELSE @]
  /\ UNCHANGED <<timer, told, cut, late>>

ReceiveSync ==
  /\ syncs # <<>> /\ syncs' = Tail(syncs)
  /\ LET s == Head(syncs) IN SyncImport(s) \/ SyncOtherCanvas(s) \/ SyncMerged(s)
  /\ UNCHANGED <<nebula, socket, requests, made, order, astray, unowned, mislaid, bounds>>

-----------------------------------------------------------------------------
Answers(r) == AnswerOk(r) \/ AnswerCutOff(r) \/ AnswerParked(r) \/ AnswerFailed(r)

Next ==
  \/ \E k \in Key : Type(k) \/ AgentEdit(k)
  \/ \E kind \in {"clear", "import"} : AgentReplaces(kind)
  \/ \E r \in requests : Deliver(r) \/ Fail(r) \/ Answers(r)
  \/ Gap \/ Reconnect \/ Restart
  \/ Debounced \/ Resend \/ ParkedTimeout \/ Linger \/ ReceiveSync

\* Timers fire, the socket opens again, and a request ends with an answer or an error.
Fairness ==
  /\ WF_vars(Debounced) /\ WF_vars(Resend) /\ WF_vars(ParkedTimeout) /\ WF_vars(Linger)
  /\ WF_vars(ReceiveSync) /\ WF_vars(Reconnect)
  /\ WF_vars(\E r \in requests : Deliver(r)) /\ WF_vars(\E r \in requests : Answers(r))

Spec == Init /\ [][Next]_vars /\ Fairness

-----------------------------------------------------------------------------
(* Properties *)

Taken == UNION {order[i] : i \in DOMAIN order}

\* Nobody took it, nobody named it, it was not typed over, and it is not on its way.
Overtyped(v) ==
  \E w \in By("person") : w > v /\ made[w].key = made[v].key /\ made[w].graph = made[v].graph
OnItsWay(v) ==
  \/ \E r \in requests : v \in Carried(r)
  \/ v \in parked.saves
  \/ timer /\ made[v].key \in edit.keys /\ tab.params[made[v].key] = v
Unheard == {v \in By("person") : v \notin Taken \cup told /\ ~Overtyped(v) /\ ~OnItsWay(v)}

AtRest ==
  /\ requests = {} /\ syncs = <<>> /\ socket
  /\ ~timer /\ edit = NoEdit /\ parked = NoneParked

\* Typing is never lost without a word, through lost answers, restarts, reconnects and an
\* agent's clear: the backend took it, or a line named it (paramSaveFailed, noteCutOff,
\* replaceCanvasByClear).  The code's two exceptions are set apart: a save refused as out
\* of date (ParkedIsNamed) and a debounce an import found (TypingIsNamed).
NothingLostUnsaid == Unheard \subseteq cut \cup late

\* Within one process of the backend, typing never reaches another canvas than the one
\* it was typed on, though node ids start again there: the revision a save is sent with
\* (pushNodeParams) is never that of a canvas the tab took for its own by mistake.  But
\* for a value that the answer of a save for a replaced canvas left as last saved.
WritesStayOnTheirCanvas == \A v \in astray \ mislaid : made[v].boot # nebula.boot

\* Once all is quiet, a card shows no typing that the backend never took: a failed save
\* puts back its own keys, and hands those of an older save to that save
\* (paramSaveFailed).  Again but for the saves refused as out of date, and for a key
\* handed to an older save that carried it and whose own it is not.
ShownIsTaken ==
  AtRest => \A k \in Key : Abs(tab.params[k]) \in By("person")
                          => Abs(tab.params[k]) \in Taken \cup late \cup unowned

\* The tab comes to rest: no edit masks the syncs of its node for good, whatever was
\* lost, refused or parked (settleParamEdit, noteParamEcho, the lingering wait).
EndsAtRest == []<>AtRest

\* What graphStore.ts:2945-2957 says of a save refused as out of date: sent again, and
\* refused again it is named and put back, or named in the replacement's line.  But a
\* second save's answer forgets the edit the parked one needs, and nothing is sent.
ParkedIsNamed == Unheard \cap late \subseteq cut

\* What graphStore.ts:2310-2311 says of typing that a replacement finds in its debounce:
\* the line names it.  An agent's import forgets it with no line (clearUnsavedParamEdits).
TypingIsNamed == Unheard \cap cut = {}

\* What graphStore.ts:1803-1804 says of a key put back to an older save's value: that save
\* owns it from then on.  But the older save's failure puts back its own keys only.
PutBackIsTaken ==
  AtRest => \A k \in Key : Abs(tab.params[k]) \in unowned => Abs(tab.params[k]) \in Taken \cup late

\* What graphStore.ts:3039-3041 says: after a replacement nothing is put back by node id,
\* n1 may be another node now.  But the old canvas's answer becomes the last saved value
\* of the new n1, a failed save puts it back, and the next save takes it along.
SavedStaysOnItsCanvas == \A v \in astray \cap mislaid : made[v].boot # nebula.boot
=============================================================================

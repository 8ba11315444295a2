---------------------------- MODULE CanvasWrites ----------------------------
(***************************************************************************)
(* The canvas's writes, and the replacements of the canvas they meet       *)
(* (frontend/src/store/graphStore.ts and projectStore.ts): a write is      *)
(* admitted when the person acts, edits wait behind the restores of an     *)
(* undo and restores behind the edits before them, a project switch drains *)
(* the writes on their way behind a gate, an agent's switch or import      *)
(* replaces the canvas at any moment, and a line names what was cut off.   *)
(*                                                                         *)
(* One tab, the backend (Nebula) it writes to, and an agent.  A write is   *)
(* its place in "writes", which is the order of admission (admissionSeq).  *)
(***************************************************************************)
EXTENDS Integers, Sequences, FiniteSets

CONSTANTS
  MaxWrites,   \* bound: edits and undos of the person
  MaxAgent,    \* bound: projects opened, and graphs loaded, by an agent
  MaxSwitches, \* bound: projects the person opens
  MaxFails,    \* bound: requests, or their answers, that are lost
  MaxAll       \* bound: all of those together

ASSUME CanvasWritesAssumption ==
  {MaxWrites, MaxAgent, MaxSwitches, MaxFails, MaxAll} \subseteq Nat

VARIABLES
  nebula,   \* the workspace revision and canvas open there, and the writes it took
  notices,  \* its graphSyncs that replace the graph, on their way in order
  tab,      \* the project context (rev 0: none), and canvasReplacementRevision
  writes,   \* the tab's graph writes, as admitted
  gate,     \* writeGate: the first write it holds, or 0
  switch,   \* the replacement under way, and its drain
  report,   \* replacementReport: its graph, and whether it has an ending to show
  told,     \* history: writes that a line to the person named
  handed,   \* history: edits that an agent's switch handed to the project left
  passed,   \* history: edits no line is left for (see LostIsNamed)
  bounds    \* agent's replacements, person's switches and failures so far

past == <<told, handed, passed>>
vars == <<nebula, notices, tab, writes, gate, switch, report, past, bounds>>

Ids        == DOMAIN writes
NoSwitch   == [phase |-> "none", watching |-> {}, cut |-> {}, rev |-> 0, canvas |-> 0]
IsEdit(i)    == writes[i].kind = "edit"
IsRestore(i) == writes[i].kind = "restore"
Here(i)      == writes[i].graph = tab.graph

Room == Len(writes) + bounds.agent + bounds.switches + bounds.fails < MaxAll
Trouble(kind, max) ==  \* one more of a kind is within its bound, and the joint one
  /\ bounds[kind] < max /\ Room
  /\ bounds' = [bounds EXCEPT ![kind] = @ + 1]

\* liveWrites: inside graphMutationFetch, unanswered.
OnItsWay == {"sent", "ok", "refused"}
Live     == {i \in Ids : writes[i].state \in OnItsWay \cup {"waiting"}}
\* Mutant: only its answer takes a restore off the queue.
PressedUntilAnswered(i) == IsRestore(i) /\ writes[i].state \in OnItsWay \cup {"queued", "gated", "late"}

\* restoreSeqs: from the press until the answer, or the limit.
Pressed(i) == IsRestore(i) /\ writes[i].state \in OnItsWay \cup {"queued", "gated"}
Pending  == {i \in Ids : Pressed(i) /\ Here(i)}
Waiting  == {i \in Ids : writes[i].state = "waiting" /\ Here(i)}

TypeOK ==
  /\ Len(writes) <= MaxWrites
  /\ \A i \in Ids :
       /\ writes[i].kind \in {"edit", "restore"}
       /\ writes[i].state \in OnItsWay \cup {"waiting", "queued", "gated", "late", "done"}
       /\ writes[i].after \subseteq Ids \ {i} /\ writes[i].answers \subseteq 1..(i - 1)
       /\ IsRestore(i) => writes[i].state # "waiting"
       /\ IsEdit(i) => writes[i].state \notin {"queued", "late"} /\ writes[i].answers = {}
       /\ writes[i].state = "gated" => gate # 0 /\ gate <= i
  /\ gate \in 0..(MaxWrites + 1)
  /\ switch.phase \in {"none", "drain", "asking", "opened", "follow", "home"}
  /\ (gate = 0) = (switch.phase \in {"none", "home"})
  /\ switch.watching \subseteq Live /\ switch.cut \subseteq Ids
  /\ told \cup handed \cup passed \subseteq Ids

Init ==
  /\ nebula = [rev |-> 1, canvas |-> 1, took |-> <<>>] /\ notices = <<>>
  /\ tab = [rev |-> 1, canvas |-> 1, graph |-> 1]
  /\ writes = <<>> /\ gate = 0 /\ switch = NoSwitch
  /\ report = [graph |-> 1, says |-> FALSE]
  /\ told = {} /\ handed = {} /\ passed = {}
  /\ bounds = [agent |-> 0, switches |-> 0, fails |-> 0]

-----------------------------------------------------------------------------
(* Writes *)

\* admitWrite: what the person acted on is read now.
Admission(kind, state) ==
  [kind |-> kind, state |-> state, rev |-> tab.rev, canvas |-> tab.canvas, graph |-> tab.graph,
   header |-> <<0, 0>>, after |-> {}, answers |-> {}, limit |-> FALSE, held |-> FALSE, counted |-> FALSE]

\* stillAdmitted
StillAdmitted(w, t) == w.graph = t.graph /\ w.rev = t.rev

\* Mutant: a write that waited goes under the project open by then.
SentAsOpen(w, t) == [w EXCEPT !.state = "sent", !.header = <<t.rev, t.canvas>>]

\* send: under its own admission, or answered here as Nebula would refuse it.
Sent(w, t) ==
  IF StillAdmitted(w, t) THEN [w EXCEPT !.state = "sent", !.header = <<w.rev, w.canvas>>]
  ELSE [w EXCEPT !.state = "refused"]

\* The canvas is read-only while the tab follows an agent's switch.
Acts == Len(writes) < MaxWrites /\ Room /\ tab.rev # 0 /\ switch.phase # "home"

\* graphMutationFetch: at the gate; behind the restores queued and the edits waiting; or out.
Edit ==
  /\ Acts
  /\ LET w == Admission("edit", "waiting")
     IN writes' = Append(writes, IF gate # 0 THEN [w EXCEPT !.state = "gated", !.held = TRUE]
                                 ELSE IF Pending \cup Waiting = {} THEN Sent(w, tab)
                                 ELSE [w EXCEPT !.after = Pending \cup Waiting])
  /\ UNCHANGED <<nebula, notices, tab, gate, switch, report, past, bounds>>

\* Mutant: it does not wait for the answers to the edits before it.
UndoAtOnce ==
  /\ Acts
  /\ writes' = Append(writes, [Admission("restore", "queued") EXCEPT !.after = Pending \cup Waiting])
  /\ UNCHANGED <<nebula, notices, tab, gate, switch, report, past, bounds>>

\* sendRestore: behind the restores queued and the edits waiting, and until the edits on
\* their way are answered (writesAnsweredNow).
Undo ==
  /\ Acts
  /\ writes' = Append(writes, [Admission("restore", "queued") EXCEPT
                                 !.after = Pending \cup Waiting,
                                 !.answers = {i \in Live : IsEdit(i) /\ Here(i)}])
  /\ UNCHANGED <<nebula, notices, tab, gate, switch, report, past, bounds>>

\* A restore has settled, an edit has been dispatched.
BehindNone(i) ==
  \A j \in writes[i].after : IF IsRestore(j) THEN ~Pressed(j) ELSE writes[j].state # "waiting"

EditsTurn(i) ==
  /\ writes[i].state = "waiting" /\ BehindNone(i)
  /\ writes' = [writes EXCEPT ![i] = Sent([@ EXCEPT !.after = {}], tab)]
  /\ UNCHANGED <<nebula, notices, tab, gate, switch, report, past, bounds>>

\* HOLD_LIMIT_MS of waiting for those answers.
AnswersLimit(i) ==
  /\ writes[i].state = "queued" /\ writes[i].answers # {}
  /\ writes' = [writes EXCEPT ![i].answers = {}, ![i].limit = TRUE]
  /\ UNCHANGED <<nebula, notices, tab, gate, switch, report, past, bounds>>

\* The drain under way waits for a restore admitted before it, too.
RestoresTurn(i) ==
  /\ writes[i].state = "queued" /\ writes[i].answers = {} /\ BehindNone(i)
  /\ IF gate # 0 /\ gate <= i
     THEN writes' = [writes EXCEPT ![i].state = "gated", ![i].after = {}] /\ UNCHANGED switch
     ELSE /\ writes' = [writes EXCEPT ![i] = Sent([@ EXCEPT !.after = {}], tab)]
          /\ switch' = IF switch.phase = "drain" THEN [switch EXCEPT !.watching = @ \cup {i}] ELSE switch
  /\ UNCHANGED <<nebula, notices, tab, gate, report, past, bounds>>

\* The backend's fence (_check_workspace_revision): for what it has open, or refused.
Deliver(i) ==
  /\ writes[i].state \in {"sent", "late"}
  /\ LET mine == writes[i].header = <<nebula.rev, nebula.canvas>>
     IN /\ nebula' = IF mine THEN [nebula EXCEPT !.took = Append(@, [id |-> i, canvas |-> nebula.canvas])] ELSE nebula
        /\ writes' = [writes EXCEPT ![i].state = IF @ = "late" THEN "done" ELSE IF mine THEN "ok" ELSE "refused"]
  /\ UNCHANGED <<notices, tab, gate, switch, report, past, bounds>>

\* No answer ever comes but an error, which the tab takes as it takes a refusal.
Fail(i) ==
  /\ writes[i].state \in {"sent", "ok"} /\ Trouble("fails", MaxFails)
  /\ writes' = [writes EXCEPT ![i].state = "refused"]
  /\ UNCHANGED <<nebula, notices, tab, gate, switch, report, past>>

\* settleTracked: it is answered; a drain that watches it counts it if it did not land.
Settled(i, state, ok) ==
  /\ writes' = [j \in Ids |-> IF j = i THEN [writes[i] EXCEPT !.state = state, !.limit = @ \/ state = "late",
                                              !.counted = @ \/ (~ok /\ i \in switch.watching)]
                              ELSE [writes[j] EXCEPT !.answers = @ \ {i}]]
  /\ switch' = [switch EXCEPT !.watching = @ \ {i},
                              !.cut = IF ~ok /\ i \in switch.watching THEN @ \cup {i} ELSE @]

\* Mutant: an answer for a canvas replaced since is nobody's.
AnsweredUnsaid(i) ==
  LET ok == writes[i].state = "ok"
  IN /\ writes[i].state \in {"ok", "refused"} /\ Settled(i, "done", ok)
     /\ told' = IF ~ok /\ Here(i) THEN told \cup {i} ELSE told
     /\ UNCHANGED <<nebula, notices, tab, gate, report, handed, passed, bounds>>

\* On this canvas the write's own failure line (ParamSaves); for a canvas replaced since,
\* noteCutOff adds it to the replacement's line, unless a drain counted it.
Answered(i) ==
  LET ok == writes[i].state = "ok"
      cutOff == ~Here(i) /\ ~writes'[i].counted /\ report.graph = tab.graph /\ report.says
  IN /\ writes[i].state \in {"ok", "refused"} /\ Settled(i, "done", ok)
     /\ told' = IF ~ok /\ (Here(i) \/ cutOff) THEN told \cup {i} ELSE told
     /\ UNCHANGED <<nebula, notices, tab, gate, report, handed, passed, bounds>>

\* HOLD_LIMIT_MS with no answer to a restore: the writes behind it go, and Nebula may
\* still apply it.
RestoreTimesOut(i) ==
  /\ IsRestore(i) /\ writes[i].state \in OnItsWay
  /\ IF writes[i].state = "sent" THEN Settled(i, "late", FALSE) ELSE Settled(i, "done", FALSE)
  /\ UNCHANGED <<nebula, notices, tab, gate, report, past, bounds>>

-----------------------------------------------------------------------------
(* Replacements *)

\* openWriteGate: each write that waited there goes in under its own admission; an edit
\* behind whatever restores are queued by now.
GateOpens(t) ==
  LET held(i)  == writes[i].state = "gated"
      here(i)  == writes[i].graph = t.graph
      ahead(i) == {j \in Ids : here(j) /\ (Pressed(j) \/ writes[j].state = "waiting"
                                           \/ (held(j) /\ IsEdit(j) /\ j < i))}
      behind(i) == {j \in Ids : here(j) /\ (Pressed(j) \/ writes[j].state = "waiting")}
  IN /\ gate' = 0
     /\ writes' = [i \in Ids |->
          IF ~held(i) THEN writes[i]
          ELSE IF IsRestore(i) \/ ~StillAdmitted(writes[i], t) \/ behind(i) = {} THEN Sent(writes[i], t)
          ELSE [writes[i] EXCEPT !.state = "waiting", !.after = ahead(i)]]

\* drainWrites: the gate closes, and the writes on their way are waited for.
PersonSwitches ==
  /\ Trouble("switches", MaxSwitches) /\ switch.phase = "none" /\ tab.rev # 0
  /\ gate' = Len(writes) + 1
  /\ switch' = [NoSwitch EXCEPT !.phase = "drain", !.watching = Live]
  /\ UNCHANGED <<nebula, notices, tab, writes, report, past>>

Drained ==
  /\ switch.phase = "drain" /\ switch.watching = {} /\ \A i \in Ids : Pressed(i) => gate <= i
  /\ switch' = [switch EXCEPT !.phase = "asking"]
  /\ UNCHANGED <<nebula, notices, tab, writes, gate, report, past, bounds>>

\* HOLD_LIMIT_MS: what has no answer yet counts as cut off, and the switch goes on.
DrainLimit ==
  /\ switch.phase = "drain"
  /\ switch' = [switch EXCEPT !.phase = "asking", !.watching = {}, !.cut = @ \cup switch.watching]
  /\ writes' = [i \in Ids |-> [writes[i] EXCEPT !.counted = @ \/ i \in switch.watching]]
  /\ UNCHANGED <<nebula, notices, tab, gate, report, past, bounds>>

\* A graphSync that says the graph was replaced; "from" is the revision it left.
Replaces(rev) ==
  /\ nebula' = [nebula EXCEPT !.rev = rev, !.canvas = @ + 1]
  /\ notices' = Append(notices, [from |-> nebula.rev, rev |-> rev, canvas |-> nebula'.canvas])

\* The open request, refused if the workspace moved.
NebulaOpens ==
  /\ switch.phase = "asking" /\ nebula.rev = tab.rev /\ Replaces(nebula.rev + 1)
  /\ switch' = [switch EXCEPT !.phase = "opened", !.rev = nebula'.rev, !.canvas = nebula'.canvas]
  /\ UNCHANGED <<tab, writes, gate, report, past, bounds>>

\* activate's failure paths: the gate opens on the canvas still there, and the drain's
\* cutOff is not shown.  A lost reply after the commit leaves the tab on Projects.
SwitchFails ==
  /\ switch.phase \in {"asking", "opened"} /\ GateOpens(tab)
  /\ switch' = [NoSwitch EXCEPT !.phase = IF switch.phase = "asking" THEN "none" ELSE "home"]
  /\ passed' = passed \cup switch.cut
  /\ UNCHANGED <<nebula, notices, tab, report, told, handed, bounds>>

\* applyProject, then finishCanvasReplacement with what was cut off.
PersonSwitched ==
  /\ switch.phase = "opened"
  /\ tab' = [rev |-> switch.rev, canvas |-> switch.canvas, graph |-> tab.graph + 1]
  /\ report' = [graph |-> tab'.graph, says |-> TRUE] /\ told' = told \cup switch.cut
  /\ GateOpens(tab') /\ switch' = NoSwitch
  /\ UNCHANGED <<nebula, notices, handed, passed, bounds>>

\* An agent opens a project, or loads a graph into the one open.
AgentReplaces ==
  /\ Trouble("agent", MaxAgent)
  /\ Replaces(nebula.rev) \/ Replaces(nebula.rev + 1)
  /\ UNCHANGED <<tab, writes, gate, switch, report, past>>

\* The graphReplaced branch of applyGraphSync: this project's graph is another now.
CanvasReplaced(s) ==
  /\ tab.rev = s.rev
  /\ tab' = [tab EXCEPT !.canvas = s.canvas, !.graph = @ + 1]
  /\ report' = [graph |-> tab'.graph, says |-> TRUE]
  /\ UNCHANGED <<gate, switch, past>>

\* beginAgentSwitch: nothing is sent from here on, and the edits of this canvas still out
\* go into the handoff.
AgentSwitched(s) ==
  /\ tab.rev # 0 /\ tab.rev # s.rev /\ tab.rev = s.from /\ switch.phase = "none"
  /\ gate' = Len(writes) + 1 /\ switch' = [NoSwitch EXCEPT !.phase = "follow"]
  /\ tab' = [tab EXCEPT !.rev = 0]
  /\ handed' = handed \cup {i \in Live : IsEdit(i) /\ Here(i)}
  /\ passed' = passed \cup {i \in Live : IsEdit(i) /\ ~Here(i)}
  /\ UNCHANGED <<report, told>>

\* A switch this tab cannot follow (preserveWorkspaceConflict).
WorkspaceMoved(s) ==
  /\ tab.rev \notin {0, s.rev, s.from} /\ switch.phase = "none"
  /\ switch' = [switch EXCEPT !.phase = "home"] /\ UNCHANGED <<tab, gate, report, past>>

\* For another project, or this tab is busy with a switch of its own.
NotForThisTab(s) ==
  /\ tab.rev # s.rev /\ (switch.phase # "none" \/ tab.rev = 0)
  /\ UNCHANGED <<tab, gate, switch, report, past>>

ReceiveSync ==
  /\ notices # <<>> /\ notices' = Tail(notices)
  /\ LET s == Head(notices) IN CanvasReplaced(s) \/ AgentSwitched(s) \/ WorkspaceMoved(s) \/ NotForThisTab(s)
  /\ UNCHANGED <<nebula, writes, bounds>>

\* followProjectSwitch: what Nebula has open now is loaded; a line only if the handoff
\* failed.
Followed ==
  /\ switch.phase = "follow"
  /\ tab' = [rev |-> nebula.rev, canvas |-> nebula.canvas, graph |-> tab.graph + 1]
  /\ \E handoffFailed \in BOOLEAN : report' = [graph |-> tab'.graph, says |-> handoffFailed]
  /\ GateOpens(tab') /\ switch' = NoSwitch
  /\ UNCHANGED <<nebula, notices, past, bounds>>

FollowFails ==
  /\ switch.phase = "follow" /\ GateOpens(tab) /\ switch' = [NoSwitch EXCEPT !.phase = "home"]
  /\ UNCHANGED <<nebula, notices, tab, report, past, bounds>>

-----------------------------------------------------------------------------
Turn(i) == EditsTurn(i) \/ RestoresTurn(i)

Next ==
  \/ Edit \/ Undo \/ PersonSwitches
  \/ \E i \in Ids : Turn(i) \/ AnswersLimit(i) \/ RestoreTimesOut(i) \/ Deliver(i) \/ Fail(i) \/ Answered(i)
  \/ Drained \/ DrainLimit \/ NebulaOpens \/ SwitchFails \/ PersonSwitched
  \/ AgentReplaces \/ ReceiveSync \/ Followed \/ FollowFails

\* The tab's own timers and queues run, and a switch's own request ends.  No write is
\* ever answered for sure.
Fairness ==
  /\ \A i \in 1..MaxWrites :
       /\ WF_vars(i \in Ids /\ Turn(i)) /\ WF_vars(i \in Ids /\ AnswersLimit(i))
       /\ WF_vars(i \in Ids /\ RestoreTimesOut(i))
  /\ WF_vars(Drained \/ DrainLimit)
  /\ WF_vars(NebulaOpens \/ SwitchFails \/ PersonSwitched) /\ WF_vars(Followed \/ FollowFails)

Spec == Init /\ [][Next]_vars /\ Fairness

-----------------------------------------------------------------------------
(* Properties *)

TookIds == {nebula.took[n].id : n \in DOMAIN nebula.took}
Before(i, j) == \E m, n \in DOMAIN nebula.took : m < n /\ nebula.took[m].id = i /\ nebula.took[n].id = j

\* No write lands on a canvas the person did not make it on, whatever it waited behind
\* and whatever replaced the canvas meanwhile (review 17, H-1): node ids start again there.
NoWriteAstray == \A n \in DOMAIN nebula.took : nebula.took[n].canvas = writes[nebula.took[n].id].canvas

\* Two writes made on one canvas that took effect the other way round, within the limits.
Swapped(i, j) ==
  /\ i < j /\ writes[i].graph = writes[j].graph /\ "restore" \in {writes[i].kind, writes[j].kind}
  /\ Before(j, i) /\ ~writes[i].limit /\ ~writes[j].limit

\* Nebula applies edits and undos in the order the person made them: an undo never takes
\* effect before the edit it undoes, nor wipes out an edit made after it.  Excepted are
\* the 15 s limits, and an edit the gate held while an undo was pressed (GateKeepsOrder).
InOrder == \A i, j \in TookIds : Swapped(i, j) => IsEdit(i) /\ writes[i].held

\* What graphStore.ts:2759-2761 says, with no exception for the gate.
GateKeepsOrder == \A i, j \in TookIds : ~Swapped(i, j)

\* An edit that no canvas has is named to the person, or was handed to the project left,
\* or is in the line of the switch under way.  Two cases are set apart: one a drain counted
\* whose switch then failed, and one of an older canvas when a switch is followed.
LostIsNamed ==
  \A i \in Ids : (IsEdit(i) /\ writes[i].state = "done" /\ i \notin TookIds)
                => i \in told \cup handed \cup passed \cup switch.cut

\* Every write's turn comes, though Nebula never answers one (review 17, L-2): undos and
\* edits wait for each other, the drain for both, and the gate for the switch.
Held(i) == i \in Ids /\ writes[i].state \in {"waiting", "queued", "gated"}
EveryTurnComes == \A i \in 1..MaxWrites : Held(i) ~> ~Held(i)
=============================================================================

------------------------------ MODULE Approvals ------------------------------
(***************************************************************************)
(* Proposals and run approvals (services/canvas_proposals.py,              *)
(* services/run_approvals.py and their routes in main.py).  An agent       *)
(* proposes settings, wires and runs; the person's tab accepts or rejects; *)
(* an Accept grants an approval that locks what the run starts against     *)
(* agents until the tab's run uses it up.  Meanwhile agents and the person *)
(* edit the canvas, runs write settings back, and the canvas is replaced.  *)
(*                                                                         *)
(* A node's value stands for its definition, its params and its            *)
(* placeholder's owner; a node that a proposal adds gets a fresh id and is *)
(* left out.  The process and the open project are one each.               *)
(***************************************************************************)
EXTENDS Integers, FiniteSets

CONSTANTS
  Node, Wire, Value,  \* the canvas: nodes, the wires there may be, settings
  Gone,               \* the value of a node that is not on the canvas
  Canvases,           \* what is on the canvas at first, or is loaded into it
  Enriching,          \* nodes whose handler sets params of its own
  Proposal,           \* ids of proposals; bounds how many are made
  Offers,             \* what may be proposed: params, edges and runs
  Tab,                \* requests of the person that may wait at once
  MaxOpen,            \* MAX_OPEN_TOTAL
  MaxApprovals,       \* MAX_APPROVALS
  MaxOthers,          \* bound: edits, replacements, restarts and other runs
  MaxGoing            \* bound: runs going at once

On(g)  == {n \in Node : g.value[n] # Gone}
Graphs == {g \in [value : [Node -> Value \cup {Gone}], wires : SUBSET Wire] :
             \A e \in g.wires : {e[1], e[2]} \subseteq On(g)}
Cleared == [value |-> [n \in Node |-> Gone], wires |-> {}]

ASSUME WireAssumption ==
  /\ Gone \notin Value /\ Enriching \subseteq Node /\ Wire \subseteq Node \X Node
  /\ \E rank \in [Node -> 1..Cardinality(Node)] : \A e \in Wire : rank[e[1]] < rank[e[2]]
ASSUME CanvasAssumption == Canvases \subseteq Graphs
ASSUME BoundAssumption == {MaxOpen, MaxApprovals, MaxOthers, MaxGoing} \subseteq Nat
ASSUME OfferAssumption ==
  \A o \in Offers : /\ DOMAIN o.params \subseteq Node /\ o.edges \subseteq Wire /\ o.run \subseteq Node
                    /\ \A n \in DOMAIN o.params : o.params[n] \in Value

VARIABLES
  graph,      \* the live canvas: values and wires
  epoch,      \* its revision
  tidying,    \* whether a replacement has still to clear the approvals
  status,     \* of each proposal
  shown,      \* what a proposal shows: its offer, what its runs start, its canvas
  approvals,  \* open run approvals
  req,        \* what each request of the person waits with
  going,      \* runs that may write their params back
  touched,    \* history: who changed what an open approval runs
  applied,    \* history: how often each proposal was committed
  started,    \* history: how many runs each proposal's approval started
  ran,        \* history: what ran under an approval
  others      \* steps that MaxOthers bounds

shared == <<graph, epoch, tidying>>
book   == <<status, shown>>
past   == <<applied, started, ran>>
vars   == <<shared, book, approvals, req, going, touched, past, others>>

Inputs(g, n) == {e[1] : e \in {d \in g.wires : d[2] = n}}

\* run_scope: the targets and everything that feeds them.
RunScope(g, targets) ==
  {n \in Node : \A S \in SUBSET Node :
     targets \subseteq S /\ (\A m \in S : Inputs(g, m) \subseteq S) => n \in S}

\* fingerprint and shape: the settings and the wires, and the wires alone.
Fingerprint(g, targets) == [n \in RunScope(g, targets) |-> <<g.value[n], Inputs(g, n)>>]
Shape(g, targets) == [n \in RunScope(g, targets) |-> Inputs(g, n)]

References(o) == DOMAIN o.params \cup o.run \cup UNION {{e[1], e[2]} : e \in o.edges}
Open == {p \in Proposal : status[p] = "open"}
\* "removed" is invalidated by the delete of a node and tagged with it; "closed"
\* stands for the other ways to end, and for a proposal that a restart forgot.
Closed == {"accepted", "removed", "undoing", "closed"}
Statuses == {"none", "draft", "open"} \cup Closed
Nothing == [epoch |-> 0]
Idle == [kind |-> "idle"]

Close(p, how) ==
  status' = [status EXCEPT ![p] = how] /\ shown' = [shown EXCEPT ![p] = Nothing]

\* A mutant of Granted: the oldest approval is never dropped for room.
GrantedToAll(a) == approvals \cup {a}

\* RunApprovals.grant: beyond the limit the one granted first goes.
Granted(a) ==
  LET all == approvals \cup {a}
  IN IF Cardinality(all) > MaxApprovals THEN {b \in all : \E c \in all : c.at < b.at} ELSE all

ApprovalOf(p) == {a \in approvals : a.of = p}
Without(p)    == {a \in approvals : a.of # p}

TypeOK ==
  /\ graph \in Graphs
  /\ epoch \in Nat /\ tidying \in BOOLEAN
  /\ status \in [Proposal -> Statuses]
  /\ Cardinality(Open) <= MaxOpen
  /\ \A p \in Proposal : status[p] \notin {"none", "closed"} => shown[p].offer \in Offers /\ shown[p].epoch <= epoch
  /\ Cardinality(approvals) <= MaxApprovals
  /\ \A t \in Tab : req[t].kind \in {"idle", "accept", "reject", "run"}
  /\ Cardinality(going) <= MaxGoing
  /\ touched \in [Proposal -> SUBSET {"person", "run"}]
  /\ applied \in [Proposal -> Nat] /\ started \in [Proposal -> Nat]
  /\ others \in 0..MaxOthers

Init ==
  /\ graph \in Canvases
  /\ epoch = 0 /\ tidying = FALSE
  /\ status = [p \in Proposal |-> "none"] /\ shown = [p \in Proposal |-> Nothing]
  /\ approvals = {}
  /\ req = [t \in Tab |-> Idle] /\ going = {}
  /\ touched = [p \in Proposal |-> {}]
  /\ applied = [p \in Proposal |-> 0] /\ started = [p \in Proposal |-> 0]
  /\ ran = {} /\ others = 0

Counts == others < MaxOthers /\ others' = others + 1

-----------------------------------------------------------------------------
(* Proposals *)

\* _stage_proposal, on a copy of the graph.
Stageable(g, o) == References(o) \subseteq On(g)
Staged(g, o) ==
  [value |-> [n \in Node |-> IF n \in DOMAIN o.params THEN o.params[n] ELSE g.value[n]],
   wires |-> g.wires \cup o.edges]

\* The proposal is staged, and what its runs would start is read off the copy.
Draft(p, o) ==
  /\ status[p] = "none" /\ Stageable(graph, o)
  /\ status' = [status EXCEPT ![p] = "draft"]
  /\ shown' = [shown EXCEPT ![p] =
       [offer |-> o, digest |-> Fingerprint(Staged(graph, o), o.run), epoch |-> epoch]]
  /\ UNCHANGED <<shared, approvals, req, going, touched, past, others>>

\* After the measure of its inputs: the values it would change are read now,
\* and it opens unless the canvas moved or too many are open.
Propose(p) ==
  /\ status[p] = "draft"
  /\ IF shown[p].epoch = epoch /\ Cardinality(Open) < MaxOpen
     THEN /\ status' = [status EXCEPT ![p] = "open"]
          /\ shown' = [shown EXCEPT ![p] =
               [offer |-> @.offer, digest |-> @.digest, epoch |-> epoch,
                base |-> [n \in DOMAIN @.offer.params |-> graph.value[n]]]]
     ELSE Close(p, "closed")
  /\ UNCHANGED <<shared, approvals, req, going, touched, past, others>>

\* The agent takes it back, or a sweep finds it past its time.
Withdraw(p) ==
  /\ p \in Open /\ Close(p, "closed")
  /\ UNCHANGED <<shared, approvals, req, going, touched, past, others>>

\* A mutant of Fits: what its runs would start is not compared.
FitsUnrun(p) ==
  LET o == shown[p].offer IN
  /\ Stageable(graph, o)
  /\ \A n \in DOMAIN o.params : graph.value[n] = shown[p].base[n]

\* _refuse_overwriting_later_edits, staging and _refuse_changed_runs.
Fits(p) ==
  LET o == shown[p].offer IN
  /\ Stageable(graph, o)
  /\ \A n \in DOMAIN o.params : graph.value[n] = shown[p].base[n]
  /\ Fingerprint(Staged(graph, o), o.run) = shown[p].digest

\* An undo puts back the nodes whose delete closed it, and finds it by its tag;
Undo(p) ==
  /\ status[p] = "removed" /\ status' = [status EXCEPT ![p] = "undoing"]
  /\ UNCHANGED <<shared, shown, approvals, req, going, touched, past, others>>

\* and, after the models were looked up, it reopens if it fits. A clear or an
\* import that came between took its tag.
Reopen(p) ==
  /\ status[p] = "undoing"
  /\ \/ /\ Fits(p) /\ Cardinality(Open) < MaxOpen
        /\ status' = [status EXCEPT ![p] = "open"] /\ UNCHANGED shown
     \/ /\ ~(Fits(p) /\ Cardinality(Open) < MaxOpen)
        /\ IF shown[p].epoch = epoch THEN status' = [status EXCEPT ![p] = "removed"] /\ UNCHANGED shown
           ELSE Close(p, "closed")
  /\ UNCHANGED <<shared, approvals, req, going, touched, past, others>>

-----------------------------------------------------------------------------
(* The canvas *)

\* Edits: a node's settings, a wire made or removed, a node deleted or put back.
Edits ==
  LET put == {[graph EXCEPT !.value[n] = v] : n \in Node, v \in Value}
      wired == {[graph EXCEPT !.wires = (@ \cup {e}) \ (@ \cap {e})] :
                  e \in {d \in Wire : {d[1], d[2]} \subseteq On(graph)}}
      deleted == {[value |-> [graph.value EXCEPT ![n] = Gone],
                   wires |-> {e \in graph.wires : n \notin {e[1], e[2]}}] : n \in On(graph)}
  IN (put \cup wired \cup deleted) \ {graph}

\* invalidate_referencing: open proposals that read a node that is gone.
AfterRemoval(g) ==
  [p \in Proposal |-> IF p \in Open /\ ~ References(shown[p].offer) \cap On(graph) \subseteq On(g)
                      THEN "removed" ELSE status[p]]

\* Which approvals a new graph differs from.
Broken(g) == {p \in Proposal : \E a \in approvals : a.of = p /\ Fingerprint(g, a.run) # a.digest}

\* A mutant of Locked: only the nodes the run was asked for are looked at.
LockedTargets(g) ==
  {p \in Proposal : \E a \in approvals :
     a.of = p /\ \E n \in a.run : Fingerprint(g, a.run)[n] # a.digest[n]}

\* _refuse_agent_change_to_approved_runs: the approvals an edit would break.
Locked(g) == Broken(g)

\* Who is to blame for a change of what an approval runs.
Blamed(g, who) ==
  [p \in Proposal |-> IF p \in Broken(g) \ Broken(graph) THEN touched[p] \cup {who} ELSE touched[p]]

\* An agent's direct edit, tried on a copy first; nothing is awaited between.
AgentEdit(g) ==
  /\ g \in Edits /\ Locked(g) = {} /\ Counts
  /\ graph' = g /\ status' = AfterRemoval(g)
  /\ UNCHANGED <<epoch, tidying, shown, approvals, req, going, touched, past>>

\* The person's own edit always passes.
PersonEdit(g) ==
  /\ g \in Edits /\ Counts
  /\ graph' = g /\ status' = AfterRemoval(g) /\ touched' = Blamed(g, "person")
  /\ UNCHANGED <<epoch, tidying, shown, approvals, req, going, past>>

\* invalidate_all, and what a restart forgets.
CloseAll(S) ==
  /\ status' = [p \in Proposal |-> IF status[p] \in S THEN "closed" ELSE status[p]]
  /\ shown' = [p \in Proposal |-> IF status[p] \in S THEN Nothing ELSE shown[p]]

\* A clear or an import: the node ids start again. A clear drops the
\* approvals at once, an import only after its broadcasts.
Replace(g) ==
  /\ going = {} /\ Counts
  /\ graph' = g /\ epoch' = epoch + 1
  /\ CloseAll({"open", "removed"})
  /\ IF g = Cleared THEN approvals' = {} /\ UNCHANGED <<tidying, touched>>
     ELSE tidying' = TRUE /\ touched' = Blamed(g, "person") /\ UNCHANGED approvals
  /\ UNCHANGED <<req, going, past>>

Tidy ==
  /\ tidying /\ tidying' = FALSE /\ approvals' = {}
  /\ UNCHANGED <<graph, epoch, book, req, going, touched, past, others>>

-----------------------------------------------------------------------------
(* The person's requests *)

\* The checks before the first await: decidable, and made on this canvas.
Decide(t, p, kind) ==
  /\ req[t] = Idle /\ p \in Open
  /\ kind = "accept" => shown[p].epoch = epoch
  /\ req' = [req EXCEPT ![t] = [kind |-> kind, of |-> p, fence |-> epoch]]
  /\ UNCHANGED <<shared, book, approvals, going, touched, past, others>>

\* A mutant of Decidable: only the ways to end without the person are looked at.
DecidableBefore(t) ==
  status[req[t].of] \in {"open", "accepted"} /\ (req[t].kind = "accept" => req[t].fence = epoch)

\* _ensure_still_decidable and the fence, after the body and the models.
Decidable(t) ==
  req[t].of \in Open /\ (req[t].kind = "accept" => req[t].fence = epoch /\ shown[req[t].of].epoch = epoch)

\* at orders the approvals: how many were accepted before.
Approval(p, g) ==
  LET run == shown[p].offer.run IN
  [of |-> p, run |-> run, digest |-> Fingerprint(g, run), shape |-> Shape(g, run),
   at |-> Cardinality({q \in Proposal : status[q] = "accepted"})]

\* Accept: all of it is committed, it closes and the approval is granted in
\* one step, or it no longer fits and closes, or the canvas would be past a
\* limit, or cannot be saved, and it stays open.
Accept(t) ==
  LET p == req[t].of
      o == shown[p].offer
      g == Staged(graph, o)
  IN
  /\ req[t].kind = "accept" /\ req' = [req EXCEPT ![t] = Idle]
  /\ \/ /\ Decidable(t) /\ Fits(p)
        /\ graph' = g /\ applied' = [applied EXCEPT ![p] = @ + 1]
        /\ status' = IF p \in Open THEN [status EXCEPT ![p] = "accepted"] ELSE status
        /\ approvals' = IF o.run = {} THEN approvals ELSE Granted(Approval(p, g))
        /\ touched' = [Blamed(g, "person") EXCEPT ![p] = {}]
        /\ UNCHANGED shown
     \/ /\ Decidable(t) /\ ~Fits(p) /\ Close(p, "closed")
        /\ UNCHANGED <<graph, approvals, touched, applied>>
     \/ UNCHANGED <<graph, book, approvals, touched, applied>>
  /\ UNCHANGED <<epoch, tidying, going, started, ran, others>>

Reject(t) ==
  /\ req[t].kind = "reject" /\ req' = [req EXCEPT ![t] = Idle]
  /\ IF Decidable(t) THEN Close(req[t].of, "closed") ELSE UNCHANGED book
  /\ UNCHANGED <<shared, approvals, going, touched, past, others>>

\* The tab starts the run it holds an approval for: the nodes that are on its
\* canvas, as they are wired now. (The settings it sends are chosen by Run.)
AskRun(t, a) ==
  /\ req[t] = Idle /\ Cardinality(going) < MaxGoing
  /\ LET asked == a.run \cap On(graph) IN
     /\ asked # {}
     /\ req' = [req EXCEPT ![t] = [kind |-> "run", of |-> a.of, fence |-> epoch, asks |-> Shape(graph, asked)]]
  /\ UNCHANGED <<shared, book, approvals, going, touched, past, others>>

\* _check_run_approval: the wires that were asked for, and the settings of the
\* canvas. Those that were sent are not looked at.
Matches(t, a) == req[t].asks = a.shape /\ Fingerprint(graph, a.run) = a.digest

\* What a tab may send for these nodes: its own canvas has changes that are not
\* saved yet, or could not be, and has not heard of all of Nebula's.
OfTab(scope) == [scope -> Value]

\* The inputs are measured, the canvas is still the same, and the approval is
\* used up, whether the run matches it or not. What runs is what was sent.
Run(t) ==
  LET p == req[t].of IN
  /\ req[t].kind = "run" /\ req' = [req EXCEPT ![t] = Idle]
  /\ IF req[t].fence = epoch THEN approvals' = Without(p) ELSE UNCHANGED approvals
  /\ IF req[t].fence = epoch /\ Cardinality(going) < MaxGoing /\ \E a \in ApprovalOf(p) : Matches(t, a)
     THEN \E sent \in OfTab(DOMAIN req[t].asks) :
          /\ started' = [started EXCEPT ![p] = @ + 1]
          /\ ran' = ran \cup {[of |-> p, what |-> [n \in DOMAIN sent |-> <<sent[n], req[t].asks[n]>>],
                             own |-> {n \in DOMAIN sent : sent[n] # graph.value[n]}]}
          /\ going' = going \cup {[scope |-> DOMAIN sent, sent |-> sent]}
     ELSE UNCHANGED <<going, started, ran>>
  /\ UNCHANGED <<shared, book, touched, applied, others>>

\* The person lets go of it, or its time is over.
Release(a) ==
  /\ approvals' = Without(a.of)
  /\ UNCHANGED <<shared, book, req, going, touched, past, others>>

-----------------------------------------------------------------------------
(* Other runs *)

\* _submitted_params: of an agent's run nothing that was sent comes back.
Unsent == [n \in {} |-> Gone]

\* Any other run of the canvas, the person's or an agent's.
StartRun(n) ==
  LET scope == RunScope(graph, {n}) IN
  /\ Cardinality(going) < MaxGoing /\ n \in On(graph) /\ Counts
  /\ \E sent \in OfTab(scope) \cup {Unsent} : going' = going \cup {[scope |-> scope, sent |-> sent]}
  /\ UNCHANGED <<shared, book, approvals, req, touched, past>>

\* _sync_params_to_cli_graph: the person's run writes the params it was sent
\* with, an agent's only those its handlers changed.
Returned(r, set) ==
  [graph EXCEPT !.value = [n \in Node |->
     IF n \notin r.scope \cap On(graph) THEN @[n]
     ELSE IF n \in DOMAIN set THEN set[n]
     ELSE IF n \in DOMAIN r.sent THEN r.sent[n] ELSE @[n]]]

\* A run ends: it writes back, or it failed and does not.
EndRun(r) ==
  /\ going' = going \ {r}
  /\ \/ \E s \in SUBSET (Enriching \cap r.scope) : \E set \in [s -> Value] :
          graph' = Returned(r, set) /\ touched' = Blamed(Returned(r, set), "run")
     \/ UNCHANGED <<graph, touched>>
  /\ UNCHANGED <<epoch, tidying, book, approvals, req, past, others>>

\* The process ends: only the canvas is on disk. (A proposal keeps that it was
\* accepted, which the properties read.)
Restart ==
  /\ Counts
  /\ CloseAll({"draft", "open", "removed", "undoing"})
  /\ approvals' = {} /\ req' = [t \in Tab |-> Idle] /\ going' = {} /\ tidying' = FALSE
  /\ UNCHANGED <<graph, epoch, touched, past>>

-----------------------------------------------------------------------------
Agents == \E p \in Proposal : Propose(p) \/ Withdraw(p) \/ Undo(p) \/ Reopen(p) \/ \E o \in Offers : Draft(p, o)
Canvas == Tidy \/ (\E g \in Edits : AgentEdit(g) \/ PersonEdit(g)) \/ \E g \in Canvases \cup {Cleared} : Replace(g)
Person == \E t \in Tab :
  \/ Accept(t) \/ Reject(t) \/ Run(t)
  \/ \E p \in Proposal, kind \in {"accept", "reject"} : Decide(t, p, kind)
  \/ \E a \in approvals : AskRun(t, a)
Runs ==
  \/ \E n \in Node : StartRun(n)
  \/ \E r \in going : EndRun(r)
  \/ \E a \in approvals : Release(a)
Next == Agents \/ Canvas \/ Person \/ Runs \/ Restart

Spec == Init /\ [][Next]_vars

-----------------------------------------------------------------------------
\* What ran under an approval is what its proposal showed when it was made,
\* through every edit, replacement and request between the proposal, the
\* Accept and the run: the same nodes and wires, and the same settings but
\* where the tab's own canvas was not Nebula's when it ran.
AcceptedAsShown ==
  \A x \in ran : LET digest == shown[x.of].digest IN
    /\ DOMAIN x.what = DOMAIN digest
    /\ \A n \in DOMAIN digest :
         /\ x.what[n][2] = digest[n][2]
         /\ n \notin x.own => x.what[n][1] = digest[n][1]

\* "That approval has to cover the values that run, not just the node ids"
\* (run_approvals.py): the run "must match it value for value".
RunsValueForValue == \A x \in ran : x.what = shown[x.of].digest

\* A proposal is committed at most once, only if it ends as accepted, and its
\* approval starts at most one run, whatever requests race.
DecidedOnce ==
  \A p \in Proposal :
    /\ applied[p] = (IF status[p] = "accepted" THEN 1 ELSE 0)
    /\ started[p] <= applied[p]

\* While an approval waits, what it runs is what was accepted, unless the
\* person changed it or a run that was going wrote its settings back.
LockHolds ==
  \A a \in approvals : touched[a.of] = {} => Fingerprint(graph, a.run) = a.digest

\* "Nothing but the person may change a node in its run set"
\* (run_approvals.py).
OnlyThePerson ==
  \A a \in approvals : "person" \notin touched[a.of] => Fingerprint(graph, a.run) = a.digest
=============================================================================

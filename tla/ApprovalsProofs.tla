--------------------------- MODULE ApprovalsProofs ---------------------------
(***************************************************************************)
(* Proofs about Approvals for every canvas, every set of proposals and     *)
(* every number of requests: what runs under an approval is what was       *)
(* shown, a proposal takes effect once, and the lock holds.  For these the *)
(* scope of a run stays unexpanded: nothing depends on how it is computed, *)
(* only on its being computed the same way for the proposal, the approval  *)
(* and the run.  Then the types and limits.                                *)
(***************************************************************************)
EXTENDS Approvals, FiniteSetTheorems, WellFoundedInduction, TLAPS

-----------------------------------------------------------------------------
(* The inductive invariant. *)

Types ==
  /\ status \in [Proposal -> Statuses] /\ DOMAIN shown = Proposal
  /\ touched \in [Proposal -> SUBSET {"person", "run"}]
  /\ applied \in [Proposal -> Nat] /\ started \in [Proposal -> Nat]

\* An approval is of an accepted proposal that has not run yet, and holds what
\* that proposal showed.
Granting ==
  \A a \in approvals :
    /\ a.of \in Proposal /\ status[a.of] = "accepted" /\ started[a.of] = 0
    /\ a.digest = shown[a.of].digest
    /\ a.shape = [n \in DOMAIN a.digest |-> a.digest[n][2]]

Running == \A x \in ran : x.of \in Proposal /\ status[x.of] = "accepted"

IInv == Types /\ Granting /\ Running /\ AcceptedAsShown /\ DecidedOnce /\ LockHolds

-----------------------------------------------------------------------------
(* What the steps have in common. *)

\* The step accepts nothing, and what was accepted shows what it showed.
Keeps ==
  /\ status' \in [Proposal -> Statuses] /\ DOMAIN shown' = Proposal
  /\ \A p \in Proposal :
       /\ (status'[p] = "accepted") <=> (status[p] = "accepted")
       /\ status[p] = "accepted" => shown'[p] = shown[p]

\* No canvas change escapes the history: an approval that no longer matches the
\* new canvas has someone to blame.
Blames ==
  /\ touched' \in [Proposal -> SUBSET {"person", "run"}]
  /\ \A a \in approvals : touched'[a.of] = {} => Fingerprint(graph', a.run) = a.digest

\* Closing a proposal that is not accepted keeps the accepted ones.
LEMMA CloseKeeps ==
  ASSUME Types, NEW p \in Proposal, status[p] # "accepted", Close(p, "closed")
  PROVE  Keeps
BY DEF Types, Close, Keeps, Statuses, Closed

\* So does any other change of the status of one.
LEMMA StatusKeeps ==
  ASSUME Types, NEW p \in Proposal, status[p] # "accepted", NEW s \in Statuses \ {"accepted"},
         status' = [status EXCEPT ![p] = s], DOMAIN shown' = Proposal,
         \A q \in Proposal \ {p} : shown'[q] = shown[q]
  PROVE  Keeps
BY DEF Types, Keeps

\* Leaving the proposals alone keeps the accepted ones.
LEMMA SameKeeps ==
  ASSUME Types, UNCHANGED book
  PROVE  Keeps
BY DEF Types, Keeps, book

\* So does closing all that have some status, when "accepted" is not among them.
LEMMA CloseAllKeeps ==
  ASSUME Types, NEW S, "accepted" \notin S, CloseAll(S)
  PROVE  Keeps
BY DEF Types, Keeps, CloseAll, Statuses, Closed

\* A removal ends open proposals only.
LEMMA RemovalKeeps ==
  ASSUME Types, NEW g, status' = AfterRemoval(g), UNCHANGED shown
  PROVE  Keeps
BY DEF Types, Keeps, AfterRemoval, Open, Statuses, Closed

\* A change that the history records.
LEMMA BlamedBlames ==
  ASSUME Types, Granting, LockHolds, NEW who \in {"person", "run"}, touched' = Blamed(graph', who)
  PROVE  Blames
<1>1. touched' \in [Proposal -> SUBSET {"person", "run"}]
  BY DEF Types, Blamed
<1>2. ASSUME NEW a \in approvals, touched'[a.of] = {}
      PROVE  Fingerprint(graph', a.run) = a.digest
  <2>1. a.of \in Proposal
    BY DEF Granting
  <2>2. a.of \notin Broken(graph') \/ a.of \in Broken(graph)
    BY <1>2, <2>1 DEF Blamed
  <2>3. CASE a.of \notin Broken(graph')
    BY <2>1, <2>3 DEF Broken
  <2>4. CASE a.of \in Broken(graph)
    <3>1. touched[a.of] # {}
      BY <2>4 DEF Broken, LockHolds
    <3>2. touched[a.of] \subseteq touched'[a.of]
      BY <1>2, <2>1 DEF Blamed
    <3> QED BY <1>2, <3>1, <3>2
  <2> QED BY <2>2, <2>3, <2>4
<1> QED BY <1>1, <1>2 DEF Blames

\* Nothing is to blame while the canvas is what it was.
LEMMA SameBlames ==
  ASSUME Types, LockHolds, UNCHANGED <<graph, touched>>
  PROVE  Blames
BY DEF Types, LockHolds, Blames, Fingerprint

\* A step that accepts nothing, starts nothing and grants nothing.
LEMMA QuietStep ==
  ASSUME IInv, Keeps, Blames, approvals' \subseteq approvals, UNCHANGED past
  PROVE  IInv'
<1> USE DEF past
<1>1. Types'
  BY DEF IInv, Types, Keeps, Blames
<1>2. Granting'
  BY DEF IInv, Granting, Keeps
<1>3. Running' /\ AcceptedAsShown'
  BY DEF IInv, Running, AcceptedAsShown, Keeps
<1>4. DecidedOnce'
  BY DEF IInv, Types, DecidedOnce, Keeps
<1>5. LockHolds'
  BY DEF Blames, LockHolds, Fingerprint
<1> QED BY <1>1, <1>2, <1>3, <1>4, <1>5 DEF IInv

\* A step that drops every approval: nothing is left to hold.
LEMMA EmptyStep ==
  ASSUME IInv, Keeps, approvals' = {}, UNCHANGED <<touched, past>>
  PROVE  IInv'
<1> USE DEF past
<1>1. Types'
  BY DEF IInv, Types, Keeps
<1>2. Granting' /\ LockHolds'
  BY DEF Granting, LockHolds
<1>3. Running' /\ AcceptedAsShown'
  BY DEF IInv, Running, AcceptedAsShown, Keeps
<1>4. DecidedOnce'
  BY DEF IInv, Types, DecidedOnce, Keeps
<1> QED BY <1>1, <1>2, <1>3, <1>4 DEF IInv

-----------------------------------------------------------------------------
(* The steps: every one but Accept and Run is quiet. *)

\* The agents' steps keep the invariant: they change neither the canvas nor an approval.
LEMMA AgentsKeep ==
  ASSUME IInv, Agents
  PROVE  IInv'
<1>0. Types /\ LockHolds /\ UNCHANGED <<graph, approvals, touched, past>>
  BY DEF IInv, Agents, Draft, Propose, Withdraw, Undo, Reopen, Close, shared, past
<1>1. Blames
  BY <1>0, SameBlames
<1>2. PICK p \in Proposal : Propose(p) \/ Withdraw(p) \/ Undo(p) \/ Reopen(p) \/ \E o \in Offers : Draft(p, o)
  BY DEF Agents
<1>3. status[p] # "accepted" /\ {"draft", "open", "removed", "undoing"} \subseteq Statuses \ {"accepted"}
  BY <1>2 DEF Propose, Withdraw, Undo, Reopen, Draft, Open, Statuses, Closed
<1>4. Keeps
  <2>1. CASE Close(p, "closed")
    BY <1>0, <1>3, <2>1, CloseKeeps
  <2>2. CASE Undo(p)
    BY <1>0, <1>3, <2>2, StatusKeeps DEF Undo, Types
  <2>3. CASE \E o \in Offers : Draft(p, o)
    BY <1>0, <1>3, <2>3, StatusKeeps DEF Draft, Types
  <2>4. CASE Propose(p)
    BY <1>0, <1>3, <2>1, <2>4, StatusKeeps DEF Propose, Types
  <2>5. CASE Reopen(p)
    BY <1>0, <1>3, <2>1, <2>5, StatusKeeps DEF Reopen, Types
  <2>6. CASE Withdraw(p)
    BY <2>1, <2>6 DEF Withdraw
  <2> QED BY <1>2, <2>2, <2>3, <2>4, <2>5, <2>6
<1> QED BY <1>0, <1>1, <1>4, QuietStep

\* So do the canvas's: an edit that breaks an approval has the person to blame.
LEMMA CanvasKeeps ==
  ASSUME IInv, Canvas
  PROVE  IInv'
<1>0. Types /\ Granting /\ LockHolds
  BY DEF IInv
<1>1. CASE Tidy
  <2>1. Keeps /\ Blames
    BY <1>0, <1>1, SameKeeps, SameBlames DEF Tidy
  <2> QED BY <1>1, <2>1, QuietStep DEF Tidy
<1>2. ASSUME NEW g \in Edits, AgentEdit(g)
      PROVE  IInv'
  <2>1. Keeps
    BY <1>0, <1>2, RemovalKeeps DEF AgentEdit
  <2>2. Blames
    BY <1>0, <1>2 DEF AgentEdit, Locked, Broken, Blames, Types, Granting
  <2> QED BY <1>2, <2>1, <2>2, QuietStep DEF AgentEdit
<1>3. ASSUME NEW g \in Edits, PersonEdit(g)
      PROVE  IInv'
  <2>1. Keeps
    BY <1>0, <1>3, RemovalKeeps DEF PersonEdit
  <2>2. Blames
    <3>1. touched' = Blamed(graph', "person")
      BY <1>3 DEF PersonEdit
    <3> QED BY <1>0, <3>1, BlamedBlames
  <2> QED BY <1>3, <2>1, <2>2, QuietStep DEF PersonEdit
<1>4. ASSUME NEW g, Replace(g)
      PROVE  IInv'
  <2>1. Keeps
    BY <1>0, <1>4, CloseAllKeeps DEF Replace
  <2>2. CASE g = Cleared
    <3>1. approvals' = {} /\ UNCHANGED <<touched, past>>
      BY <1>4, <2>2 DEF Replace
    <3> QED BY <2>1, <3>1, EmptyStep
  <2>3. CASE g # Cleared
    <3>1. touched' = Blamed(graph', "person") /\ UNCHANGED <<approvals, past>>
      BY <1>4, <2>3 DEF Replace
    <3>2. Blames
      BY <1>0, <3>1, BlamedBlames
    <3> QED BY <2>1, <3>1, <3>2, QuietStep
  <2> QED BY <2>2, <2>3
<1> QED BY <1>1, <1>2, <1>3, <1>4 DEF Canvas

\* So do the runs': their write-back is blamed on them.
LEMMA RunsKeep ==
  ASSUME IInv, Runs
  PROVE  IInv'
<1>0. Types /\ Granting /\ LockHolds
  BY DEF IInv
<1>1. Keeps /\ approvals' \subseteq approvals /\ UNCHANGED past
  BY <1>0, SameKeeps DEF Runs, StartRun, EndRun, Release, Without
<1>2. Blames
  <2>1. CASE UNCHANGED <<graph, touched>>
    BY <1>0, <2>1, SameBlames
  <2>2. CASE touched' = Blamed(graph', "run")
    BY <1>0, <2>2, BlamedBlames
  <2> QED BY <2>1, <2>2 DEF Runs, StartRun, EndRun, Release, shared
<1> QED BY <1>1, <1>2, QuietStep

\* So does a restart, which forgets every approval.
LEMMA RestartKeeps ==
  ASSUME IInv, Restart
  PROVE  IInv'
<1>1. Keeps
  BY CloseAllKeeps DEF IInv, Restart
<1>2. approvals' = {} /\ UNCHANGED <<touched, past>>
  BY DEF Restart
<1> QED BY <1>1, <1>2, EmptyStep

\* The one step that takes effect: the proposal is open, so nothing ran for it
\* and no approval is of it yet.
LEMMA AcceptKeeps ==
  ASSUME IInv, NEW t \in Tab, Accept(t)
  PROVE  IInv'
<1>0. Types /\ Granting /\ Running /\ AcceptedAsShown /\ DecidedOnce /\ LockHolds /\ UNCHANGED <<started, ran>>
  BY DEF IInv, Accept
<1> DEFINE p == req[t].of
           o == shown[p].offer
           g == Staged(graph, o)
           new == Approval(p, g)
<1>1. CASE UNCHANGED <<graph, book, approvals, touched, applied>>
  BY <1>0, <1>1, SameKeeps, SameBlames, QuietStep DEF past
<1>2. CASE Decidable(t) /\ ~Fits(p) /\ Close(p, "closed") /\ UNCHANGED <<graph, approvals, touched, applied>>
  <2>1. p \in Proposal /\ status[p] # "accepted"
    BY <1>2 DEF Decidable, Open
  <2>2. Keeps /\ Blames
    BY <1>0, <1>2, <2>1, CloseKeeps, SameBlames
  <2> QED BY <1>0, <1>2, <2>2, QuietStep DEF past
<1>3. CASE /\ Decidable(t) /\ Fits(p)
           /\ graph' = g /\ applied' = [applied EXCEPT ![p] = @ + 1]
           /\ status' = IF p \in Open THEN [status EXCEPT ![p] = "accepted"] ELSE status
           /\ approvals' = IF o.run = {} THEN approvals ELSE Granted(new)
           /\ touched' = [Blamed(g, "person") EXCEPT ![p] = {}]
           /\ UNCHANGED shown
  <2>1. p \in Proposal /\ status[p] = "open" /\ p \in Open
    BY <1>3 DEF Decidable, Open
  <2>2. status' = [status EXCEPT ![p] = "accepted"]
    BY <1>3, <2>1
  <2>3. applied[p] = 0 /\ started[p] = 0
    BY <1>0, <2>1 DEF DecidedOnce, Types
  <2>4. /\ new.of = p /\ new.run = o.run
        /\ new.digest = Fingerprint(g, o.run) /\ new.shape = Shape(g, o.run)
    BY DEF Approval
  <2>5. new.digest = shown[p].digest /\ new.shape = [n \in DOMAIN new.digest |-> new.digest[n][2]]
    <3>1. new.digest = shown[p].digest
      BY <1>3, <2>4 DEF Fits
    <3>2. Shape(g, o.run) = [n \in DOMAIN Fingerprint(g, o.run) |-> Fingerprint(g, o.run)[n][2]]
      BY DEF Fingerprint, Shape
    <3> QED BY <2>4, <3>1, <3>2
  <2>6. approvals' \subseteq approvals \cup {new}
    BY <1>3 DEF Granted
  <2>7. \A a \in approvals : a.of \in Proposal \ {p}
    BY <1>0, <2>1 DEF Granting
  <2>8. Types'
    <3>1. Blamed(g, "person") \in [Proposal -> SUBSET {"person", "run"}]
      BY <1>0 DEF Types, Blamed
    <3> QED BY <1>0, <1>3, <2>1, <2>2, <3>1 DEF Types, Statuses, Closed
  <2>9. Granting'
    <3>1. ASSUME NEW a \in approvals'
          PROVE  /\ a.of \in Proposal /\ status'[a.of] = "accepted" /\ started[a.of] = 0
                 /\ a.digest = shown[a.of].digest
                 /\ a.shape = [n \in DOMAIN a.digest |-> a.digest[n][2]]
      <4>1. CASE a \in approvals
        BY <1>0, <2>2, <2>7, <4>1 DEF Types, Granting
      <4>2. CASE a = new
        <5> HIDE DEF new
        <5>1. a.of = p /\ a.digest = shown[p].digest
          BY <2>4, <2>5, <4>2
        <5>2. a.shape = [n \in DOMAIN a.digest |-> a.digest[n][2]]
          BY <2>5, <4>2
        <5> QED BY <1>0, <2>1, <2>2, <2>3, <5>1, <5>2 DEF Types
      <4> QED BY <2>6, <4>1, <4>2
    <3> QED BY <1>0, <1>3, <3>1 DEF Granting
  <2>10. Running' /\ AcceptedAsShown'
    BY <1>0, <1>3, <2>1, <2>2 DEF Types, Running, AcceptedAsShown
  <2>11. DecidedOnce'
    BY <1>0, <1>3, <2>1, <2>2, <2>3 DEF Types, DecidedOnce
  <2>12. LockHolds'
    <3>1. ASSUME NEW a \in approvals, touched'[a.of] = {}
          PROVE  Fingerprint(g, a.run) = a.digest
      <4>1. Blamed(g, "person")[a.of] = {}
        BY <1>3, <2>7, <3>1 DEF Blamed
      <4>2. a.of \notin Broken(g) \/ a.of \in Broken(graph)
        BY <2>7, <4>1 DEF Blamed
      <4>3. touched[a.of] = {}
        BY <2>7, <4>1 DEF Blamed
      <4>4. a.of \notin Broken(graph)
        BY <1>0, <4>3 DEF Broken, LockHolds
      <4> QED BY <2>7, <4>2, <4>4 DEF Broken
    <3>2. \A a \in approvals' : touched'[a.of] = {} => Fingerprint(graph', a.run) = a.digest
      BY <1>3, <2>4, <2>6, <3>1
    <3> QED BY <3>2 DEF LockHolds, Fingerprint
  <2> QED BY <2>8, <2>9, <2>10, <2>11, <2>12 DEF IInv
<1> QED BY <1>1, <1>2, <1>3 DEF Accept

\* The run uses its approval up, and what it starts is what the approval holds:
\* the wires it asked for are the shape, and the settings of the canvas are the
\* digest, so a node that is sent as it is on the canvas runs as it was shown.
LEMMA RunKeeps ==
  ASSUME IInv, NEW t \in Tab, Run(t)
  PROVE  IInv'
<1>0. Types /\ Granting /\ Running /\ AcceptedAsShown /\ DecidedOnce /\ LockHolds
  BY DEF IInv
<1>1. UNCHANGED <<shared, book, touched, applied>> /\ approvals' \subseteq approvals
  BY DEF Run, Without
<1>2. Keeps /\ Blames
  BY <1>0, <1>1, SameKeeps, SameBlames DEF shared
<1>3. CASE UNCHANGED <<started, ran>>
  BY <1>1, <1>2, <1>3, QuietStep DEF past
<1>4. CASE ~UNCHANGED <<started, ran>>
  <2> DEFINE p == req[t].of
             asks == req[t].asks
             what(sent) == [n \in DOMAIN sent |-> <<sent[n], asks[n]>>]
             own(sent) == {n \in DOMAIN sent : sent[n] # graph.value[n]}
  <2>1. /\ approvals' = Without(p)
        /\ started' = [started EXCEPT ![p] = @ + 1]
        /\ \E a \in ApprovalOf(p) : Matches(t, a)
        /\ \E sent \in OfTab(DOMAIN asks) : ran' = ran \cup {[of |-> p, what |-> what(sent), own |-> own(sent)]}
    BY <1>4 DEF Run
  <2>2. PICK a \in approvals : a.of = p /\ Matches(t, a)
    BY <2>1 DEF ApprovalOf
  <2>3. p \in Proposal /\ status[p] = "accepted" /\ started[p] = 0 /\ applied[p] = 1
    BY <1>0, <2>2 DEF Granting, DecidedOnce
  <2> PICK sent \in OfTab(DOMAIN asks) : ran' = ran \cup {[of |-> p, what |-> what(sent), own |-> own(sent)]}
    BY <2>1
  <2>4. LET digest == shown[p].digest IN
        /\ DOMAIN what(sent) = DOMAIN digest
        /\ \A n \in DOMAIN digest :
             /\ what(sent)[n][2] = digest[n][2]
             /\ n \notin own(sent) => what(sent)[n][1] = digest[n][1]
    <3>1. a.digest = Fingerprint(graph, a.run) /\ asks = [n \in DOMAIN a.digest |-> a.digest[n][2]]
      BY <1>0, <2>2 DEF Matches, Granting
    <3>2. a.digest = shown[p].digest
      BY <1>0, <2>2 DEF Granting
    <3>3. DOMAIN sent = DOMAIN a.digest
      BY <3>1 DEF OfTab
    <3>4. \A n \in DOMAIN a.digest : a.digest[n][1] = graph.value[n]
      BY <3>1 DEF Fingerprint
    <3>5. DOMAIN what(sent) = DOMAIN a.digest
      BY <3>3
    <3>6. ASSUME NEW n \in DOMAIN a.digest
          PROVE  what(sent)[n][1] = sent[n] /\ what(sent)[n][2] = a.digest[n][2]
      BY <3>1, <3>3
    <3>7. ASSUME NEW n \in DOMAIN a.digest, n \notin own(sent) PROVE sent[n] = a.digest[n][1]
      BY <3>3, <3>4, <3>7
    <3> HIDE DEF what, own
    <3> QED BY <3>2, <3>5, <3>6, <3>7
  <2>5. Types'
    BY <1>0, <1>1, <2>1, <2>3 DEF Types, book
  <2>6. Granting'
    BY <1>0, <1>1, <2>1, <2>3 DEF Types, Granting, Without, book
  <2> HIDE DEF what, own
  <2>7. Running' /\ AcceptedAsShown'
    BY <1>0, <1>1, <2>1, <2>3, <2>4 DEF Running, AcceptedAsShown, book
  <2>8. DecidedOnce'
    BY <1>0, <1>1, <2>1, <2>3 DEF Types, DecidedOnce, book
  <2>9. LockHolds'
    BY <1>1, <1>2 DEF Blames, LockHolds, Fingerprint
  <2> QED BY <2>5, <2>6, <2>7, <2>8, <2>9 DEF IInv
<1> QED BY <1>3, <1>4

\* So do the person's steps.
LEMMA PersonKeeps ==
  ASSUME IInv, Person
  PROVE  IInv'
<1>0. Types /\ LockHolds
  BY DEF IInv
<1>1. PICK t \in Tab : \/ Accept(t) \/ Reject(t) \/ Run(t)
                       \/ \E p \in Proposal, kind \in {"accept", "reject"} : Decide(t, p, kind)
                       \/ \E a \in approvals : AskRun(t, a)
  BY DEF Person
<1>2. CASE Reject(t)
  <2>1. UNCHANGED <<graph, approvals, touched, past>>
    BY <1>2 DEF Reject, shared
  <2>2. Keeps
    <3>1. CASE Decidable(t)
      BY <1>0, <1>2, <3>1, CloseKeeps DEF Reject, Decidable, Open
    <3>2. CASE ~Decidable(t)
      BY <1>0, <1>2, <3>2, SameKeeps DEF Reject
    <3> QED BY <3>1, <3>2
  <2> QED BY <1>0, <2>1, <2>2, SameBlames, QuietStep
<1>3. CASE \/ \E p \in Proposal, kind \in {"accept", "reject"} : Decide(t, p, kind)
           \/ \E a \in approvals : AskRun(t, a)
  <2>1. UNCHANGED <<graph, book, approvals, touched, past>>
    BY <1>3 DEF Decide, AskRun, shared
  <2> QED BY <1>0, <2>1, SameKeeps, SameBlames, QuietStep
<1> QED BY <1>1, <1>2, <1>3, AcceptKeeps, RunKeeps

-----------------------------------------------------------------------------
(* The theorems. *)

\* It holds at first, when there is nothing to decide.
LEMMA InitInv == Init => IInv
BY DEF Init, IInv, Types, Granting, Running, AcceptedAsShown, DecidedOnce, LockHolds, Statuses

\* It holds while nothing changes.
LEMMA StutterKeeps ==
  ASSUME IInv, UNCHANGED vars
  PROVE  IInv'
<1>1. Keeps /\ Blames
  BY SameKeeps, SameBlames DEF IInv, vars, shared, book
<1> QED BY <1>1, QuietStep DEF vars

\* Every reachable state satisfies the inductive invariant.
THEOREM InvAlways == Spec => []IInv
<1>1. IInv /\ [Next]_vars => IInv'
  BY AgentsKeep, CanvasKeeps, PersonKeeps, RunsKeep, RestartKeeps, StutterKeeps DEF Next
<1> QED BY InitInv, <1>1, PTL DEF Spec

\* What starts under an approval is what its proposal showed, but for settings
\* that the tab had otherwise than the canvas
\* (_refuse_changed_runs, _check_run_approval).
THEOREM AcceptedAlways == Spec => []AcceptedAsShown
<1>1. IInv => AcceptedAsShown
  BY DEF IInv
<1> QED BY InvAlways, <1>1, PTL

\* A proposal takes effect once and its approval is used once
\* (_ensure_still_decidable, RunApprovals.take).
THEOREM DecidedAlways == Spec => []DecidedOnce
<1>1. IInv => DecidedOnce
  BY DEF IInv
<1> QED BY InvAlways, <1>1, PTL

\* Agents cannot change what an approval holds (_guard_approved_runs).
THEOREM LockAlways == Spec => []LockHolds
<1>1. IInv => LockHolds
  BY DEF IInv
<1> QED BY InvAlways, <1>1, PTL

-----------------------------------------------------------------------------
(* Types and limits. *)

Accepted == {p \in Proposal : status[p] = "accepted"}

\* The canvas, and what a proposal shows while it is kept.
Shown ==
  /\ graph \in Graphs /\ epoch \in Nat /\ tidying \in BOOLEAN /\ others \in 0..MaxOthers
  /\ \A p \in Proposal : status[p] \notin {"none", "closed"} =>
       shown[p].offer \in Offers /\ shown[p].epoch \in Nat /\ shown[p].epoch <= epoch
  /\ DOMAIN req = Tab /\ \A t \in Tab : req[t].kind \in {"idle", "accept", "reject", "run"}

\* What is limited.
Limits ==
  /\ IsFiniteSet(Open) /\ Cardinality(Open) <= MaxOpen
  /\ IsFiniteSet(Accepted)
  /\ IsFiniteSet(approvals) /\ Cardinality(approvals) <= MaxApprovals /\ \A a \in approvals : a.at \in Nat
  /\ IsFiniteSet(going) /\ Cardinality(going) <= MaxGoing

\* What a run was sent are settings.
Settings == \A r \in going : \A n \in DOMAIN r.sent : r.sent[n] \in Value

\* The bounds are numbers.
LEMMA Bounds == MaxOpen \in Nat /\ MaxApprovals \in Nat /\ MaxOthers \in Nat /\ MaxGoing \in Nat
BY BoundAssumption

\* A part of a set within a limit is within it, and one more than a set below it.
LEMMA WithinLimit ==
  ASSUME NEW S, IsFiniteSet(S), NEW N \in Nat, NEW T, NEW x,
         \/ T \subseteq S /\ Cardinality(S) <= N
         \/ T \subseteq S \cup {x} /\ Cardinality(S) < N
  PROVE  IsFiniteSet(T) /\ Cardinality(T) <= N
<1>1. Cardinality(S) \in Nat
  BY FS_CardinalityType
<1>2. IsFiniteSet(S \cup {x}) /\ Cardinality(S \cup {x}) <= Cardinality(S) + 1
  BY <1>1, FS_AddElement
<1>3. CASE T \subseteq S /\ Cardinality(S) <= N
  <2>1. IsFiniteSet(T) /\ Cardinality(T) <= Cardinality(S)
    BY <1>3, FS_Subset
  <2> QED BY <1>1, <1>3, <2>1, FS_CardinalityType
<1>4. CASE T \subseteq S \cup {x} /\ Cardinality(S) < N
  <2>1. IsFiniteSet(T) /\ Cardinality(T) <= Cardinality(S \cup {x})
    BY <1>2, <1>4, FS_Subset
  <2>2. Cardinality(T) \in Nat /\ Cardinality(S \cup {x}) \in Nat
    BY <1>2, <2>1, FS_CardinalityType
  <2> QED BY <1>1, <1>2, <1>4, <2>1, <2>2
<1> QED BY <1>3, <1>4

\* A canvas with the offer staged is a canvas, and no node is gone from it.
LEMMA StagedTyped ==
  ASSUME NEW g \in Graphs, NEW o \in Offers, Stageable(g, o)
  PROVE  Staged(g, o) \in Graphs /\ On(g) \subseteq On(Staged(g, o)) /\ o.run \subseteq On(Staged(g, o))
<1> DEFINE s == Staged(g, o)
<1>1. /\ DOMAIN o.params \subseteq Node /\ o.edges \subseteq Wire /\ o.run \subseteq Node
      /\ \A n \in DOMAIN o.params : o.params[n] \in Value
      /\ Gone \notin Value
  BY OfferAssumption, WireAssumption
<1>2. /\ g.value \in [Node -> Value \cup {Gone}] /\ g.wires \subseteq Wire
      /\ \A e \in g.wires : {e[1], e[2]} \subseteq On(g)
      /\ g = [value |-> g.value, wires |-> g.wires]
  BY DEF Graphs
<1>3. /\ s.value = [n \in Node |-> IF n \in DOMAIN o.params THEN o.params[n] ELSE g.value[n]]
      /\ s.wires = g.wires \cup o.edges /\ s = [value |-> s.value, wires |-> s.wires]
  BY DEF Staged
<1> HIDE DEF s
<1>4. s.value \in [Node -> Value \cup {Gone}]
  BY <1>1, <1>2, <1>3
<1>5. On(g) \subseteq On(s)
  BY <1>1, <1>2, <1>3 DEF On
<1>6. \A e \in s.wires : {e[1], e[2]} \subseteq On(s)
  <2>1. \A e \in o.edges : {e[1], e[2]} \subseteq On(g)
    BY DEF Stageable, References
  <2> QED BY <1>2, <1>3, <1>5, <2>1
<1>7. s.wires \in SUBSET Wire
  BY <1>1, <1>2, <1>3
<1>8. s \in Graphs
  BY <1>3, <1>4, <1>6, <1>7 DEF Graphs
<1>9. o.run \subseteq On(s)
  BY <1>5 DEF Stageable, References
<1> QED BY <1>5, <1>8, <1>9 DEF s

\* Every edit leaves a canvas.
LEMMA EditsTyped ==
  ASSUME graph \in Graphs, NEW g \in Edits
  PROVE  g \in Graphs
<1>1. /\ graph.value \in [Node -> Value \cup {Gone}] /\ graph.wires \subseteq Wire
      /\ \A e \in graph.wires : {e[1], e[2]} \subseteq On(graph)
      /\ graph = [value |-> graph.value, wires |-> graph.wires] /\ Gone \notin Value
  BY WireAssumption DEF Graphs
<1>2. ASSUME NEW value \in [Node -> Value \cup {Gone}], NEW wires \in SUBSET Wire,
             g = [value |-> value, wires |-> wires],
             \A e \in wires : e[1] \in Node /\ e[2] \in Node /\ value[e[1]] # Gone /\ value[e[2]] # Gone
      PROVE  g \in Graphs
  BY <1>2 DEF Graphs, On
<1>3. \A e \in graph.wires : /\ e[1] \in Node /\ e[2] \in Node
                             /\ graph.value[e[1]] # Gone /\ graph.value[e[2]] # Gone
  BY <1>1 DEF On
<1>4. ASSUME NEW n \in Node, NEW v \in Value, g = [graph EXCEPT !.value[n] = v]
      PROVE  g \in Graphs
  <2>1. g = [value |-> [graph.value EXCEPT ![n] = v], wires |-> graph.wires]
    BY <1>1, <1>4
  <2>2. [graph.value EXCEPT ![n] = v] \in [Node -> Value \cup {Gone}]
    BY <1>1
  <2> QED BY <1>1, <1>2, <1>3, <2>1, <2>2
<1>5. ASSUME NEW e \in {d \in Wire : {d[1], d[2]} \subseteq On(graph)},
             g = [graph EXCEPT !.wires = (@ \cup {e}) \ (@ \cap {e})]
      PROVE  g \in Graphs
  <2>1. g = [value |-> graph.value, wires |-> (graph.wires \cup {e}) \ (graph.wires \cap {e})]
    BY <1>1, <1>5
  <2>2. e \in Wire /\ e[1] \in Node /\ e[2] \in Node /\ graph.value[e[1]] # Gone /\ graph.value[e[2]] # Gone
    BY <1>5 DEF On
  <2> QED BY <1>1, <1>2, <1>3, <2>1, <2>2
<1>6. ASSUME NEW n \in On(graph),
             g = [value |-> [graph.value EXCEPT ![n] = Gone],
                  wires |-> {e \in graph.wires : n \notin {e[1], e[2]}}]
      PROVE  g \in Graphs
  <2>1. [graph.value EXCEPT ![n] = Gone] \in [Node -> Value \cup {Gone}]
    BY <1>1
  <2> QED BY <1>1, <1>2, <1>3, <1>6, <2>1
<1>7. \/ \E n \in Node, v \in Value : g = [graph EXCEPT !.value[n] = v]
      \/ \E e \in {d \in Wire : {d[1], d[2]} \subseteq On(graph)} :
           g = [graph EXCEPT !.wires = (@ \cup {e}) \ (@ \cap {e})]
      \/ \E n \in On(graph) : g = [value |-> [graph.value EXCEPT ![n] = Gone],
                                   wires |-> {e \in graph.wires : n \notin {e[1], e[2]}}]
  BY DEF Edits
<1> QED BY <1>4, <1>5, <1>6, <1>7

\* So does a run that writes its settings back: it gives none to a node that is gone.
LEMMA ReturnedTyped ==
  ASSUME graph \in Graphs, NEW r, \A n \in DOMAIN r.sent : r.sent[n] \in Value,
         NEW s, NEW set \in [s -> Value]
  PROVE  Returned(r, set) \in Graphs
<1> DEFINE g == Returned(r, set)
<1>1. /\ graph.value \in [Node -> Value \cup {Gone}] /\ graph.wires \subseteq Wire
      /\ \A e \in graph.wires : {e[1], e[2]} \subseteq On(graph)
      /\ graph = [value |-> graph.value, wires |-> graph.wires] /\ Gone \notin Value
  BY WireAssumption DEF Graphs
<1>2. PICK value : value = [n \in Node |-> IF n \notin r.scope \cap On(graph) THEN graph.value[n]
                                    ELSE IF n \in DOMAIN set THEN set[n]
                                    ELSE IF n \in DOMAIN r.sent THEN r.sent[n] ELSE graph.value[n]]
  OBVIOUS
<1>3. g = [value |-> value, wires |-> graph.wires]
  BY <1>1, <1>2 DEF Returned
<1>4. value \in [Node -> Value \cup {Gone}]
  BY <1>1, <1>2
<1>5. \A n \in On(graph) : n \in Node /\ value[n] # Gone
  BY <1>1, <1>2 DEF On
<1> HIDE DEF g
<1>6. On(graph) \subseteq On(g)
  BY <1>3, <1>5 DEF On
<1> QED BY <1>1, <1>3, <1>4, <1>6 DEF Graphs, g

\* The canvas stays one through every step.
LEMMA GraphNext ==
  ASSUME Types, Shown, Settings, [Next]_vars
  PROVE  graph' \in Graphs
<1>1. CASE UNCHANGED graph
  BY <1>1 DEF Shown
<1>2. ASSUME NEW g \in Edits, AgentEdit(g) \/ PersonEdit(g) PROVE graph' \in Graphs
  BY <1>2, EditsTyped DEF AgentEdit, PersonEdit, Shown
<1>3. ASSUME NEW g \in Canvases \cup {Cleared}, Replace(g) PROVE graph' \in Graphs
  <2>1. Cleared \in Graphs
    BY DEF Cleared, Graphs
  <2> QED BY <1>3, <2>1, CanvasAssumption DEF Replace
<1>4. ASSUME NEW t \in Tab, Accept(t), graph' # graph PROVE graph' \in Graphs
  <2>1. /\ Decidable(t) /\ Fits(req[t].of)
        /\ graph' = Staged(graph, shown[req[t].of].offer)
    BY <1>4 DEF Accept
  <2>2. shown[req[t].of].offer \in Offers /\ Stageable(graph, shown[req[t].of].offer)
    BY <2>1 DEF Decidable, Fits, Open, Shown
  <2> QED BY <2>1, <2>2, StagedTyped DEF Shown
<1>5. ASSUME NEW r \in going, EndRun(r), graph' # graph PROVE graph' \in Graphs
  <2>1. PICK s \in SUBSET (Enriching \cap r.scope) : \E set \in [s -> Value] : graph' = Returned(r, set)
    BY <1>5 DEF EndRun
  <2>2. PICK set \in [s -> Value] : graph' = Returned(r, set)
    BY <2>1
  <2> QED BY <2>2, ReturnedTyped DEF Shown, Settings
<1>6. \/ UNCHANGED graph
      \/ \E g \in Edits : AgentEdit(g) \/ PersonEdit(g)
      \/ \E g \in Canvases \cup {Cleared} : Replace(g)
      \/ \E t \in Tab : Accept(t)
      \/ \E r \in going : EndRun(r)
  <2>1. CASE Agents
    BY <2>1 DEF Agents, Propose, Withdraw, Undo, Reopen, Draft, shared
  <2>2. CASE Canvas
    BY <2>2 DEF Canvas, Tidy
  <2>3. CASE Person
    BY <2>3 DEF Person, Reject, Run, Decide, AskRun, shared
  <2>4. CASE Runs
    BY <2>4 DEF Runs, StartRun, Release, shared
  <2>5. CASE Restart \/ UNCHANGED vars
    BY <2>5 DEF Restart, vars, shared
  <2> QED BY <2>1, <2>2, <2>3, <2>4, <2>5 DEF Next
<1> QED BY <1>1, <1>2, <1>3, <1>4, <1>5, <1>6

\* A step that opens no proposal: what is kept shows what it showed, on a canvas that is
\* no older.
Calm ==
  /\ epoch' \in {epoch, epoch + 1}
  /\ \A p \in Proposal : status'[p] \notin {"none", "closed"} =>
       status[p] \notin {"none", "closed"} /\ shown'[p] = shown[p]
  /\ \A p \in Proposal : status'[p] = "open" => status[p] = "open"

\* Closing a proposal keeps what the others show.
LEMMA CloseCalm ==
  ASSUME Types, epoch' = epoch, NEW p \in Proposal, Close(p, "closed")
  PROVE  Calm
BY DEF Types, Close, Calm

\* So does a step that leaves proposals alone.
LEMMA SameCalm == ASSUME epoch' = epoch, UNCHANGED book PROVE Calm
BY DEF Calm, book

\* The canvas's own steps and a restart only end proposals.
LEMMA CanvasCalm == ASSUME Types, Shown, Canvas \/ Restart PROVE Calm
<1>1. CASE Tidy
  BY <1>1, SameCalm DEF Tidy
<1>2. ASSUME NEW g, AgentEdit(g) \/ PersonEdit(g) PROVE Calm
  BY <1>2 DEF AgentEdit, PersonEdit, AfterRemoval, Types, Calm, Open
<1>3. ASSUME NEW S, CloseAll(S), epoch' \in {epoch, epoch + 1} PROVE Calm
  BY <1>3 DEF CloseAll, Types, Calm
<1>4. CASE Restart
  BY <1>3, <1>4 DEF Restart
<1>5. ASSUME NEW g, Replace(g) PROVE Calm
  BY <1>3, <1>5 DEF Replace
<1> QED BY <1>1, <1>2, <1>4, <1>5 DEF Canvas

\* The person's steps: an Accept or a Reject ends one proposal.
LEMMA PersonCalm == ASSUME Types, Shown, Person PROVE Calm
<1>1. PICK t \in Tab : \/ Accept(t) \/ Reject(t) \/ Run(t)
                       \/ \E p \in Proposal, kind \in {"accept", "reject"} : Decide(t, p, kind)
                       \/ \E a \in approvals : AskRun(t, a)
  BY DEF Person
<1>2. epoch' = epoch
  BY <1>1 DEF Accept, Reject, Run, Decide, AskRun, shared
<1>3. CASE UNCHANGED book
  BY <1>2, <1>3, SameCalm
<1>4. CASE Decidable(t) /\ Close(req[t].of, "closed")
  BY <1>2, <1>4, CloseCalm DEF Decidable, Open
<1>5. CASE Decidable(t) /\ status' = [status EXCEPT ![req[t].of] = "accepted"] /\ UNCHANGED shown
  <2>1. req[t].of \in Proposal /\ status[req[t].of] = "open"
    BY <1>5 DEF Decidable, Open
  <2> QED BY <1>2, <1>5, <2>1 DEF Types, Calm
<1> QED BY <1>1, <1>3, <1>4, <1>5 DEF Accept, Reject, Run, Decide, AskRun, Decidable

\* Runs change no proposal.
LEMMA RunsCalm == ASSUME Runs \/ UNCHANGED vars PROVE Calm
BY SameCalm DEF Runs, StartRun, EndRun, Release, vars, shared

\* The agents' steps: one may open a proposal, when there is room.
LEMMA AgentsShown ==
  ASSUME Types, Shown, Limits, Agents
  PROVE  /\ UNCHANGED <<epoch, tidying, others, req, approvals, going>>
         /\ \A p \in Proposal : status'[p] \notin {"none", "closed"} =>
              shown'[p].offer \in Offers /\ shown'[p].epoch \in Nat /\ shown'[p].epoch <= epoch
         /\ IsFiniteSet(Open') /\ Cardinality(Open') <= MaxOpen
<1>1. PICK p \in Proposal : Propose(p) \/ Withdraw(p) \/ Undo(p) \/ Reopen(p) \/ \E o \in Offers : Draft(p, o)
  BY DEF Agents
<1>2. UNCHANGED <<epoch, tidying, others, req, approvals, going>>
  BY <1>1 DEF Propose, Withdraw, Undo, Reopen, Draft, shared
<1>3. ASSUME Calm
      PROVE  /\ \A q \in Proposal : status'[q] \notin {"none", "closed"} =>
                  shown'[q].offer \in Offers /\ shown'[q].epoch \in Nat /\ shown'[q].epoch <= epoch
             /\ IsFiniteSet(Open') /\ Cardinality(Open') <= MaxOpen
  <2>1. Open' \subseteq Open
    BY <1>3 DEF Calm, Open
  <2>2. IsFiniteSet(Open') /\ Cardinality(Open') <= MaxOpen
    BY <2>1, WithinLimit, Bounds DEF Limits
  <2> QED BY <1>3, <2>2 DEF Calm, Shown
<1>4. CASE Close(p, "closed")
  BY <1>2, <1>3, <1>4, CloseCalm
<1>5. CASE Undo(p)
  <2>1. Calm
    BY <1>2, <1>5 DEF Undo, Types, Calm
  <2> QED BY <1>2, <1>3, <2>1
<1>6. ASSUME NEW o \in Offers, Draft(p, o)
      PROVE  /\ \A q \in Proposal : status'[q] \notin {"none", "closed"} =>
                  shown'[q].offer \in Offers /\ shown'[q].epoch \in Nat /\ shown'[q].epoch <= epoch
             /\ IsFiniteSet(Open') /\ Cardinality(Open') <= MaxOpen
  <2>1. /\ status' = [status EXCEPT ![p] = "draft"]
        /\ shown' = [shown EXCEPT ![p] =
             [offer |-> o, digest |-> Fingerprint(Staged(graph, o), o.run), epoch |-> epoch]]
    BY <1>6 DEF Draft
  <2>2. /\ status'[p] = "draft" /\ shown'[p].offer = o /\ shown'[p].epoch = epoch
        /\ \A q \in Proposal \ {p} : status'[q] = status[q] /\ shown'[q] = shown[q]
    BY <2>1 DEF Types
  <2>3. Open' \subseteq Open
    BY <2>2 DEF Open
  <2>4. IsFiniteSet(Open') /\ Cardinality(Open') <= MaxOpen
    BY <2>3, WithinLimit, Bounds DEF Limits
  <2> QED BY <2>2, <2>4 DEF Shown
<1>7. CASE Propose(p)
  <2>1. CASE ~(shown[p].epoch = epoch /\ Cardinality(Open) < MaxOpen)
    BY <1>4, <1>7, <2>1 DEF Propose
  <2>2. CASE shown[p].epoch = epoch /\ Cardinality(Open) < MaxOpen
    <3>1. /\ status[p] = "draft" /\ status' = [status EXCEPT ![p] = "open"]
          /\ shown' = [shown EXCEPT ![p] =
               [offer |-> @.offer, digest |-> @.digest, epoch |-> epoch,
                base |-> [n \in DOMAIN @.offer.params |-> graph.value[n]]]]
      BY <1>7, <2>2 DEF Propose
    <3>2. /\ status'[p] = "open" /\ shown'[p].offer = shown[p].offer /\ shown'[p].epoch = epoch
          /\ \A q \in Proposal \ {p} : status'[q] = status[q] /\ shown'[q] = shown[q]
      BY <3>1 DEF Types
    <3>3. Open' \subseteq Open \cup {p}
      BY <3>2 DEF Open
    <3>4. IsFiniteSet(Open') /\ Cardinality(Open') <= MaxOpen
      BY <2>2, <3>3, WithinLimit, Bounds DEF Limits
    <3> QED BY <1>2, <3>1, <3>2, <3>4 DEF Shown
  <2> QED BY <2>1, <2>2
<1>8. CASE Reopen(p)
  <2>1. status[p] = "undoing"
    BY <1>8 DEF Reopen
  <2>2. CASE /\ Fits(p) /\ Cardinality(Open) < MaxOpen
             /\ status' = [status EXCEPT ![p] = "open"] /\ UNCHANGED shown
    <3>1. status'[p] = "open" /\ \A q \in Proposal \ {p} : status'[q] = status[q]
      BY <2>2 DEF Types
    <3>2. Open' \subseteq Open \cup {p}
      BY <3>1 DEF Open
    <3>3. IsFiniteSet(Open') /\ Cardinality(Open') <= MaxOpen
      BY <2>2, <3>2, WithinLimit, Bounds DEF Limits
    <3> QED BY <1>2, <2>1, <2>2, <3>1, <3>3 DEF Shown
  <2>3. CASE status' = [status EXCEPT ![p] = "removed"] /\ UNCHANGED shown
    <3>1. Calm
      BY <1>2, <2>1, <2>3 DEF Types, Calm
    <3> QED BY <1>2, <1>3, <3>1
  <2> QED BY <1>4, <1>8, <2>2, <2>3 DEF Reopen
<1>9. CASE Withdraw(p)
  BY <1>4, <1>9 DEF Withdraw
<1> QED BY <1>1, <1>2, <1>5, <1>6, <1>7, <1>8, <1>9

\* The rest of the types.
LEMMA ShownNext ==
  ASSUME Types, Shown, Limits, Settings, [Next]_vars
  PROVE  Shown' /\ IsFiniteSet(Open') /\ Cardinality(Open') <= MaxOpen
<1>1. graph' \in Graphs
  BY GraphNext
<1>2. CASE Agents
  BY <1>1, <1>2, AgentsShown DEF Shown
<1>3. CASE Canvas \/ Person \/ Runs \/ Restart \/ UNCHANGED vars
  <2>1. Calm
    BY <1>3, CanvasCalm, PersonCalm, RunsCalm
  <2>2. Open' \subseteq Open
    BY <2>1 DEF Calm, Open
  <2>3. IsFiniteSet(Open') /\ Cardinality(Open') <= MaxOpen
    BY <2>2, WithinLimit, Bounds DEF Limits
  <2>4. epoch' \in Nat /\ epoch <= epoch'
    BY <2>1 DEF Calm, Shown
  <2>5. ASSUME NEW p \in Proposal, status'[p] \notin {"none", "closed"}
        PROVE  shown'[p].offer \in Offers /\ shown'[p].epoch \in Nat /\ shown'[p].epoch <= epoch'
    <3>1. shown'[p].offer \in Offers /\ shown'[p].epoch \in Nat /\ shown'[p].epoch <= epoch
      BY <2>1, <2>5 DEF Calm, Shown
    <3> QED BY <2>4, <3>1 DEF Shown
  <2>6. tidying' \in BOOLEAN
    BY <1>3 DEF Canvas, Tidy, AgentEdit, PersonEdit, Replace, Person, Accept, Reject, Run, Decide, AskRun,
              Runs, StartRun, EndRun, Release, Restart, shared, vars, Shown
  <2>7. others' = others \/ Counts
    BY <1>3 DEF Canvas, Tidy, AgentEdit, PersonEdit, Replace, Person, Accept, Reject, Run, Decide, AskRun,
              Runs, StartRun, EndRun, Release, Restart, shared, vars
  <2>8. others' \in 0..MaxOthers
    BY <2>7, Bounds DEF Counts, Shown
  <2>9. \/ req' = req \/ req' = [t \in Tab |-> Idle]
        \/ \E t \in Tab : req'[t].kind \in {"idle", "accept", "reject", "run"} /\ req' = [req EXCEPT ![t] = req'[t]]
    <3>1. CASE Person
      <4>1. Idle.kind = "idle"
        BY DEF Idle
      <4>2. PICK t \in Tab : \/ Accept(t) \/ Reject(t) \/ Run(t)
                             \/ \E p \in Proposal, kind \in {"accept", "reject"} : Decide(t, p, kind)
                             \/ \E a \in approvals : AskRun(t, a)
        BY <3>1 DEF Person
      <4>3. CASE Accept(t) \/ Reject(t) \/ Run(t)
        <5>1. req' = [req EXCEPT ![t] = Idle]
          BY <4>3 DEF Accept, Reject, Run
        <5>2. req'[t] = Idle
          BY <5>1, <1>1 DEF Shown
        <5> QED BY <4>1, <5>1, <5>2
      <4>4. ASSUME NEW p \in Proposal, NEW kind \in {"accept", "reject"}, Decide(t, p, kind)
            PROVE  req'[t].kind \in {"idle", "accept", "reject", "run"} /\ req' = [req EXCEPT ![t] = req'[t]]
        <5> DEFINE one == [kind |-> kind, of |-> p, fence |-> epoch]
        <5>1. req' = [req EXCEPT ![t] = one]
          BY <4>4 DEF Decide
        <5>2. one.kind \in {"idle", "accept", "reject", "run"}
          OBVIOUS
        <5> HIDE DEF one
        <5>3. req'[t] = one
          BY <5>1, <1>1 DEF Shown
        <5> QED BY <5>1, <5>2, <5>3
      <4>5. ASSUME NEW a \in approvals, AskRun(t, a)
            PROVE  req'[t].kind \in {"idle", "accept", "reject", "run"} /\ req' = [req EXCEPT ![t] = req'[t]]
        <5> DEFINE one == [kind |-> "run", of |-> a.of, fence |-> epoch, asks |-> Shape(graph, a.run \cap On(graph))]
        <5>1. req' = [req EXCEPT ![t] = one]
          BY <4>5 DEF AskRun
        <5>2. one.kind \in {"idle", "accept", "reject", "run"}
          OBVIOUS
        <5> HIDE DEF one
        <5>3. req'[t] = one
          BY <5>1, <1>1 DEF Shown
        <5> QED BY <5>1, <5>2, <5>3
      <4> QED BY <4>2, <4>3, <4>4, <4>5
    <3>2. CASE Canvas \/ Runs \/ Restart \/ UNCHANGED vars
      BY <3>2 DEF Canvas, Tidy, AgentEdit, PersonEdit, Replace, Runs, StartRun, EndRun, Release, Restart, vars
    <3> QED BY <1>3, <3>1, <3>2
  <2>10. DOMAIN req' = Tab /\ \A t \in Tab : req'[t].kind \in {"idle", "accept", "reject", "run"}
    <3>1. Idle.kind = "idle"
      BY DEF Idle
    <3> QED BY <2>9, <3>1 DEF Shown
  <2> QED BY <1>1, <2>3, <2>4, <2>5, <2>6, <2>8, <2>10 DEF Shown
<1> QED BY <1>2, <1>3 DEF Next

\* Every set of naturals that has members has a least one.
LEMMA LeastNatural ==
  ASSUME NEW T \in SUBSET Nat, T # {}
  PROVE  \E x \in T : \A y \in T : x <= y
<1> DEFINE R == {ss \in Nat \X Nat : ss[1] < ss[2]}
<1>1. IsWellFoundedOn(R, Nat)
  BY NatLessThanWellFounded DEF OpToRel
<1>2. \A x, y \in Nat : <<y, x>> \in R <=> y < x
  OBVIOUS
<1> HIDE DEF R
<1>3. PICK x \in T : \A y \in T : <<y, x>> \notin R
  BY <1>1, WFMin
<1>4. ASSUME NEW y \in T PROVE x <= y
  <2>1. x \in Nat /\ y \in Nat /\ ~(y < x)
    BY <1>2, <1>3
  <2> QED BY <2>1
<1> QED BY <1>4

\* One approval more: when that is one too many, the one granted first goes.
LEMMA GrantedFits ==
  ASSUME Limits, NEW a, a.at \in Nat
  PROVE  /\ Granted(a) \subseteq approvals \cup {a}
         /\ IsFiniteSet(Granted(a)) /\ Cardinality(Granted(a)) <= MaxApprovals
<1> DEFINE all == approvals \cup {a}
<1>1. /\ IsFiniteSet(all) /\ Cardinality(all) \in Nat /\ Cardinality(all) <= Cardinality(approvals) + 1
      /\ Cardinality(approvals) \in Nat /\ Cardinality(approvals) <= MaxApprovals /\ MaxApprovals \in Nat
  <2>1. /\ IsFiniteSet(approvals) /\ Cardinality(approvals) \in Nat
        /\ Cardinality(approvals) <= MaxApprovals /\ MaxApprovals \in Nat
    BY Bounds, FS_CardinalityType DEF Limits
  <2>2. IsFiniteSet(all) /\ (Cardinality(all) = Cardinality(approvals) \/ Cardinality(all) = Cardinality(approvals) + 1)
    <3>1. IsFiniteSet(all)
      BY <2>1, FS_AddElement
    <3>2. CASE a \in approvals
      <4>1. all = approvals
        BY <3>2
      <4> QED BY <2>1, <4>1
    <3>3. CASE a \notin approvals
      BY <2>1, <3>1, <3>3, FS_AddElement
    <3> QED BY <3>2, <3>3
  <2> HIDE DEF all
  <2> QED BY <2>1, <2>2
<1>2. \A b \in all : b.at \in Nat
  BY DEF Limits
<1>3. CASE Cardinality(all) <= MaxApprovals
  <2>1. Granted(a) = all
    BY <1>1, <1>3 DEF Granted
  <2> QED BY <1>1, <1>3, <2>1
<1>4. CASE Cardinality(all) > MaxApprovals
  <2>1. Granted(a) = {b \in all : \E c \in all : c.at < b.at}
    BY <1>4 DEF Granted
  <2> DEFINE T == {b.at : b \in all}
  <2>2. T \in SUBSET Nat /\ T # {}
    BY <1>2
  <2>3. PICK x \in T : \A y \in T : x <= y
    <3> HIDE DEF T
    <3> QED BY <2>2, LeastNatural
  <2>4. PICK b \in all : b.at = x
    BY <2>3
  <2>5. b \notin Granted(a)
    <3>1. \A c \in all : b.at <= c.at
      BY <2>3, <2>4
    <3>2. \A c \in all : ~(c.at < b.at)
      BY <1>2, <2>4, <3>1
    <3> QED BY <2>1, <3>2
  <2> HIDE DEF all
  <2>6. Granted(a) \subseteq all \ {b} /\ b \in all
    BY <2>1, <2>4, <2>5
  <2>7. IsFiniteSet(all \ {b}) /\ Cardinality(all \ {b}) = Cardinality(all) - 1
    BY <1>1, <2>6, FS_RemoveElement
  <2>8. IsFiniteSet(Granted(a)) /\ Cardinality(Granted(a)) <= Cardinality(all \ {b})
    BY <2>6, <2>7, FS_Subset
  <2>9. Cardinality(Granted(a)) \in Nat /\ Cardinality(all \ {b}) \in Nat
    BY <2>7, <2>8, FS_CardinalityType
  <2> QED BY <1>1, <2>6, <2>7, <2>8, <2>9 DEF all
<1>5. Cardinality(all) \in Nat /\ MaxApprovals \in Nat
  BY <1>1
<1> QED BY <1>3, <1>4, <1>5

\* What an Accept changes, when it takes effect.
LEMMA AcceptFacts ==
  ASSUME Types, Shown, NEW t \in Tab, Accept(t), approvals' # approvals
  PROVE  LET p == req[t].of
             o == shown[p].offer
             g == Staged(graph, o)
         IN /\ p \in Proposal /\ o \in Offers /\ Stageable(graph, o) /\ approvals' = Granted(Approval(p, g))
BY DEF Accept, Decidable, Fits, Open, Shown

\* The limits hold after every step.
LEMMA LimitsNext ==
  ASSUME IInv, Shown, Limits, Settings, [Next]_vars
  PROVE  Limits'
<1>1. Types /\ Types' /\ IsFiniteSet(Open') /\ Cardinality(Open') <= MaxOpen
  <2>1. IInv'
    BY AgentsKeep, CanvasKeeps, PersonKeeps, RunsKeep, RestartKeeps, StutterKeeps DEF Next
  <2> QED BY <2>1, ShownNext DEF IInv
<1>2. ASSUME NEW t \in Tab, Accept(t), approvals' # approvals
      PROVE  /\ IsFiniteSet(approvals') /\ Cardinality(approvals') <= MaxApprovals
             /\ \A a \in approvals' : a.at \in Nat
  <2> DEFINE p == req[t].of
             g == Staged(graph, shown[p].offer)
  <2>1. approvals' = Granted(Approval(p, g))
    BY <1>1, <1>2, AcceptFacts
  <2>2. Approval(p, g).at = Cardinality({q \in Proposal : status[q] = "accepted"})
    BY DEF Approval
  <2>3. Approval(p, g).at \in Nat
    BY <2>2, FS_CardinalityType DEF Limits, Accepted
  <2> HIDE DEF p, g
  <2> QED BY <2>1, <2>3, GrantedFits DEF Limits
<1>3. ASSUME approvals' \subseteq approvals
      PROVE  /\ IsFiniteSet(approvals') /\ Cardinality(approvals') <= MaxApprovals
             /\ \A a \in approvals' : a.at \in Nat
  BY <1>3, WithinLimit, Bounds DEF Limits
<1>4. approvals' \subseteq approvals \/ \E t \in Tab : Accept(t)
  <2>1. CASE Agents
    BY <1>1, <2>1, AgentsShown
  <2>2. CASE Canvas
    BY <2>2 DEF Canvas, Tidy, AgentEdit, PersonEdit, Replace
  <2>3. CASE Person
    BY <2>3 DEF Person, Reject, Run, Decide, AskRun, Without
  <2>4. CASE Runs
    BY <2>4 DEF Runs, StartRun, EndRun, Release, Without
  <2>5. CASE Restart \/ UNCHANGED vars
    BY <2>5 DEF Restart, vars
  <2> QED BY <2>1, <2>2, <2>3, <2>4, <2>5 DEF Next
<1>5. IsFiniteSet(Accepted')
  <2>1. \E p : Accepted' \subseteq Accepted \cup {p}
    <3>1. CASE \E t \in Tab : Accept(t)
      <4>1. PICK t \in Tab : Accept(t)
        BY <3>1
      <4>2. \/ status' = status
            \/ req[t].of \in Proposal /\ status' = [status EXCEPT ![req[t].of] = "accepted"]
            \/ req[t].of \in Proposal /\ status' = [status EXCEPT ![req[t].of] = "closed"]
        BY <4>1 DEF Accept, Close, book, Decidable, Open
      <4>3. \A q \in Proposal \ {req[t].of} : status'[q] = status[q]
        BY <1>1, <4>2 DEF Types
      <4> QED BY <4>3 DEF Accepted
    <3>2. CASE ~ \E t \in Tab : Accept(t)
      <4>1. applied' = applied
        BY <3>2 DEF Next, Agents, Propose, Withdraw, Undo, Reopen, Draft, Canvas, Tidy, AgentEdit, PersonEdit,
                    Replace, Person, Reject, Run, Decide, AskRun, Runs, StartRun, EndRun, Release, Restart,
                    past, vars
      <4>2. DecidedOnce /\ DecidedOnce'
        <5>1. IInv'
          BY AgentsKeep, CanvasKeeps, PersonKeeps, RunsKeep, RestartKeeps, StutterKeeps DEF Next
        <5> QED BY <5>1 DEF IInv
      <4>3. Accepted' \subseteq Accepted
        BY <4>1, <4>2 DEF DecidedOnce, Accepted
      <4> QED BY <4>3
    <3> QED BY <3>1, <3>2
  <2>2. PICK p : Accepted' \subseteq Accepted \cup {p}
    BY <2>1
  <2>3. IsFiniteSet(Accepted \cup {p})
    BY FS_AddElement DEF Limits
  <2> QED BY <2>2, <2>3, FS_Subset
<1>6. IsFiniteSet(going') /\ Cardinality(going') <= MaxGoing
  <2>1. \E r : going' \subseteq going \/ (going' \subseteq going \cup {r} /\ Cardinality(going) < MaxGoing)
    <3>1. CASE Agents
      BY <1>1, <3>1, AgentsShown
    <3>2. CASE Canvas
      BY <3>2 DEF Canvas, Tidy, AgentEdit, PersonEdit, Replace
    <3>3. CASE Person
      BY <3>3 DEF Person, Accept, Reject, Run, Decide, AskRun
    <3>4. CASE Runs
      BY <3>4 DEF Runs, StartRun, EndRun, Release
    <3>5. CASE Restart \/ UNCHANGED vars
      BY <3>5 DEF Restart, vars
    <3> QED BY <3>1, <3>2, <3>3, <3>4, <3>5 DEF Next
  <2> QED BY <2>1, WithinLimit, Bounds DEF Limits
<1> QED BY <1>1, <1>2, <1>3, <1>4, <1>5, <1>6 DEF Limits

\* Fingerprints of nodes on the canvas hold settings.
LEMMA SettingsNext ==
  ASSUME IInv, Settings, [Next]_vars
  PROVE  Settings'
<1>1. ASSUME NEW scope, NEW sent \in OfTab(scope) \cup {Unsent} PROVE \A n \in DOMAIN sent : sent[n] \in Value
  BY DEF OfTab, Unsent
<1>2. ASSUME NEW n \in Node, StartRun(n) PROVE Settings'
  <2>1. PICK sent \in OfTab(RunScope(graph, {n})) \cup {Unsent} :
          going' = going \cup {[scope |-> RunScope(graph, {n}), sent |-> sent]}
    BY <1>2 DEF StartRun
  <2> QED BY <1>1, <2>1 DEF Settings
<1>3. ASSUME NEW t \in Tab, Run(t), going' # going PROVE Settings'
  <2>1. PICK sent \in OfTab(DOMAIN req[t].asks) : going' = going \cup {[scope |-> DOMAIN sent, sent |-> sent]}
    BY <1>3 DEF Run
  <2> QED BY <1>1, <2>1 DEF Settings
<1>4. \/ going' \subseteq going
      \/ \E n \in Node : StartRun(n)
      \/ \E t \in Tab : Run(t)
  <2>1. CASE Agents
    BY <2>1 DEF Agents, Propose, Withdraw, Undo, Reopen, Draft
  <2>2. CASE Canvas
    BY <2>2 DEF Canvas, Tidy, AgentEdit, PersonEdit, Replace
  <2>3. CASE Person
    BY <2>3 DEF Person, Accept, Reject, Decide, AskRun
  <2>4. CASE Runs
    BY <2>4 DEF Runs, EndRun, Release
  <2>5. CASE Restart \/ UNCHANGED vars
    BY <2>5 DEF Restart, vars
  <2> QED BY <2>1, <2>2, <2>3, <2>4, <2>5 DEF Next
<1> QED BY <1>2, <1>3, <1>4 DEF Settings

\* The type invariant: the canvas is one, its wires joining nodes that are on it; and there
\* are no more open proposals, approvals and runs than MAX_OPEN_TOTAL, MAX_APPROVALS and
\* the bound on runs.
THEOREM TypeCorrect == Spec => []TypeOK
<1>1. Init => Shown /\ Limits /\ Settings
  <2> SUFFICES ASSUME Init PROVE Shown /\ Limits /\ Settings
    OBVIOUS
  <2>1. Open = {} /\ Accepted = {} /\ approvals = {} /\ going = {}
    BY DEF Init, Open, Accepted
  <2>2. Shown
    <3>1. /\ graph \in Graphs /\ epoch = 0 /\ tidying = FALSE
          /\ status = [p \in Proposal |-> "none"] /\ shown = [p \in Proposal |-> Nothing]
          /\ req = [t \in Tab |-> Idle] /\ others = 0
      BY CanvasAssumption DEF Init
    <3>2. DOMAIN req = Tab /\ \A t \in Tab : req[t].kind \in {"idle", "accept", "reject", "run"}
      <4>1. Idle.kind = "idle"
        BY DEF Idle
      <4> QED BY <3>1, <4>1
    <3>3. others \in 0..MaxOthers
      BY <3>1, Bounds
    <3>4. \A p \in Proposal : status[p] = "none"
      BY <3>1
    <3> QED BY <3>1, <3>2, <3>3, <3>4 DEF Shown
  <2>3. Limits
    BY <2>1, Bounds, FS_EmptySet DEF Limits
  <2>4. Settings
    BY <2>1 DEF Settings
  <2> QED BY <2>2, <2>3, <2>4
<1>2. IInv /\ Shown /\ Limits /\ Settings /\ [Next]_vars => (Shown /\ Limits /\ Settings)'
  BY ShownNext, LimitsNext, SettingsNext DEF IInv
<1>3. IInv /\ Shown /\ Limits => TypeOK
  BY DEF IInv, Types, Shown, Limits, TypeOK
<1> QED BY <1>1, <1>2, <1>3, InvAlways, PTL DEF Spec
=============================================================================

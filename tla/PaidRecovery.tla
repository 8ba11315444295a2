---------------------------- MODULE PaidRecovery ----------------------------
(***************************************************************************)
(* The recovery journal of paid World Labs starts                          *)
(* (src/backend/services/provider_recovery.py) composed with what main.py  *)
(* puts around it: the admission of a run, the checkpoints its handlers    *)
(* publish, the canvas that carries provider IDs in node parameters, the   *)
(* bootstrap of a canvas that predates the journal, the commit of a canvas *)
(* edit, and the person's Forget and unlock.                               *)
(*                                                                         *)
(* The paid-start guard appears as its ledger (holds, pending, lifecycle): *)
(* its own journal, flocks and failures are ProviderStartGuard. All paid   *)
(* nodes here are of one kind. A provider ID is <<start, stage>>: a start  *)
(* is known by its operation first and by its world later.                 *)
(***************************************************************************)
EXTENDS Naturals, FiniteSets

CONSTANTS
  Proc,        \* backend processes
  Run,         \* run identifiers, each new to the journal
  Node,        \* World Labs nodes of the open canvas
  Pasted,      \* provider IDs a person or a file may bring back
  Seed,        \* the run of a record that a canvas carried ("graph-<source>-<uuid>")
  NoRun, NoProc, NoId, NoCommit,
  Mutation,    \* the lifecycle owner of a canvas mutation
  MaxRecords,  \* MAX_RECOVERY_RECORDS
  MaxStarts,   \* bound: paid starts of a behaviour
  MaxFaults,   \* bound: failed reads and writes
  MaxCrashes   \* bound: process crashes

ASSUME NamesAssumption == /\ Seed \notin Run /\ NoRun \notin Run /\ Mutation \notin Run
                          /\ NoProc \notin Proc /\ NoRun # Mutation
ASSUME BoundAssumption == {MaxRecords, MaxStarts, MaxFaults, MaxCrashes} \subseteq Nat
ASSUME FiniteAssumption == IsFiniteSet(Node)

VARIABLES
  records,       \* the recovery journal on disk
  graphFile,     \* the provider ID in each node's parameters in state.json
  holds,         \* guard: nodes held
  pending,       \* guard: nodes with a pre-start intent
  lifecycle,     \* guard: the process that owns the lifecycle flock
  up,            \* running processes
  runOf,         \* the run, or the mutation, that owns the lifecycle for a process
  stage,         \* where the handler of each leased node is
  fresh,         \* nodes leased for a fresh paid start
  ident,         \* the provider ID each handler works with
  reservations,  \* _reservations of each process
  storageErr,    \* _storage_error is set
  bootErr,       \* _graph_recovery_bootstrap_error is set
  graph,         \* the provider ID in each node's parameters in memory
  commit,        \* the candidate canvas being committed and the records seeded for it
  due,           \* history: <<node, start>> that may be billed, unresolved by the person
  starts, used, faults, crashes

memory == <<up, runOf, stage, fresh, ident, reservations, storageErr, bootErr, graph, commit>>
guard  == <<holds, pending, lifecycle>>
vars   == <<records, graphFile, guard, memory, due, starts, used, faults, crashes>>

Start  == 0..MaxStarts
Id     == Start \X {"op", "world"}
Issued == {id \in Pasted : id[1] <= starts}
Record == [run : Run \cup {Seed}, node : Node, id : Id]
Canvas == [Node -> Id \cup {NoId}]
Blank  == [n \in Node |-> NoId]
Stages == {"none", "ready", "sent", "polling", "done"}
Commit == [candidate : Canvas, additions : SUBSET Record]

ASSUME ValuesAssumption == /\ NoId \notin Id /\ "blank" \notin Id /\ NoCommit \notin Commit
                           /\ Pasted \subseteq Id

TypeOK ==
  /\ records \subseteq Record
  /\ graphFile \in Canvas
  /\ holds \subseteq Node /\ pending \subseteq Node
  /\ lifecycle \in Proc \cup {NoProc}
  /\ up \in [Proc -> BOOLEAN]
  /\ runOf \in [Proc -> Run \cup {NoRun, Mutation}]
  /\ stage \in [Proc -> [Node -> Stages]]
  /\ fresh \in [Proc -> SUBSET Node]
  /\ ident \in [Proc -> Canvas]
  /\ reservations \in [Proc -> SUBSET (Run \X Node)]
  /\ storageErr \in [Proc -> BOOLEAN] /\ bootErr \in [Proc -> BOOLEAN]
  /\ graph \in [Proc -> Canvas]
  /\ commit \in [Proc -> Commit \cup {NoCommit}]
  /\ due \subseteq Node \X Start
  /\ used \subseteq Run
  /\ {starts, faults, crashes} \subseteq Nat

\* A canvas saved before the shared journal existed may carry one start, 0.
Init ==
  /\ records = {}
  /\ graphFile \in {Blank} \cup {[Blank EXCEPT ![n] = <<0, "op">>] : n \in Node}
  /\ due = {<<n, 0>> : n \in {m \in Node : graphFile[m] # NoId}}
  /\ holds = {} /\ pending = {} /\ lifecycle = NoProc
  /\ up = [p \in Proc |-> FALSE]
  /\ runOf = [p \in Proc |-> NoRun]
  /\ stage = [p \in Proc |-> [n \in Node |-> "none"]]
  /\ fresh = [p \in Proc |-> {}]
  /\ ident = [p \in Proc |-> Blank]
  /\ reservations = [p \in Proc |-> {}]
  /\ storageErr = [p \in Proc |-> FALSE]
  /\ bootErr = [p \in Proc |-> FALSE]
  /\ graph = [p \in Proc |-> Blank]
  /\ commit = [p \in Proc |-> NoCommit]
  /\ starts = 0 /\ used = {} /\ faults = 0 /\ crashes = 0

-----------------------------------------------------------------------------
(* The store. An operation takes a state of the store, as one process sees *)
(* it, to the set of states it can end in: recs is the file, err its       *)
(* sticky health flag, boot the bootstrap error, ok tells whether the      *)
(* operation returned or raised.                                           *)

Store(p) == [recs |-> records, err |-> storageErr[p], boot |-> bootErr[p], bad |-> faults, ok |-> TRUE]

Refused(st) == [st EXCEPT !.ok = FALSE]

\* The lock or the reload fails: raised, the health flag as it was.
Unread(st) == IF st.bad < MaxFaults THEN {[Refused(st) EXCEPT !.bad = @ + 1]} ELSE {}

\* The file holds W, and the health flag is set; or it is clear.
Torn(s, W) == [s EXCEPT !.recs = W, !.err = TRUE]
Swept(s, W) == [s EXCEPT !.recs = W, !.err = FALSE]

\* _persist of R: done, or failed before or after the rename.
Saved(st, R) ==
  {[st EXCEPT !.recs = R]} \cup
  {Torn(s, W) : s \in Unread(st), W \in {st.recs, R}}

Journaled(R, n, id) == \E x \in R : x.node = n /\ x.id = id
HasKey(R, r, n) == \E x \in R : x.run = r /\ x.node = n
Carried(G) == {n \in Node : G[n] # NoId}

\* A mutant of Additions: a node with any record counts as journaled.
AdditionsOfNodes(R, G) ==
  {[run |-> Seed, node |-> n, id |-> G[n]] : n \in {m \in Carried(G) : \A x \in R : x.node # m}}

\* The records a canvas carries that the journal lacks.
Additions(R, G) ==
  {[run |-> Seed, node |-> n, id |-> G[n]] : n \in {m \in Carried(G) : ~Journaled(R, m, G[m])}}

\* A mutant of HasRoom: the file is counted without what is reserved of it.
HasRoomNow(R, res) == Cardinality(R) <= MaxRecords

\* The journal has room for the records R beside the reservations res.
HasRoom(R, res) == Cardinality(R) + Cardinality(res) <= MaxRecords

\* ensure_many, with the reservations of the calling process.
Ensured(st, res, G) ==
  LET more == st.recs \cup Additions(st.recs, G) IN
  IF Carried(G) = {} THEN {st}
  ELSE IF st.err THEN {Refused(st)}
  ELSE Unread(st) \cup
       IF ~HasRoom(more, res) THEN {Refused(st)}
       ELSE IF more = st.recs THEN {st} ELSE Saved(st, more)

\* verify_writable asks the disk, not the flag.
Verified(st) == {[st EXCEPT !.err = FALSE]} \cup {[s EXCEPT !.err = TRUE] : s \in Unread(st)}

\* set: a known identity keeps its first record, else the record of this run
\* and node is replaced.
SetIn(st, res, r, n, id) ==
  IF st.err THEN {Refused(st)}
  ELSE Unread(st) \cup
       IF Journaled(st.recs, n, id) THEN {st}
       ELSE IF ~HasKey(st.recs, r, n) /\ Cardinality(st.recs) + Cardinality(res \ {<<r, n>>}) >= MaxRecords
         THEN {Refused(st)}
       ELSE Saved(st, {x \in st.recs : ~(x.run = r /\ x.node = n)}
                      \cup {[run |-> r, node |-> n, id |-> id]})

\* delete and delete_many_exact: the reload clears the flag and a failed
\* save leaves it clear.
Removed(st, R) ==
  Unread(st) \cup {Swept(st, st.recs \ R)} \cup
  {Swept(s, W) : s \in Unread(st), W \in {st.recs, st.recs \ R}}

\* What process p leaves in the store.
Leave(p, st) ==
  /\ records' = st.recs
  /\ storageErr' = [storageErr EXCEPT ![p] = st.err]
  /\ bootErr' = [bootErr EXCEPT ![p] = st.boot]
  /\ faults' = st.bad

-----------------------------------------------------------------------------
(* Boot, crash, and edits that carry no paid state.                        *)

\* exclusive_lifecycle and claim promote what a dead owner left behind.
Promote == holds' = holds \cup pending /\ pending' = {}

\* A process loads the canvas and seeds what it carries into the journal.
Boot(p) ==
  /\ ~up[p]
  /\ up' = [up EXCEPT ![p] = TRUE]
  /\ graph' = [graph EXCEPT ![p] = graphFile]
  /\ \/ /\ Carried(graphFile) # {} /\ lifecycle = NoProc
        /\ Promote
        /\ \E st \in Ensured(Store(p), {}, graphFile) :
             Leave(p, [st EXCEPT !.boot = ~st.ok])
     \/ /\ Carried(graphFile) = {} \/ lifecycle # NoProc
        /\ bootErr' = [bootErr EXCEPT ![p] = Carried(graphFile) # {}]
        /\ UNCHANGED <<records, storageErr, holds, pending, faults>>
  /\ UNCHANGED <<graphFile, lifecycle, runOf, stage, fresh, ident, reservations, commit,
                 due, starts, used, crashes>>

Crash(p) ==
  /\ up[p] /\ crashes < MaxCrashes
  /\ crashes' = crashes + 1
  /\ up' = [up EXCEPT ![p] = FALSE]
  /\ lifecycle' = IF lifecycle = p THEN NoProc ELSE lifecycle
  /\ runOf' = [runOf EXCEPT ![p] = NoRun]
  /\ stage' = [stage EXCEPT ![p] = [n \in Node |-> "none"]]
  /\ fresh' = [fresh EXCEPT ![p] = {}]
  /\ ident' = [ident EXCEPT ![p] = Blank]
  /\ reservations' = [reservations EXCEPT ![p] = {}]
  /\ storageErr' = [storageErr EXCEPT ![p] = FALSE]
  /\ bootErr' = [bootErr EXCEPT ![p] = FALSE]
  /\ graph' = [graph EXCEPT ![p] = Blank]
  /\ commit' = [commit EXCEPT ![p] = NoCommit]
  /\ UNCHANGED <<records, graphFile, holds, pending, due, starts, used, faults>>

\* An edit without a recovery ID takes no fence, and writes the whole canvas
\* of its process over the file.
EditElsewhere(p) ==
  /\ up[p] /\ graphFile # graph[p] /\ graphFile' = graph[p]
  /\ UNCHANGED <<records, guard, memory, due, starts, used, faults, crashes>>

-----------------------------------------------------------------------------
(* Admission: _claim_fresh_paid_worldlabs_starts.                          *)

Blanks(pay) == {n \in Node : pay[n] = "blank"}
Reruns(pay) == {n \in Node : pay[n] \in Id}

\* The bootstrap retry at the head of prepare_recovery_journal.
Rebooted(p) ==
  IF ~bootErr[p] THEN {Store(p)}
  ELSE {[s EXCEPT !.boot = ~s.ok] : s \in
          UNION {IF s.ok THEN Verified(s) ELSE {s} : s \in Ensured(Store(p), reservations[p], graph[p])}}

\* A mutant of Stale: only the canvas of this process is asked.
StaleCanvas(p, R, pay) == \E n \in Blanks(pay) : graph[p][n] # NoId

\* A fresh node that the journal or the canvas of p already knows.
Stale(p, R, pay) ==
  \E n \in Blanks(pay) : graph[p][n] # NoId \/ \E x \in R : x.node = n

\* reserve and reserve_checkpoints for run r.
Reserved(R, r, pay) ==
  {<<r, n>> : n \in Blanks(pay)} \cup
  {<<r, n>> : n \in {m \in Reruns(pay) : ~Journaled(R, m, pay[m])}}

Unset(res, R) == {k \in res : ~HasKey(R, k[1], k[2])}

\* The supplied recovery IDs of the nodes D are saved: one that is journaled
\* keeps its record, and run r has none yet.
Checkpointed(st, r, pay, D) ==
  [st EXCEPT !.recs = @ \cup {[run |-> r, node |-> n, id |-> pay[n]] :
                               n \in {m \in D : ~Journaled(st.recs, m, pay[m])}}]

\* They are saved one after the other, in the order of the request: all of
\* them, or those before the one that fails. Each has its reservation.
Registered(st, res, r, pay) ==
  {Checkpointed(st, r, pay, Reruns(pay))} \cup
  UNION {UNION {LET c == Checkpointed(st, r, pay, D) IN
                {x \in SetIn(c, Unset(res, c.recs), r, n, pay[n]) : ~x.ok} :
                D \in SUBSET (Reruns(pay) \ {n})} : n \in Reruns(pay)}

\* prepare_recovery_journal: the states of the store it can end in. A read
\* that list() cannot make sets the flag, one that reserve cannot make does not.
Prepared(p, r, pay) ==
  UNION {LET res == Reserved(s.recs, r, pay) IN
         IF ~s.ok THEN {s}
         ELSE IF s.err \/ Stale(p, s.recs, pay) THEN {Refused(s)}
         ELSE IF ~HasRoom(s.recs, reservations[p] \cup res) THEN {Refused(s)}
         ELSE Unread(s) \cup {[x EXCEPT !.err = TRUE] : x \in Unread(s)}
                        \cup Registered(s, res, r, pay) : s \in Rebooted(p)}

\* The guard's claim, with prepare_recovery_journal as its pre_commit. A
\* refusal releases the reservations and keeps what was saved.
Claim(p, r, pay) ==
  /\ up[p] /\ lifecycle = NoProc /\ r \notin used
  /\ Blanks(pay) \cup Reruns(pay) # {}
  /\ \E st \in Prepared(p, r, pay) :
       /\ Leave(p, st)
       /\ \/ /\ ~st.ok
             /\ <<records, storageErr, bootErr>>' # <<records, storageErr, bootErr>>
             /\ UNCHANGED <<guard, runOf, stage, fresh, ident, reservations>>
          \/ /\ st.ok /\ Blanks(pay) # {} /\ holds \cup pending # {}
             /\ Promote
             /\ UNCHANGED <<lifecycle, runOf, stage, fresh, ident, reservations>>
          \/ /\ st.ok /\ (Blanks(pay) = {} \/ holds \cup pending = {})
             /\ holds' = holds \cup pending
             /\ pending' = Blanks(pay)
             /\ lifecycle' = p
             /\ runOf' = [runOf EXCEPT ![p] = r]
             /\ stage' = [stage EXCEPT ![p] = [n \in Node |-> IF n \in Blanks(pay) \cup Reruns(pay)
                                                              THEN "ready" ELSE "none"]]
             /\ fresh' = [fresh EXCEPT ![p] = Blanks(pay)]
             /\ ident' = [ident EXCEPT ![p] = [n \in Node |-> IF n \in Reruns(pay) THEN pay[n] ELSE NoId]]
             /\ reservations' = [reservations EXCEPT ![p] = Unset(Reserved(st.recs, r, pay), st.recs)]
  /\ used' = used \cup {r}
  /\ UNCHANGED <<graphFile, up, graph, commit, due, starts, crashes>>

-----------------------------------------------------------------------------
(* The handlers of a run.                                                  *)

Owner(p, n) == runOf[p] \in Run /\ stage[p][n] # "none"
Move(p, n, from, to) ==
  /\ Owner(p, n) /\ stage[p][n] = from
  /\ stage' = [stage EXCEPT ![p][n] = to]

\* The paid POST leaves; from here a start may be billed.
Post(p, n) ==
  /\ n \in fresh[p] /\ starts < MaxStarts
  /\ Move(p, n, "ready", "sent")
  /\ starts' = starts + 1
  /\ ident' = [ident EXCEPT ![p][n] = <<starts + 1, "op">>]
  /\ due' = due \cup {<<n, starts + 1>>}
  /\ UNCHANGED <<records, graphFile, guard, up, runOf, fresh, reservations, storageErr, bootErr,
                 graph, commit, used, faults, crashes>>

\* A definite denial: nothing was started.
Denied(p, n) ==
  /\ Move(p, n, "sent", "done")
  /\ due' = due \ {<<n, ident[p][n][1]>>}
  /\ UNCHANGED <<records, graphFile, guard, up, runOf, fresh, ident, reservations, storageErr,
                 bootErr, graph, commit, starts, used, faults, crashes>>

\* An answer without a trustworthy ID: mark_ambiguous holds the node.
Ambiguous(p, n) ==
  /\ Move(p, n, "sent", "done")
  /\ holds' = holds \cup {n} /\ pending' = pending \ {n}
  /\ UNCHANGED <<records, graphFile, lifecycle, up, runOf, fresh, ident, reservations, storageErr,
                 bootErr, graph, commit, due, starts, used, faults, crashes>>

\* A mutant of Unsaved: a checkpoint that was not saved is only reported.
UnsavedNothing(p, n, st) == {}

\* hold_nondurable_recovery: the fresh lease whose checkpoint was not saved.
Unsaved(p, n, st) == IF st.ok THEN {} ELSE {n} \cap fresh[p]

\* _sync_provider_recovery_to_cli_graph: the checkpoint goes to the journal,
\* else a fresh lease becomes a hold; then it goes to the node's parameters,
\* saved as well as the disk allows.
Publish(p, n, id) ==
  \E st \in SetIn(Store(p), reservations[p], runOf[p], n, id), saved \in BOOLEAN :
    LET held == Unsaved(p, n, st)
        failed == ~saved /\ graph[p][n] # id
    IN
    /\ Leave(p, [st EXCEPT !.bad = IF failed THEN @ + 1 ELSE @]) /\ faults' <= MaxFaults
    /\ reservations' = IF st.ok THEN [reservations EXCEPT ![p] = @ \ {<<runOf[p], n>>}] ELSE reservations
    /\ holds' = holds \cup held /\ pending' = pending \ held
    /\ graph' = [graph EXCEPT ![p][n] = id]
    /\ graphFile' = IF failed \/ graph[p][n] = id THEN graphFile ELSE graph'[p]

\* The POST was accepted, or a rerun starts from the ID it was given.
Accepted(p, n) ==
  /\ \/ Move(p, n, "sent", "polling")
     \/ /\ n \notin fresh[p]
        /\ Move(p, n, "ready", IF ident[p][n][2] = "op" THEN "polling" ELSE "done")
  /\ Publish(p, n, ident[p][n])
  /\ UNCHANGED <<lifecycle, up, runOf, fresh, ident, commit, due, starts, used, crashes>>

\* The operation is done: the checkpoint moves on to the world.
Landed(p, n) ==
  /\ Move(p, n, "polling", "done")
  /\ Publish(p, n, <<ident[p][n][1], "world">>)
  /\ ident' = [ident EXCEPT ![p][n] = <<@[1], "world">>]
  /\ UNCHANGED <<lifecycle, up, runOf, fresh, commit, due, starts, used, crashes>>

\* Stop, or a failure outside the POST's handshake.
GiveUp(p, n) ==
  /\ Move(p, n, "ready", "done") \/ Move(p, n, "polling", "done")
  /\ UNCHANGED <<records, graphFile, guard, up, runOf, fresh, ident, reservations, storageErr,
                 bootErr, graph, commit, due, starts, used, faults, crashes>>

\* _release_paid_worldlabs_starts, once every handler ended.
Release(p) ==
  /\ runOf[p] \in Run /\ \A n \in Node : stage[p][n] \in {"none", "done"}
  /\ pending' = pending \ fresh[p]
  /\ lifecycle' = NoProc
  /\ runOf' = [runOf EXCEPT ![p] = NoRun]
  /\ stage' = [stage EXCEPT ![p] = [n \in Node |-> "none"]]
  /\ fresh' = [fresh EXCEPT ![p] = {}]
  /\ ident' = [ident EXCEPT ![p] = Blank]
  /\ reservations' = [reservations EXCEPT ![p] = {k \in @ : k[1] # runOf[p]}]
  /\ UNCHANGED <<records, graphFile, holds, up, storageErr, bootErr, graph, commit, due, starts,
                 used, faults, crashes>>

-----------------------------------------------------------------------------
(* Canvas mutations under the paid lifecycle fence.                        *)

\* _paid_graph_mutation, up to its yield: seed what the canvas carries, and
\* ask the disk before a bootstrap error clears. A failed probe refuses
\* nothing.
Fenced(p) ==
  UNION {IF s.ok /\ s.boot THEN {[v EXCEPT !.boot = ~v.ok, !.ok = TRUE] : v \in Verified(s)} ELSE {s} :
         s \in Ensured(Store(p), reservations[p], graph[p])}

Fence(p) == up[p] /\ lifecycle = NoProc /\ Promote

\* A create, or an update of a node: it gains an ID, a live checkpoint stays.
Edited(p) == {[graph[p] EXCEPT ![n] = id] : n \in Node \ Carried(graph[p]), id \in Issued}

\* _reject_graph_replacement_during_paid_start: an import needs a canvas and
\* journals without paid state.
Replaced(p, st) ==
  IF holds \cup pending = {} /\ st.recs = {} /\ Carried(graph[p]) = {} /\ ~st.boot
  THEN [Node -> Issued \cup {NoId}] \ {Blank} ELSE {}

\* Seed the candidate's checkpoints, before the canvas is written.
BeginCommit(p) ==
  /\ Fence(p)
  /\ \E st \in Fenced(p) :
       \/ /\ st # Store(p)   \* refused by the fence, or by a check after it
          /\ Leave(p, st)
          /\ UNCHANGED <<lifecycle, runOf, commit>>
       \/ /\ st.ok
          /\ \E C \in Edited(p) \cup Replaced(p, st) : \E s \in Ensured(st, reservations[p], C) :
               /\ Leave(p, s)
               /\ IF s.ok
                    THEN /\ lifecycle' = p
                         /\ runOf' = [runOf EXCEPT ![p] = Mutation]
                         /\ commit' = [commit EXCEPT ![p] = [candidate |-> C, additions |-> s.recs \ st.recs]]
                    ELSE UNCHANGED <<lifecycle, runOf, commit>>
  /\ UNCHANGED <<graphFile, up, stage, fresh, ident, reservations, graph, due, starts, used, crashes>>

Unfence(p) ==
  /\ lifecycle' = NoProc
  /\ runOf' = [runOf EXCEPT ![p] = NoRun]
  /\ commit' = [commit EXCEPT ![p] = NoCommit]
  /\ UNCHANGED <<holds, pending, up, stage, fresh, ident, reservations, due, starts, used, crashes>>

\* replace_with: the candidate is on disk, then in memory.
SaveCanvas(p) ==
  /\ commit[p] # NoCommit
  /\ graphFile' = commit[p].candidate
  /\ graph' = [graph EXCEPT ![p] = commit[p].candidate]
  /\ Unfence(p)
  /\ UNCHANGED <<records, storageErr, bootErr, faults>>

\* The canvas could not be written: only the records of this attempt go.
RollBack(p) ==
  /\ commit[p] # NoCommit /\ faults < MaxFaults
  /\ LET st == [Store(p) EXCEPT !.bad = @ + 1] IN
     \E s \in IF commit[p].additions = {} THEN {st} ELSE Removed(st, commit[p].additions) : Leave(p, s)
  /\ Unfence(p)
  /\ UNCHANGED <<graphFile, graph>>

\* DELETE /api/provider-recoveries: the person forgets one exact record, and
\* the parameter of its node when it still says the same.
Forget(p, x) ==
  /\ Fence(p)
  /\ \E st \in Fenced(p) :
       IF ~st.ok THEN Leave(p, st) /\ UNCHANGED <<graph, graphFile, due>>
       ELSE /\ x \in st.recs
            /\ due' = due \ {<<x.node, x.id[1]>>}
            /\ \E s \in Removed(st, {x}) :
                 /\ Leave(p, s)
                 /\ IF s.ok /\ graph[p][x.node] = x.id
                      THEN /\ graph' = [graph EXCEPT ![p][x.node] = NoId]
                           /\ graphFile' \in {graph'[p]} \cup (IF faults < MaxFaults THEN {graphFile} ELSE {})
                      ELSE UNCHANGED <<graph, graphFile>>
  /\ UNCHANGED <<lifecycle, up, runOf, stage, fresh, ident, reservations, commit, starts, used, crashes>>

\* The person unlocks a held node after checking Marble.
Acknowledge(p, n) ==
  /\ up[p] /\ lifecycle = NoProc
  /\ n \in holds \cup pending
  /\ holds' = (holds \cup pending) \ {n} /\ pending' = {}
  /\ due' = {d \in due : d[1] # n}
  /\ UNCHANGED <<records, graphFile, lifecycle, memory, starts, used, faults, crashes>>

-----------------------------------------------------------------------------
Payloads == [Node -> {"skip", "blank"} \cup Issued]

Next ==
  \E p \in Proc :
    \/ Boot(p) \/ Crash(p) \/ EditElsewhere(p)
    \/ \E r \in Run, pay \in Payloads : Claim(p, r, pay)
    \/ \E n \in Node : Post(p, n) \/ Denied(p, n) \/ Ambiguous(p, n) \/ Accepted(p, n)
                       \/ Landed(p, n) \/ GiveUp(p, n) \/ Acknowledge(p, n)
    \/ Release(p)
    \/ BeginCommit(p) \/ SaveCanvas(p) \/ RollBack(p)
    \/ \E x \in Record : Forget(p, x)

Spec == Init /\ [][Next]_vars

-----------------------------------------------------------------------------
\* Where a start of node n is remembered: a hold, an intent, a record, or the
\* parameter of the canvas that predates the journal.
Remembered(n, s) ==
  \/ n \in holds \cup pending
  \/ \E x \in records : x.node = n /\ x.id[1] = s
  \/ s = 0 /\ graphFile[n] # NoId /\ graphFile[n][1] = 0

\* A start that may be billed stays remembered on disk until the person
\* forgets or unlocks it, whatever save failed and whichever process died
\* between the answer, the journal, the canvas and the release.
KeptOrHeld == \A d \in due : Remembered(d[1], d[2])

\* A node never has two unresolved starts: a stale payload of another tab or
\* backend is refused while any store still knows a start of the node.
OneStartPerNode == \A d, e \in due : d[1] = e[1] => d = e

\* A reserved checkpoint always has room: what one process reserved and what
\* everybody journaled stay within the limit, so an accepted paid start is
\* never refused its record for capacity (reserve, set, ensure_many).
RoomIsKept ==
  \A p \in Proc :
    /\ Cardinality(records) + Cardinality(Unset(reservations[p], records)) <= MaxRecords
    /\ \A n \in fresh[p] : stage[p][n] \in {"ready", "sent"} => <<runOf[p], n>> \in reservations[p]

\* A canvas is committed only with the fence of every provider ID it shows
\* already in the journal (_commit_graph_candidate_with_recoveries).
CommittedIdsAreJournaled ==
  [][\A p \in Proc : commit[p] # NoCommit /\ commit'[p] = NoCommit /\ graph'[p] = commit[p].candidate =>
       \A n \in Carried(graph'[p]) : Journaled(records, n, graph'[p][n])]_vars

\* Forgetting a record does not itself need room: with a healthy store and
\* no paid run, the fence of Forget can be passed ("clear some in Run
\* History, then try again", _paid_capacity_person).
CanForget ==
  \A p \in Proc : up[p] /\ lifecycle = NoProc /\ ~storageErr[p] /\ records # {} =>
    \E st \in Fenced(p) : st.ok
=============================================================================

------------------------------ MODULE AgentSpend ------------------------------
(***************************************************************************)
(* The spending limits of agents (src/backend/services/agent_spend.py) and *)
(* the bookkeeping of a run around them: a run is counted at its upper     *)
(* bound when it starts (_require_spend_approval in main.py), a hold keeps *)
(* each node's share, execution/provider_calls.py records which nodes      *)
(* reached their handler, and the shares of those that spent nothing are   *)
(* given back during the run, at its end, or when its start is refused.    *)
(* Each process reads the ledger file once and then overwrites it; a file  *)
(* it cannot read counts as an empty one.                                  *)
(*                                                                         *)
(* Four things make the code lose counts. Each of them sets the keys it    *)
(* reaches apart (see Apart), and the limits are claimed for the others.   *)
(*                                                                         *)
(* One price per node stands for every limit that is a sum of prices: the  *)
(* totals per model and of Krea plan runs are kept in the same way.        *)
(***************************************************************************)
EXTENDS Integers, SequencesExt

CONSTANTS
  Proc,                             \* backend processes
  Chat, App, Shared,                \* budget keys: chats, apps with a token, everybody else
  Person,
  Request, RunOf, KeyOf, GraphOf,   \* start requests: the run, the caller and the nodes of each
  Home, Passes,                     \* of a run: the process it is sent to, its number of passes
  Node, Price, Fan,                 \* the price of a handler call, the calls of a node in a pass
  LiveKey,                          \* nodes whose credential is read at the call, not at the start
  Threshold, Budget, AppLimit, OutsideLimit,
  Window,                           \* WINDOW_SECONDS
  MaxChats, MaxHolds,               \* MAX_SESSIONS; _MAX_SPEND_HOLDS and MAX_RUNS
  MaxTime, MaxFaults, MaxRestarts   \* bounds: the clock, failed saves and reads, process restarts

Outside == App \cup {Shared}
Key     == Chat \cup Outside
Run     == {RunOf[q] : q \in Request}
Time    == 0..MaxTime

ASSUME KeyAssumption == Chat \cap Outside = {} /\ Person \notin Key
ASSUME FiniteAssumption == IsFiniteSet(App) /\ IsFiniteSet(Request) /\ IsFiniteSet(Node)
ASSUME RequestAssumption == KeyOf \in [Request -> Key \cup {Person}] /\ GraphOf \in [Request -> SUBSET Node]
ASSUME PriceAssumption == Price \in [Node -> Nat] /\ Fan \in [Node -> Nat \ {0}] /\ LiveKey \subseteq Node
ASSUME RunAssumption == Passes \in [Run -> Nat \ {0}] /\ Home \in [Run -> Proc]
ASSUME LimitAssumption == {Threshold, Budget, AppLimit, OutsideLimit} \subseteq Nat
ASSUME BoundAssumption ==
  {Window, MaxChats, MaxHolds} \subseteq Nat \ {0} /\ {MaxTime, MaxFaults, MaxRestarts} \subseteq Nat

VARIABLES
  now,
  disk,     \* the ledger file
  books,    \* what each process has in memory: loaded, ledger, the holds, the records of calls
  req,      \* the state of each request
  run,      \* the registered run of each id
  real,     \* history: what the calls of the runs counted for a key at a time cost
  stray,    \* history: counts that are kept for want of certainty
  evicted,  \* history: chats whose total was dropped for room
  apart,    \* history: keys that lost a count in one of the ways named under Apart
  faults, restarts

vars == <<now, disk, books, req, run, real, stray, evicted, apart, faults, restarts>>

Sum(f, S) == SumFunctionOnSet(f, S)

\* The last m elements of s: the others make room.
Newest(s, m) == SubSeq(s, Max({1, Len(s) - m + 1}), Len(s))

-----------------------------------------------------------------------------
(* The ledger: a count per key and time, and the chats, oldest first. A    *)
(* chat has one running total, kept at time 0.                             *)

Slot(k, t) == IF k \in Chat THEN 0 ELSE t
Recent     == {t \in Time : now - Window < t /\ t <= now}
Empty      == [count |-> [k \in Key |-> [t \in Time |-> 0]], chats |-> <<>>]

\* SpendLedger.spent and spent_outside.
Spent(l, K) ==
  Max({0, Sum([k \in K |-> IF k \in Chat THEN l.count[k][0] ELSE Sum(l.count[k], Recent)], K)})

\* _save prunes what is older than the window.
Pruned(l) == [l EXCEPT !.count = [k \in Key |->
               IF k \in Chat THEN @[k] ELSE [t \in Time |-> IF t > now - Window THEN @[k][t] ELSE 0]]]

\* record: a chat moves to the end, and the oldest ones make room.
Recorded(l, k, amount) ==
  LET counted == [l EXCEPT !.count[k][Slot(k, now)] = @ + amount]
      kept    == IF k \in Chat THEN Newest(Append(RemoveFirst(l.chats, k), k), MaxChats) ELSE l.chats
  IN Pruned([counted EXCEPT !.chats = kept,
               !.count = [c \in Key |-> IF c \in Chat /\ c \notin ToSet(kept) THEN Empty.count[c] ELSE @[c]]])

\* refund: at the time of the run; a chat the ledger no longer knows gets nothing.
Refunded(l, k, amount, at) ==
  IF k \notin Chat THEN Pruned([l EXCEPT !.count[k][at] = @ - amount])
  ELSE IF k \in ToSet(l.chats) THEN Pruned([l EXCEPT !.count[k][0] = Max({0, @ - amount})])
  ELSE l

\* What a node could cost in a run.
Share(r, n) == Price[n] * Fan[n] * Passes[r]
Charge(r, S) == Sum([n \in S |-> Share(r, n)], S)
Priced(q) == {n \in GraphOf[q] : Price[n] > 0}
Cost(q) == Charge(RunOf[q], Priced(q))

\* A request that a limit counts: an agent's, and not free.
Charged(q) == KeyOf[q] # Person /\ Cost(q) > 0

\* A mutant of Allowed: an app is held to its own limit alone.
AllowedAlone(l, q) ==
  LET k == KeyOf[q] IN
  /\ Cost(q) < Threshold
  /\ k \in Chat => Spent(l, {k}) + Cost(q) <= Budget
  /\ k \in App => Spent(l, {k}) + Cost(q) <= AppLimit
  /\ k = Shared => Spent(l, {k}) + Cost(q) <= OutsideLimit

\* decide: the limit per run, then every budget the run counts against.
Allowed(l, q) ==
  LET k == KeyOf[q] IN
  Cost(q) > 0 =>
    /\ Cost(q) < Threshold
    /\ k \in Chat => Spent(l, {k}) + Cost(q) <= Budget
    /\ k \in App => Spent(l, {k}) + Cost(q) <= AppLimit
    /\ k \in Outside => Spent(l, Outside) + Cost(q) <= OutsideLimit

-----------------------------------------------------------------------------
(* The books of a process. order lists the runs that have a hold, oldest   *)
(* first; hold is meaningful for them. calls is the table of               *)
(* provider_calls: called is meaningful for the tracked runs. blind says   *)
(* that the first read of the file will fail.                              *)

NoHold == [key |-> Person, at |-> 0, share |-> {}]
Fresh  == [loaded |-> FALSE, blind |-> FALSE, ledger |-> Empty, order |-> <<>>, hold |-> [r \in Run |-> NoHold],
           tracked |-> {}, doubted |-> {}, called |-> [r \in Run |-> {}]]

\* The lazy load: a file that cannot be read or parsed is an empty ledger.
Opened(b) == IF b.loaded THEN b ELSE [b EXCEPT !.loaded = TRUE, !.ledger = IF b.blind THEN Empty ELSE disk]
Ledger(p) == Opened(books[p]).ledger

\* take: the record of a run is consumed.
Taken(b, r) == [b EXCEPT !.tracked = @ \ {r}, !.doubted = @ \ {r}, !.called[r] = {}]

\* begin: a second one leaves a record nobody trusts, a full table none.
Begun(b, r) ==
  IF r \in b.tracked \cup b.doubted
    THEN [b EXCEPT !.tracked = @ \ {r}, !.doubted = @ \cup {r}, !.called[r] = {}]
  ELSE IF Cardinality(b.tracked \cup b.doubted) < MaxHolds
    THEN [b EXCEPT !.tracked = @ \cup {r}]
  ELSE b

\* The runs that keep a hold with one of r, and those whose holds make room for it.
Keeping(b, r) == Newest(Append(RemoveFirst(b.order, r), r), MaxHolds)
Displaced(b, r) == ToSet(b.order) \ ToSet(Keeping(b, r))

\* _place_hold, with what the run was counted at.
Held(b, q) ==
  LET r    == RunOf[q]
      gone == [b EXCEPT !.order = Keeping(b, r), !.tracked = @ \ Displaced(b, r), !.doubted = @ \ Displaced(b, r),
                        !.called = [i \in Run |-> IF i \in Displaced(b, r) THEN {} ELSE @[i]],
                        !.hold = [i \in Run |-> IF i \in Displaced(b, r) THEN NoHold
                                                ELSE IF i = r THEN [key |-> KeyOf[q], at |-> now, share |-> Priced(q)]
                                                ELSE @[i]]]
  IN Begun(gone, r)

\* Count the request and place its hold; a person, or a free run, has neither.
Counted(b, q) ==
  IF ~Charged(q) THEN b
  ELSE LET o == Opened(b)
       IN Held([o EXCEPT !.ledger = Recorded(o.ledger, KeyOf[q], Cost(q))], q)

\* _SpendHold.take and give_back of the nodes S of the hold of r.
GivenBack(b, r, S) ==
  LET h == b.hold[r]
      o == Opened(b)
  IN IF h.share \cap S = {} THEN b
     ELSE [o EXCEPT !.ledger = Refunded(o.ledger, h.key, Charge(r, h.share \cap S), h.at),
                    !.hold[r].share = @ \ S]

\* The hold and the record of r are gone.
Dropped(b, r) == [Taken(b, r) EXCEPT !.order = RemoveFirst(@, r), !.hold[r] = NoHold]

\* _return_hold.
Returned(b, r) == Dropped(GivenBack(b, r, Node), r)

\* _settle_hold: the nodes that never reached their handler, if the record is sure.
Settled(b, r) ==
  Dropped(IF r \in b.tracked THEN GivenBack(b, r, Node \ b.called[r]) ELSE b, r)

\* A give-back turned the books of p from before to after: they are saved if
\* the ledger changed, and nobody minds a save that fails and leaves the file.
Keep(p, before, after, file) ==
  LET wrote == Opened(after).ledger # Opened(before).ledger IN
  /\ books' = [books EXCEPT ![p] = after]
  /\ \/ disk' = (IF wrote THEN after.ledger ELSE file) /\ UNCHANGED faults
     \/ wrote /\ faults < MaxFaults /\ faults' = faults + 1 /\ disk' = file

\* Counts that stay although a doubt, a fault or a restart lets nobody say of what.
SlotsOf(h) == IF h.key = Person THEN {} ELSE {<<h.key, Slot(h.key, h.at)>>}

-----------------------------------------------------------------------------
(* Requests.                                                               *)

Going == {"new", "live"}  \* a task that has begun or will

NoRun == [phase |-> "none", nodes |-> {}, key |-> Person, at |-> 0, pass |-> 1,
          calls |-> [n \in Node |-> 0], failing |-> {}, ever |-> {}, keyless |-> {}]

TypeOK ==
  /\ now \in Time /\ faults \in 0..MaxFaults /\ restarts \in 0..MaxRestarts
  /\ \A l \in {disk} \cup {books[p].ledger : p \in Proc} :
       /\ \A k \in Key, t \in Time : l.count[k][t] \in Int /\ (k \in Chat => l.count[k][t] >= 0)
       /\ ToSet(l.chats) \subseteq Chat /\ Len(l.chats) <= MaxChats
  /\ \A p \in Proc : LET b == books[p] IN
       /\ b.loaded \in BOOLEAN /\ b.blind \in BOOLEAN /\ ToSet(b.order) \subseteq Run /\ Len(b.order) <= MaxHolds
       /\ b.tracked \cup b.doubted \subseteq Run /\ b.tracked \cap b.doubted = {}
       /\ b.hold \in [Run -> [key : Key \cup {Person}, at : Time, share : SUBSET Node]]
       /\ b.called \in [Run -> SUBSET Node]
  /\ req \in [Request -> {"idle", "asked", "late", "done"}]
  /\ \A r \in Run : run[r].phase \in {"none", "new", "live", "ended", "unborn"}
  /\ real \in [Key -> [Time -> Nat]] /\ stray \subseteq Key \X Time /\ evicted \subseteq Chat /\ apart \subseteq Key

Init ==
  /\ now = 0 /\ disk = Empty
  /\ books = [p \in Proc |-> Fresh]
  /\ req = [q \in Request |-> "idle"]
  /\ run = [r \in Run |-> NoRun]
  /\ real = [k \in Key |-> [t \in Time |-> 0]]
  /\ stray = {} /\ evicted = {} /\ apart = {} /\ faults = 0 /\ restarts = 0

Tick ==
  /\ now < MaxTime /\ now' = now + 1
  /\ UNCHANGED <<disk, books, req, run, real, stray, evicted, apart, faults, restarts>>

\* The route up to its first await: the id has no record here.
Ask(q) ==
  /\ req[q] = "idle" /\ run[RunOf[q]].phase = "none"
  /\ req' = [req EXCEPT ![q] = "asked"]
  /\ UNCHANGED <<now, disk, books, run, real, stray, evicted, apart, faults, restarts>>

\* GET /api/agent/spend: reading the totals loads the ledger.
Look(p) ==
  /\ ~books[p].loaded
  /\ books' = [books EXCEPT ![p] = Opened(@)]
  /\ UNCHANGED <<now, disk, req, run, real, stray, evicted, apart, faults, restarts>>

At(q) == Home[RunOf[q]]
Passed(q) == req[q] = "asked" /\ (KeyOf[q] = Person \/ Allowed(Ledger(At(q)), q))

\* A limit refuses it. (So do other checks, without a trace.)
Refuse(q) ==
  /\ req[q] = "asked" /\ KeyOf[q] # Person /\ ~Allowed(Ledger(At(q)), q)
  /\ req' = [req EXCEPT ![q] = "done"]
  /\ books' = [books EXCEPT ![At(q)] = Opened(@)]
  /\ UNCHANGED <<now, disk, run, real, stray, evicted, apart, faults, restarts>>

\* The file once the request is counted.
Saved(q) ==
  LET b == Counted(books[At(q)], q)
  IN IF b = books[At(q)] THEN disk ELSE b.ledger

\* Histories: the chats dropped for room; the holds and records dropped for
\* it, and the counts in doubt or of an id that is counted twice.
Counts(q, doubt) ==
  LET b == books[At(q)]
      c == Counted(b, q)
      r == RunOf[q]
      lost == (ToSet(b.order) \ ToSet(c.order)) \cup (IF c = b THEN {} ELSE {r})
      twice == doubt \/ r \in b.tracked \cup b.doubted
  IN
  /\ evicted' = evicted \cup (ToSet(Ledger(At(q)).chats) \ ToSet(Opened(c).ledger.chats))
  /\ stray' = stray \cup (UNION {SlotsOf(b.hold[i]) : i \in lost})
                    \cup (IF twice THEN SlotsOf(c.hold[r]) ELSE {})

\* Apart. Another backend that has the ledger, or will not be able to read
\* the file, does not see the count of q.
Overlooked(q) ==
  IF Charged(q) /\ \E p \in Proc \ {At(q)} : books[p].loaded \/ books[p].blind THEN {KeyOf[q]} ELSE {}

\* An uncharged request has no hold: what it returns, if anything, is the hold
\* of the run of its id, which is going.
Uncovered(q) ==
  LET h == books[At(q)].hold[RunOf[q]]
      u == run[RunOf[q]]
  IN IF ~Charged(q) /\ u.phase \in Going /\ h.share # {} /\ h.key = u.key /\ h.at = u.at THEN {h.key} \cap Key ELSE {}

\* The spend check, the hold and register, without an await between.
Start(q) ==
  LET r == RunOf[q] IN
  /\ Passed(q) /\ run[r].phase = "none"
  /\ books' = [books EXCEPT ![At(q)] = Counted(@, q)]
  /\ disk' = Saved(q)
  /\ run' = [run EXCEPT ![r] = [NoRun EXCEPT !.phase = "new", !.nodes = GraphOf[q], !.key = KeyOf[q], !.at = now]]
  /\ req' = [req EXCEPT ![q] = "done"]
  /\ Counts(q, FALSE) /\ apart' = apart \cup Overlooked(q)
  /\ UNCHANGED <<now, real, faults, restarts>>

\* The id was registered meanwhile: register refuses, and the route awaits
\* the task it cancelled.
Late(q) ==
  /\ Passed(q) /\ run[RunOf[q]].phase # "none"
  /\ books' = [books EXCEPT ![At(q)] = Counted(@, q)]
  /\ disk' = Saved(q)
  /\ req' = [req EXCEPT ![q] = "late"]
  /\ Counts(q, TRUE)
  /\ UNCHANGED <<now, run, real, apart, faults, restarts>>

\* ... and then returns what the id holds.
Leave(q) ==
  /\ req[q] = "late"
  /\ req' = [req EXCEPT ![q] = "done"]
  /\ Keep(At(q), books[At(q)], Returned(books[At(q)], RunOf[q]), disk)
  /\ stray' = stray \cup SlotsOf(books[At(q)].hold[RunOf[q]])
  /\ apart' = apart \cup Uncovered(q)
  /\ UNCHANGED <<now, run, real, evicted, restarts>>

\* A Stop or a paid start refuses it after it was counted. What it returns is
\* what the id holds now: of an earlier request too, if it has none itself.
TurnDown(q) ==
  LET counted == Counted(books[At(q)], q) IN
  /\ Passed(q)
  /\ req' = [req EXCEPT ![q] = "done"]
  /\ Keep(At(q), counted, Returned(counted, RunOf[q]), Saved(q))
  /\ Counts(q, run[RunOf[q]].phase # "none" \/ faults' # faults) /\ apart' = apart \cup Uncovered(q)
  /\ UNCHANGED <<now, run, real, restarts>>

\* The save of the count fails: the route answers with an error, the count
\* stays in memory.
Unsaved(q) ==
  LET o == Opened(books[At(q)]) IN
  /\ Passed(q) /\ Charged(q) /\ faults < MaxFaults
  /\ books' = [books EXCEPT ![At(q)] = [o EXCEPT !.ledger = Recorded(@, KeyOf[q], Cost(q))]]
  /\ req' = [req EXCEPT ![q] = "done"]
  /\ stray' = stray \cup {<<KeyOf[q], Slot(KeyOf[q], now)>>}
  /\ evicted' = evicted \cup (ToSet(o.ledger.chats) \ ToSet(books'[At(q)].ledger.chats))
  /\ faults' = faults + 1
  /\ UNCHANGED <<now, disk, run, real, apart, restarts>>

-----------------------------------------------------------------------------
(* The task of a run.                                                      *)

Turn(r) ==
  /\ run[r].phase = "new"
  /\ run' = [run EXCEPT ![r].phase = "live"]
  /\ UNCHANGED <<now, disk, books, req, real, stray, evicted, apart, faults, restarts>>

\* A Stop before its first turn: the coroutine, with its finally, never runs.
Cut(r) ==
  /\ run[r].phase = "new"
  /\ run' = [run EXCEPT ![r].phase = "unborn"]
  /\ UNCHANGED <<now, disk, books, req, real, stray, evicted, apart, faults, restarts>>

\* mark, when the engine is about to call the handler of n.
Marked(b, r, n) == IF r \in b.tracked THEN [b EXCEPT !.called[r] = @ \cup {n}] ELSE b

\* A node may be called, once per item, until an item fails.
Callable(r, n) ==
  /\ run[r].phase = "live" /\ n \in run[r].nodes \ run[r].failing
  /\ run[r].calls[n] < Fan[n]

\* The key whose count a run is, unless it is a person's.
KeysOf(r) == {run[r].key} \cap Key

\* An earlier pass of the run was billed for n, and this is its first call in
\* this one: a missing credential now gives back the share of all passes.
SpentBefore(r, n) == run[r].calls[n] = 0 /\ n \in run[r].ever \ run[r].keyless

\* The handler is called, and its provider bills it, whatever comes of it: also
\* if its credential was missing before, and its share was given back for it.
Call(r, n) ==
  /\ Callable(r, n)
  /\ n \in run[r].keyless => n \in LiveKey
  /\ run' = [run EXCEPT ![r].calls[n] = @ + 1, ![r].ever = @ \cup {n}]
  /\ books' = [books EXCEPT ![Home[r]] = Marked(@, r, n)]
  /\ real' = IF run[r].key = Person THEN real
             ELSE [real EXCEPT ![run[r].key][Slot(run[r].key, run[r].at)] = @ + Price[n]]
  /\ apart' = apart \cup (IF n \in run[r].keyless THEN KeysOf(r) ELSE {})
  /\ UNCHANGED <<now, disk, req, stray, evicted, faults, restarts>>

\* A mutant of First: any missing credential says that nothing was spent.
FirstOrLater(r, n) == TRUE

\* handler_calls: no earlier item of this pass reached the handler of n.
First(r, n) == run[r].calls[n] = 0

\* The handler is called and stops at its credential check. The share of the
\* node is given back if that was its first call of the pass.
KeyMissing(r, n) ==
  LET marked == Marked(books[Home[r]], r, n) IN
  /\ Callable(r, n)
  /\ n \in run[r].ever => n \in LiveKey \cup run[r].keyless
  /\ run' = [run EXCEPT ![r].calls[n] = @ + 1, ![r].failing = @ \cup {n}, ![r].ever = @ \cup {n},
                        ![r].keyless = IF First(r, n) THEN @ \cup {n} ELSE @]
  /\ IF First(r, n) THEN Keep(Home[r], marked, GivenBack(marked, r, {n}), disk)
                    ELSE books' = [books EXCEPT ![Home[r]] = marked] /\ UNCHANGED <<disk, faults>>
  /\ stray' = IF faults' = faults THEN stray ELSE stray \cup SlotsOf(marked.hold[r])
  /\ apart' = apart \cup (IF SpentBefore(r, n) THEN KeysOf(r) ELSE {})
  /\ UNCHANGED <<now, req, real, evicted, restarts>>

\* The next variation of a shot: execute_graph again, its call counts anew.
NextPass(r) ==
  /\ run[r].phase = "live" /\ run[r].pass < Passes[r]
  /\ run' = [run EXCEPT ![r].pass = @ + 1, ![r].calls = [n \in Node |-> 0], ![r].failing = {}]
  /\ UNCHANGED <<now, disk, books, req, real, stray, evicted, apart, faults, restarts>>

\* The run ends, complete, failed or stopped.
Finish(r) ==
  LET b == books[Home[r]] IN
  /\ run[r].phase = "live"
  /\ run' = [run EXCEPT ![r].phase = "ended"]
  /\ Keep(Home[r], b, Settled(b, r), disk)
  /\ stray' = stray \cup (IF r \in b.tracked /\ faults' = faults THEN {} ELSE SlotsOf(run[r]))
  /\ UNCHANGED <<now, req, real, evicted, apart, restarts>>

\* The file cannot be read, or is not what it should be, when p first needs it.
\* The keys it has a count of lose it.
Unreadable(p) ==
  /\ ~books[p].loaded /\ ~books[p].blind /\ faults < MaxFaults
  /\ books' = [books EXCEPT ![p].blind = TRUE]
  /\ apart' = apart \cup {k \in Key : disk.count[k] # Empty.count[k]}
  /\ faults' = faults + 1
  /\ UNCHANGED <<now, disk, req, run, real, stray, evicted, restarts>>

\* The process dies and another one takes its place.
Restart(p) ==
  /\ restarts < MaxRestarts /\ restarts' = restarts + 1
  /\ books' = [books EXCEPT ![p] = Fresh]
  /\ req' = [q \in Request |-> IF Home[RunOf[q]] = p /\ req[q] # "idle" THEN "done" ELSE req[q]]
  /\ run' = [r \in Run |-> IF Home[r] = p THEN NoRun ELSE run[r]]
  /\ stray' = stray \cup (UNION {SlotsOf(run[r]) : r \in {i \in Run : Home[i] = p}})
                    \cup (UNION {SlotsOf(books[p].hold[r]) : r \in Run})
  /\ UNCHANGED <<now, disk, real, evicted, apart, faults>>

Next ==
  \/ Tick
  \/ \E q \in Request : Ask(q) \/ Refuse(q) \/ Start(q) \/ Late(q) \/ Leave(q) \/ TurnDown(q) \/ Unsaved(q)
  \/ \E r \in Run : \/ Turn(r) \/ Cut(r) \/ NextPass(r) \/ Finish(r)
                    \/ \E n \in Node : Call(r, n) \/ KeyMissing(r, n)
  \/ \E p \in Proc : Look(p) \/ Unreadable(p) \/ Restart(p)

Spec == Init /\ [][Next]_vars

-----------------------------------------------------------------------------
\* What the runs of a key cost, in the window or in a chat.
Spending(k) == IF k \in Chat THEN real[k][0] ELSE Sum(real[k], Recent)

WithinBudget(S) ==
  /\ \A k \in Chat \ S : Spending(k) <= Budget
  /\ \A k \in App \ S : Spending(k) <= AppLimit
  /\ Outside \cap S = {} => Sum([k \in Outside |-> Spending(k)], Outside) <= OutsideLimit

CoveredBut(S) ==
  \A p \in Proc, k \in Key \ S : \A s \in (IF k \in Chat THEN {0} ELSE Recent) :
    real[k][s] <= Ledger(p).count[k][s] /\ real[k][s] <= disk.count[k][s]

\* What agents really spend stays within the limits, whatever was given back,
\* retried, refused or restarted meanwhile: each chat in total, each app and
\* all the outside agents together "over the last 24 hours" (agent_spend).
RealWithinBudget == WithinBudget(evicted \cup apart)

\* A handler that was called stays counted, in memory and in the file a
\* restart reads: "Every doubt keeps the whole count, so a wrong record can
\* only over-count" (provider_calls).
CountedIsCovered == CoveredBut(evicted \cup apart)

\* "kept in a small JSON file so budgets survive a restart" (SpendLedger).
BudgetsSurvive == WithinBudget(evicted)

\* Nothing is given back that was spent: "for a request refused after the
\* spend check but before the run started (it can't have cost anything)"
\* (_return_hold), "when it stopped at its own key check (no provider
\* request, so nothing spent)" (_release_unspent_hold).
NothingSpentIsGivenBack == CoveredBut(evicted)

\* When all the runs counted in a slot are over, what stays counted is what
\* the called nodes could have spent.
GivenBackWhen(over) ==
  \A p \in Proc, k \in Key \ (evicted \cup apart) : \A s \in (IF k \in Chat THEN {0} ELSE Recent) :
    LET mine == {r \in Run : run[r].phase # "none" /\ <<k, s>> \in SlotsOf(run[r])} IN
    <<k, s>> \notin stray /\ (\A r \in mine : run[r].phase \in over)
      => Ledger(p).count[k][s]
           = Sum([r \in mine |-> Charge(r, IF run[r].phase = "unborn" THEN {} ELSE run[r].ever \ run[r].keyless)], mine)

\* A run that ended leaves no count for a node that reached no provider,
\* unless its record is in doubt (_settle_hold).
SettledIsGivenBack == GivenBackWhen({"ended"})

\* "a node that never reached its handler (answered from the cache, held back
\* by an upstream failure, or the run stopped first), given back when the run
\* ends" (agent_spend), also when the run was stopped before it began.
UnspentIsGivenBack == GivenBackWhen({"ended", "unborn"})
=============================================================================

---------------------------- MODULE ExecutionRuns ----------------------------
(***************************************************************************)
(* The registry of graph runs (src/backend/services/execution_runs.py)     *)
(* with the routes and callbacks of main.py that drive it: the admission   *)
(* of a run, which awaits between its first and its last check, the task   *)
(* of the run, Stop, the watcher of Stops recorded elsewhere, the done     *)
(* callback with its terminal publication, and the canvas replacement that *)
(* waits for runs. Several backends share the durable Stop journal and the *)
(* paid lifecycle of ProviderStartGuard, which appear as stops, filter and *)
(* lease; the filter has no false positives here.                          *)
(*                                                                         *)
(* A step is what runs on a process's event loop without an await.         *)
(***************************************************************************)
EXTENDS Integers, FiniteSetsExt

CONSTANTS
  Proc,         \* backend processes
  Run,          \* run identifiers
  Paid,         \* runs that claim the paid lifecycle
  Twice,        \* backends and runs whose id a client sends there twice, the second time with no paid node
  NoLease,
  MaxRecords,   \* max_records of the registry, and of the durable Stops
  MaxCanvas,    \* bound: canvas replacements of a process
  MaxFaults,    \* bound: failed journal writes
  MaxRestarts   \* bound: process restarts

ASSUME PaidAssumption == Paid \subseteq Run /\ Twice \subseteq Proc \X Run
ASSUME LeaseAssumption == NoLease \notin Proc \X Run
ASSUME BoundAssumption == MaxRecords \in Nat \ {0} /\ {MaxCanvas, MaxFaults, MaxRestarts} \subseteq Nat

VARIABLES
  stops, filter,  \* durable Stops: exact records, and the compacted ones
  sick,           \* processes whose guard has a storage error
  lease,          \* the process and the run that own the paid lifecycle
  canvas,         \* the canvas open in each process
  admitting,      \* runs whose start route is between its first and last check
  again,          \* runs with a second request there
  on,             \* the canvas each run was asked on
  seen,           \* _admitting: a start began here and has not registered
  status,         \* _records: the status of each retained run
  errors,         \* had_error
  task,           \* the task of each run
  settling,       \* runs whose settle_and_publish is scheduled
  exact,          \* _cancel_before_start
  tombs,          \* _tombstones
  early,          \* _stopped_admitting
  resent,         \* history: ids that came to a process again before it was done with them
  promised,       \* history: runs whose Stop was answered without an error
  faults, restarts

memory == <<canvas, admitting, again, resent, on, seen, status, errors, task, settling, exact, tombs, early>>
vars == <<stops, filter, sick, lease, memory, promised, faults, restarts>>

Active   == {"running", "cancelling"}
Terminal == {"cancelled", "completed", "failed"}
\* A task not begun, not begun and cancelled, running, cancelled while running,
\* and done with its callback to come.
Alive    == {"new", "unborn", "live", "cut"}
Done     == {"ok", "error", "cancelled"}
Held     == {l \in Proc \X Run : lease = l}

TypeOK ==
  /\ stops \subseteq Run /\ filter \subseteq Run /\ sick \subseteq Proc
  /\ lease \in (Proc \X Run) \cup {NoLease}
  /\ canvas \in [Proc -> Nat] /\ on \in [Proc -> [Run -> Nat]]
  /\ status \in [Proc -> [Run -> Active \cup Terminal \cup {"none"}]]
  /\ task \in [Proc -> [Run -> Alive \cup Done \cup {"none"}]]
  /\ \A f \in {admitting, again, resent, seen, errors, settling, exact, tombs, early} : f \in [Proc -> SUBSET Run]
  /\ promised \subseteq Run
  /\ faults \in Nat /\ restarts \in Nat

Nobody == [p \in Proc |-> {}]

Init ==
  /\ stops = {} /\ filter = {} /\ sick = {} /\ lease = NoLease
  /\ canvas = [p \in Proc |-> 0]
  /\ on = [p \in Proc |-> [r \in Run |-> 0]]
  /\ status = [p \in Proc |-> [r \in Run |-> "none"]]
  /\ task = [p \in Proc |-> [r \in Run |-> "none"]]
  /\ admitting = Nobody /\ again = Nobody /\ resent = Nobody /\ seen = Nobody /\ errors = Nobody /\ settling = Nobody
  /\ exact = Nobody /\ tombs = Nobody /\ early = Nobody
  /\ promised = {} /\ faults = 0 /\ restarts = 0

-----------------------------------------------------------------------------
(* Admission.                                                              *)

Records(p) == {r \in Run : status[p][r] # "none"}
Excess(p) == Max({0, Cardinality(Records(p)) + 1 - MaxRecords})

\* A mutant of Denied: the filter is not asked.
DeniedExactly(r) == r \in stops

\* The durable Stop journal denies a run exactly or through its filter.
Denied(r) == r \in stops \cup filter

\* _assert_execution_admissible: the durable check, then the local one.
Admissible(p, r) ==
  /\ p \notin sick /\ ~Denied(r) /\ Cardinality(stops) < MaxRecords
  /\ r \notin exact[p] \cup tombs[p]
  /\ Cardinality(exact[p]) < MaxRecords

\* The start route up to its first await. A second request of the same run
\* takes the place of the first: whichever registers, the other is refused.
\* The record of an earlier run of the id may be pruned before that run settled.
Begin(p, r) ==
  /\ Admissible(p, r) /\ status[p][r] = "none"
  /\ admitting' = [admitting EXCEPT ![p] = @ \cup {r}]
  /\ seen' = [seen EXCEPT ![p] = @ \cup {r}]
  /\ on' = [on EXCEPT ![p][r] = canvas[p]]
  /\ resent' = IF r \in settling[p] THEN [resent EXCEPT ![p] = @ \cup {r}] ELSE resent
  /\ UNCHANGED <<again, stops, filter, sick, lease, canvas, status, errors, task, settling, exact, tombs,
                 early, promised, faults, restarts>>

\* The route refuses: a check after the await, a dropped request, a spend.
Refuse(p, r) ==
  /\ r \in admitting[p]
  /\ admitting' = [admitting EXCEPT ![p] = @ \ {r}]
  /\ UNCHANGED <<again, resent, stops, filter, sick, lease, canvas, on, seen, status, errors, task,
                 settling, exact, tombs, early, promised, faults, restarts>>

\* A mutant of Unmoved: the canvas is not asked again after the await.
UnmovedAnyway(p, r) == TRUE

\* _refuse_if_graph_moved, the fence of the start.
Unmoved(p, r) == on[p][r] = canvas[p]

\* _prune: terminal records make room, as far as there are any.
Pruned(p) ==
  LET terminal == {r \in Run : status[p][r] \in Terminal} IN
  {gone \in SUBSET terminal : Cardinality(gone) = Min({Excess(p), Cardinality(terminal)})}

\* A mutant of Unclaimed: the claim takes the lifecycle over.
UnclaimedOrNot(r) == TRUE

\* claim: the paid lifecycle is free.
Unclaimed(r) == r \in Paid => lease = NoLease

\* The last checks, the paid claim, create_task and register: no await between.
Register(p, r) ==
  /\ r \in admitting[p] /\ Unmoved(p, r) /\ Admissible(p, r) /\ status[p][r] = "none"
  /\ Unclaimed(r)
  /\ lease' = IF r \in Paid THEN <<p, r>> ELSE lease
  /\ \E gone \in Pruned(p) :
       status' = [status EXCEPT ![p] = [i \in Run |-> IF i = r THEN "running"
                                                      ELSE IF i \in gone THEN "none" ELSE @[i]]]
  /\ task' = [task EXCEPT ![p][r] = "new"]
  /\ errors' = [errors EXCEPT ![p] = @ \ {r}]
  /\ admitting' = [admitting EXCEPT ![p] = @ \ {r}]
  /\ seen' = [seen EXCEPT ![p] = @ \ {r}]
  /\ UNCHANGED <<again, resent, stops, filter, sick, canvas, on, settling, exact, tombs, early, promised,
                 faults, restarts>>

-----------------------------------------------------------------------------
(* The task of a run.                                                      *)

TaskStep(p, r, from, to) ==
  /\ task[p][r] \in from
  /\ task' = [task EXCEPT ![p][r] = to]

Turn(p, r) ==
  /\ TaskStep(p, r, {"new"}, "live")
  /\ UNCHANGED <<again, resent, stops, filter, sick, lease, canvas, admitting, on, seen, status, errors,
                 settling, exact, tombs, early, promised, faults, restarts>>

\* A node failed: mark_error, only while the run is running.
NodeError(p, r) ==
  /\ task[p][r] \in {"live", "cut"} /\ status[p][r] = "running"
  /\ errors' = [errors EXCEPT ![p] = @ \cup {r}]
  /\ UNCHANGED <<again, resent, stops, filter, sick, lease, canvas, admitting, on, seen, status, task,
                 settling, exact, tombs, early, promised, faults, restarts>>

\* The lifecycle of a run is free once its lease is released.
Released(p, r) == IF lease = <<p, r>> THEN NoLease ELSE lease

\* What a write of the journal does to the storage error of p.
Healthy(p) == sick' = sick \ {p} /\ faults' = faults
Broken(p)  == faults < MaxFaults /\ faults' = faults + 1 /\ sick' = sick \cup {p}

\* The coroutine ends, after its finally released the paid lease. A cancelled
\* one may have absorbed the Stop; one that never had a turn has no finally.
End(p, r) ==
  /\ \/ \E to \in {"ok", "error"} : TaskStep(p, r, {"live"}, to)
     \/ \E to \in {"ok", "cancelled"} : TaskStep(p, r, {"cut"}, to)
     \/ TaskStep(p, r, {"unborn"}, "cancelled")
  /\ \/ /\ task[p][r] # "unborn" /\ lease = <<p, r>>
        /\ lease' = NoLease
        /\ Healthy(p) \/ Broken(p)
     \/ /\ task[p][r] = "unborn" \/ lease # <<p, r>>
        /\ UNCHANGED <<sick, lease, faults>>
  /\ UNCHANGED <<again, resent, stops, filter, canvas, admitting, on, seen, status, errors, settling, exact,
                 tombs, early, promised, restarts>>

\* A second request of the same id, while the first has not registered; it
\* passes the same checks. (That it registers first is left out.)
BeginAgain(p, r) ==
  /\ <<p, r>> \in Twice /\ r \in admitting[p] /\ Admissible(p, r) /\ status[p][r] = "none"
  /\ again' = [again EXCEPT ![p] = @ \cup {r}]
  /\ resent' = [resent EXCEPT ![p] = @ \cup {r}]
  /\ UNCHANGED <<stops, filter, sick, lease, canvas, admitting, on, seen, status, errors, task, settling,
                 exact, tombs, early, promised, faults, restarts>>

\* It is refused: at a check, or by register, which finds the first. After
\* that refusal the route releases what the id holds.
RefuseAgain(p, r) ==
  /\ r \in again[p]
  /\ again' = [again EXCEPT ![p] = @ \ {r}] /\ resent' = resent
  /\ \/ UNCHANGED <<sick, lease, faults>>
     \/ /\ Unmoved(p, r) /\ Admissible(p, r) /\ status[p][r] # "none"
        /\ lease = <<p, r>> /\ lease' = NoLease
        /\ Healthy(p) \/ Broken(p)
  /\ UNCHANGED <<stops, filter, canvas, admitting, on, seen, status, errors, task, settling, exact, tombs,
                 early, promised, restarts>>

\* _finish, the done callback: the terminal status, and its publication.
Finish(p, r) ==
  /\ task[p][r] \in Done
  /\ status' = [status EXCEPT ![p][r] =
       IF task[p][r] = "cancelled" \/ @ = "cancelling" THEN "cancelled"
       ELSE IF task[p][r] = "error" \/ r \in errors[p] THEN "failed" ELSE "completed"]
  /\ task' = [task EXCEPT ![p][r] = "none"]
  /\ settling' = [settling EXCEPT ![p] = @ \cup {r}]
  /\ UNCHANGED <<again, resent, stops, filter, sick, lease, canvas, admitting, on, seen, errors, exact,
                 tombs, early, promised, faults, restarts>>

\* A compaction of S by p: into the filter, and out of the local records.
Compacted(p, S) ==
  /\ stops' = stops \ S
  /\ filter' = filter \cup (stops \cap S)
  /\ exact' = [exact EXCEPT ![p] = @ \ S]

\* settle_and_publish closes the lease of a task that never had its finally.
Settled(p, r) == Released(p, r)

\* settle_and_publish: release, then compact each exact Stop it can see, if
\* the paid lifecycle is free; a process with a storage error may see fewer.
Settle(p, r) ==
  /\ r \in settling[p]
  /\ settling' = [settling EXCEPT ![p] = @ \ {r}]
  /\ lease' = Settled(p, r)
  /\ \E moved \in SUBSET stops :
       /\ lease' # NoLease => moved = {}
       /\ Compacted(p, moved)
       /\ \/ /\ lease' # NoLease \/ moved = stops \/ p \in sick
             /\ IF moved # {} \/ lease' # lease THEN Healthy(p) ELSE UNCHANGED <<sick, faults>>
          \/ Broken(p)
  /\ UNCHANGED <<again, resent, canvas, admitting, on, seen, status, errors, task, tombs, early, promised,
                 restarts>>

-----------------------------------------------------------------------------
(* Stop.                                                                   *)

\* task.cancel(): a task that has not begun never will.
Cut(t) == IF t = "new" THEN "unborn" ELSE IF t = "live" THEN "cut" ELSE t

\* cancel of a registered run; a terminal one stays as it is.
CancelTask(p, r) ==
  IF status[p][r] \in Active
    THEN /\ status' = [status EXCEPT ![p][r] = "cancelling"]
         /\ task' = [task EXCEPT ![p][r] = Cut(@)]
    ELSE UNCHANGED <<status, task>>

\* DELETE /api/executions: the durable record first, then the registry, then
\* the compaction of a Stop that no task has to see. (A task that ends while
\* the answer yields is compacted by Settle.)
Stop(p, r) ==
  /\ p \notin sick /\ (Denied(r) \/ Cardinality(stops) < MaxRecords)
  /\ LET recorded == IF Denied(r) THEN stops ELSE stops \cup {r}
         unknown  == status[p][r] = "none"
         room     == r \in exact[p] \/ Cardinality(exact[p]) < MaxRecords
         noted    == IF unknown /\ room THEN exact[p] \cup {r} ELSE exact[p]
         kept     == stops' = recorded /\ filter' = filter /\ exact' = [exact EXCEPT ![p] = noted]
     IN
     /\ CancelTask(p, r)
     /\ early' = IF unknown /\ r \in seen[p] THEN [early EXCEPT ![p] = @ \cup {r}] ELSE early
     /\ tombs' = IF unknown THEN [tombs EXCEPT ![p] = @ \cup {r}] ELSE tombs
     /\ promised' = IF unknown /\ ~room THEN promised ELSE promised \cup {r}  \* else a 503
     /\ IF status[p][r] \in Active \/ (unknown /\ ~room) \/ lease # NoLease
          THEN kept /\ faults' = faults
          ELSE \/ /\ stops' = recorded \ {r}
                  /\ filter' = filter \cup ({r} \cap recorded)
                  /\ exact' = [exact EXCEPT ![p] = noted \ {r}]
                  /\ faults' = faults
               \/ kept /\ faults < MaxFaults /\ faults' = faults + 1
  /\ UNCHANGED <<again, resent, sick, lease, canvas, admitting, on, seen, errors, settling, restarts>>

\* The durable record fails or has no room: the Stop holds in this process
\* only, and the answer is an error.
StopUnsaved(p, r) ==
  /\ \/ p \in sick /\ UNCHANGED <<sick, faults>>
     \/ ~Denied(r) /\ Broken(p)
     \/ ~Denied(r) /\ Cardinality(stops) >= MaxRecords /\ UNCHANGED <<sick, faults>>
  /\ CancelTask(p, r)
  /\ tombs' = IF status[p][r] = "none" THEN [tombs EXCEPT ![p] = @ \cup {r}] ELSE tombs
  /\ UNCHANGED <<again, resent, stops, filter, lease, canvas, admitting, on, seen, errors, settling, exact,
                 early, promised, restarts>>

\* acknowledge_execution_cancellation: a person compacts one Stop.
CompactByHand(p, r) ==
  /\ lease = NoLease /\ r \in stops \cup exact[p]
  /\ Compacted(p, {r}) /\ Healthy(p)
  /\ UNCHANGED <<again, resent, lease, canvas, admitting, on, seen, status, errors, task, settling, tombs,
                 early, promised, restarts>>

\* A poll or a listing cannot read the journal.
Unreadable(p) ==
  /\ Broken(p)
  /\ UNCHANGED <<stops, filter, lease, memory, promised, restarts>>

\* A mutant of Watched: a journal that cannot be read stops nobody.
WatchedReadable(p, r) == p \notin sick /\ Denied(r)

\* is_run_cancelled, as the watcher polls it: fail closed.
Watched(p, r) == p \in sick \/ Denied(r)

\* _watch_for_cross_process_stop cancels the task of a run stopped elsewhere.
Watch(p, r) ==
  /\ status[p][r] = "running" /\ task[p][r] \in Alive /\ Watched(p, r)
  /\ CancelTask(p, r)
  /\ UNCHANGED <<again, resent, stops, filter, sick, lease, canvas, admitting, on, seen, errors, settling,
                 exact, tombs, early, promised, faults, restarts>>

\* A tombstone or a note beside it grows old, or makes room for a newer one.
Expire(p, r) ==
  /\ \/ r \in tombs[p] /\ tombs' = [tombs EXCEPT ![p] = @ \ {r}] /\ UNCHANGED <<seen, early>>
     \/ r \in early[p] /\ early' = [early EXCEPT ![p] = @ \ {r}] /\ UNCHANGED <<seen, tombs>>
     \/ r \in seen[p] /\ seen' = [seen EXCEPT ![p] = @ \ {r}] /\ UNCHANGED <<tombs, early>>
  /\ UNCHANGED <<again, resent, stops, filter, sick, lease, canvas, admitting, on, status, errors, task,
                 settling, exact, promised, faults, restarts>>

-----------------------------------------------------------------------------
\* A mutant of Quiet: only runs that nobody stopped count.
QuietRunning(p) == \A r \in Run : status[p][r] # "running"

\* not has_active.
Quiet(p) == \A r \in Run : status[p][r] \notin Active

\* Clear, an import or a project switch.
ReplaceCanvas(p) ==
  /\ Quiet(p) /\ canvas[p] < MaxCanvas
  /\ canvas' = [canvas EXCEPT ![p] = @ + 1]
  /\ UNCHANGED <<again, resent, stops, filter, sick, lease, admitting, on, seen, status, errors, task,
                 settling, exact, tombs, early, promised, faults, restarts>>

\* The process dies and another one takes its place.
Restart(p) ==
  /\ restarts < MaxRestarts /\ restarts' = restarts + 1
  /\ sick' = sick \ {p}
  /\ lease' = IF \E r \in Run : lease = <<p, r>> THEN NoLease ELSE lease
  /\ status' = [status EXCEPT ![p] = [r \in Run |-> "none"]]
  /\ task' = [task EXCEPT ![p] = [r \in Run |-> "none"]]
  /\ admitting' = [admitting EXCEPT ![p] = {}] /\ seen' = [seen EXCEPT ![p] = {}]
  /\ errors' = [errors EXCEPT ![p] = {}] /\ settling' = [settling EXCEPT ![p] = {}]
  /\ exact' = [exact EXCEPT ![p] = {}] /\ tombs' = [tombs EXCEPT ![p] = {}]
  /\ early' = [early EXCEPT ![p] = {}]
  /\ again' = [again EXCEPT ![p] = {}] /\ resent' = [resent EXCEPT ![p] = {}]
  /\ UNCHANGED <<stops, filter, canvas, on, promised, faults>>

Next ==
  \E p \in Proc :
    \/ ReplaceCanvas(p) \/ Restart(p) \/ Unreadable(p)
    \/ \E r \in Run : \/ Begin(p, r) \/ BeginAgain(p, r) \/ Refuse(p, r) \/ RefuseAgain(p, r)
                      \/ Register(p, r)
                      \/ Turn(p, r) \/ NodeError(p, r) \/ End(p, r) \/ Finish(p, r) \/ Settle(p, r)
                      \/ Stop(p, r) \/ StopUnsaved(p, r) \/ CompactByHand(p, r)
                      \/ Watch(p, r) \/ Expire(p, r)

Spec == Init /\ [][Next]_vars

\* The event loop gives turns, runs callbacks and scheduled coroutines, and
\* the watcher polls; a cancelled task ends (the paid POST it may be in has a
\* timeout), one that nobody stopped may run for ever.
Fairness ==
  \A p \in Proc, r \in Run :
    /\ WF_vars(Turn(p, r)) /\ WF_vars(Finish(p, r)) /\ WF_vars(Settle(p, r)) /\ WF_vars(Watch(p, r))
    /\ WF_vars(task[p][r] \in {"cut", "unborn"} /\ End(p, r))

LiveSpec == Spec /\ Fairness

-----------------------------------------------------------------------------
\* A Stop that was answered keeps its run from starting, on every process,
\* after a restart, a compaction and the expiry of the local tombstone, also
\* when the start was already being admitted (cancel_execution,
\* _assert_execution_admissible).
StopHolds ==
  [][\A p \in Proc, r \in Run : task[p][r] = "none" /\ task'[p][r] = "new" => r \notin promised]_vars

\* A run works on the canvas it was asked on, for as long as its task lives:
\* "a registered run blocks a clear, an import, a switch and a delete of the
\* open project" (_run_canvas_moved), and the start re-checks its fence.
RunsOnItsCanvas == \A p \in Proc, r \in Run : task[p][r] \in Alive => on[p][r] = canvas[p]

\* No run whose task lives loses its record to the bound of the registry,
\* and its record is not terminal.
TasksAreRecorded == \A p \in Proc, r \in Run : task[p][r] \in Alive \cup Done => status[p][r] \in Active

\* A terminal status is the last word of a retained record.
TerminalIsFinal ==
  [][\A p \in Proc, r \in Run : status[p][r] \in Terminal => status'[p][r] \in {status[p][r], "none"}]_vars

\* "was cancelled before it started" is only said of a run that had no task in
\* this process since (stopped_before_start, _stopped_id_refusal).
EarlyNeverRan == \A p \in Proc, r \in Run : r \in early[p] => status[p][r] = "none"

\* A paid lease belongs to a run that is going, or whose terminal step is yet
\* to release it.
LeaseHasItsRun ==
  \A l \in Held : status[l[1]][l[2]] \in Active \/ l[2] \in settling[l[1]]

\* The paid lifecycle belongs to its run until the task is over, whatever the other backend
\* and the Stops do; so no two paid runs live at once.  An id that came to its backend again
\* before the backend was done with it is set apart: see LeaseUntilEnd.
OnceSentKeepsLease ==
  \A p \in Proc, r \in Paid : task[p][r] \in Alive /\ r \notin resent[p] => lease = <<p, r>>

\* What the comment of execute says, of every run: "The lease therefore belongs to the task,
\* not the HTTP acknowledgement, and releases only after the task is terminal".
LeaseUntilEnd == \A p \in Proc, r \in Paid : task[p][r] \in Alive => lease = <<p, r>>

\* A Stop answered anywhere ends the run wherever it runs, and a paid run gives the paid
\* lifecycle back, also when its task never had a turn.
Holds(p, r) == task[p][r] \in Alive \/ lease = <<p, r>>
StopEndsRun == \A p \in Proc, r \in Run : (r \in promised /\ Holds(p, r)) ~> ~Holds(p, r)

\* A Stop compacted out of the shared journal takes no room in a registry
\* any more: "this also cleans an unknown Stop that initially raced an
\* unrelated paid lifecycle on another backend worker" (settle_and_publish).
CompactedEverywhere ==
  [][\A r \in Run : r \in stops /\ r \notin stops' => \A p \in Proc : r \notin exact'[p]]_vars
=============================================================================

------------------------- MODULE ProviderStartGuard -------------------------
(***************************************************************************)
(* The durable safety guard around paid World Labs starts                  *)
(* (src/backend/services/provider_start_guard.py), shared by several       *)
(* backend processes through one journal file and two advisory locks, with *)
(* the caller that drives it: admission, the paid POST of the handler,     *)
(* the settlement of its answer, Stop, and the terminal release.           *)
(*                                                                         *)
(* A start is a pair <<key, run>>: a key is a (kind, node) pair of the     *)
(* code, and a node has one kind, so keys carry their kind in KindOf.      *)
(*                                                                         *)
(* Every operation of the code runs under the process's RLock and, for the *)
(* part that reads and writes the journal, under the cross-process journal *)
(* flock, and it reloads the file first; so one operation is one step, and *)
(* what a process remembers of the journal between two operations is only  *)
(* `_nondurable_holds` (hold), `_active`, `_recovering`, `_storage_error`  *)
(* (err) and the lifecycle descriptor.                                     *)
(***************************************************************************)
EXTENDS Naturals, FiniteSets

CONSTANTS
  Proc,        \* backend processes
  Run,         \* run identifiers
  Key,         \* (kind, node) pairs
  Kind,        \* paid kinds
  KindOf,      \* the kind of each key
  HashBits,    \* the Bloom-filter positions of each run
  NoRun,       \* absence of a run
  NoProc,      \* nobody holds the lifecycle flock
  Mutation,    \* the lifecycle owner of a graph mutation ("mutation-<uuid>")
  MaxRecords,  \* max_records of the guard
  Unreadable,  \* operations whose journal lock or reload may fail
  MaxFaults,   \* bound: failed reads and writes in a behaviour
  MaxCrashes   \* bound: process crashes in a behaviour

ASSUME KindAssumption  == KindOf \in [Key -> Kind]
ASSUME NamesAssumption == /\ NoRun \notin Run
                          /\ Mutation \notin Run
                          /\ Mutation # NoRun
                          /\ NoProc \notin Proc
ASSUME BoundAssumption == /\ MaxRecords \in Nat \ {0}
                          /\ MaxFaults \in Nat
                          /\ MaxCrashes \in Nat

VARIABLES
  disk,        \* the journal file: ambiguities, pending, cancelledRuns, filter
  flock,       \* which process holds the lifecycle flock
  up,          \* which processes are running
  lifeRun,     \* _lifecycle_run_id of each process
  active,      \* _active: fresh paid leases
  recovering,  \* _recovering: re-poll leases
  hold,        \* _nondurable_holds
  err,         \* _storage_error is set
  phase,       \* where the handler of each paid lease is
  halted,      \* the owner has cancelled the task of its leased run
  owed,        \* history: starts that may be billed and are accounted to nobody
  stopped,     \* history: runs whose Stop was durably recorded
  faults, crashes

procVars  == <<up, lifeRun, active, recovering, phase, halted>>
guardVars == <<hold, err>>
history   == <<owed, stopped>>
vars == <<disk, flock, procVars, guardVars, history, faults, crashes>>

-----------------------------------------------------------------------------
(* The journal.                                                            *)

Slots    == [Key -> Run \cup {NoRun}]
Bits     == UNION {HashBits[r] : r \in Run}
Journal  == [amb : Slots, pend : Slots, stops : SUBSET Run, filter : SUBSET Bits]
NoRecord == [k \in Key |-> NoRun]
Empty    == [amb |-> NoRecord, pend |-> NoRecord, stops |-> {}, filter |-> {}]

Taken(m) == {k \in Key : m[k] # NoRun}

\* _reload_locked refuses a file with more records than the limit.
Over(j) == Cardinality(Taken(j.amb)) + Cardinality(Taken(j.pend)) > MaxRecords

\* A run the journal denies, exactly or through the Bloom filter.
Denied(j, r) == r \in j.stops \/ HashBits[r] \subseteq j.filter

\* The state after a reload: nondurable holds displace pending intents.
Merged(p) ==
  [amb    |-> [k \in Key |-> IF hold[p][k] # NoRun THEN hold[p][k] ELSE disk.amb[k]],
   pend   |-> [k \in Key |-> IF hold[p][k] # NoRun THEN NoRun ELSE disk.pend[k]],
   stops  |-> disk.stops,
   filter |-> disk.filter]

\* A mutant of Promoted: an abandoned intent is taken for an unsent start.
PromotedByDropping(j) == [j EXCEPT !.pend = NoRecord]

\* _promote_pending_locked: an intent without a live owner becomes a hold.
Promoted(j) ==
  [amb    |-> [k \in Key |-> IF j.pend[k] # NoRun THEN j.pend[k] ELSE j.amb[k]],
   pend   |-> NoRecord,
   stops  |-> j.stops,
   filter |-> j.filter]

\* Holds of p that a successful save of j made durable are dropped.
Kept(p, j) == [k \in Key |-> IF j.amb[k] # NoRun THEN NoRun ELSE hold[p][k]]

\* _persist: "lost" fails before the rename, "torn" after it (folder fsync).
Writes == {"ok", "lost", "torn"}

Save(j, w) ==
  /\ disk' = IF w = "lost" THEN disk ELSE j
  /\ IF w = "ok" THEN faults' = faults
                 ELSE faults < MaxFaults /\ faults' = faults + 1

\* A save by p of the journal j it has just reloaded and changed.
Persist(p, j, w) ==
  /\ Save(j, w)
  /\ hold' = IF w = "ok" THEN [hold EXCEPT ![p] = Kept(p, j)] ELSE hold

\* The journals that the operations of p save. Each starts from a reload.
Recovered(p) == Promoted(Merged(p))
Intended(p, r, K) == [Recovered(p) EXCEPT !.pend = [k \in Key |-> IF k \in K THEN r ELSE NoRun]]
Held(p, k) == [Merged(p) EXCEPT !.pend[k] = NoRun, !.amb[k] = active[p][k]]
Closed(p, K) == [Merged(p) EXCEPT !.pend = [k \in Key |-> IF k \in K THEN NoRun ELSE @[k]]]
\* Mutants of Compacted: the filter is not written; it gets the run, not its bits.
CompactedAway(p, r) == [Merged(p) EXCEPT !.stops = @ \ {r}]
CompactedWhole(p, r) == [Merged(p) EXCEPT !.stops = @ \ {r}, !.filter = @ \cup {r}]

Cancelled(p, r) == [Merged(p) EXCEPT !.stops = @ \cup {r}]
Compacted(p, r) == [Merged(p) EXCEPT !.stops = @ \ {r}, !.filter = @ \cup HashBits[r]]
Unlocked(p, k) == [Recovered(p) EXCEPT !.amb[k] = NoRun]

\* The journal lock or the reload of an operation fails.
Unread(op) ==
  \/ Over(disk) /\ faults' = faults
  \/ op \in Unreadable /\ faults < MaxFaults /\ faults' = faults + 1

Readable == ~Over(disk)

\* A mutant of Free: the lifecycle flock is not tried.
NeverBusy == TRUE

\* The lifecycle flock is free for p to take (a process never holds it twice).
Free == flock = NoProc

Leases(p) == Taken(active[p]) \cup Taken(recovering[p])

\* A paid lease: claimed; POST left; answer in doubt; answer dealt with.
Phases == {"none", "ready", "sent", "doubt", "settled"}

TypeOK ==
  /\ disk \in Journal
  /\ flock \in Proc \cup {NoProc}
  /\ up \in [Proc -> BOOLEAN]
  /\ lifeRun \in [Proc -> Run \cup {NoRun, Mutation}]
  /\ active \in [Proc -> Slots]
  /\ recovering \in [Proc -> Slots]
  /\ hold \in [Proc -> Slots]
  /\ err \in [Proc -> BOOLEAN]
  /\ phase \in [Proc -> [Key -> Phases]]
  /\ halted \in [Proc -> BOOLEAN]
  /\ owed \subseteq Key \X Run
  /\ stopped \subseteq Run
  /\ faults \in Nat
  /\ crashes \in Nat

Init ==
  /\ disk = Empty
  /\ flock = NoProc
  /\ up = [p \in Proc |-> FALSE]
  /\ lifeRun = [p \in Proc |-> NoRun]
  /\ active = [p \in Proc |-> NoRecord]
  /\ recovering = [p \in Proc |-> NoRecord]
  /\ hold = [p \in Proc |-> NoRecord]
  /\ err = [p \in Proc |-> FALSE]
  /\ phase = [p \in Proc |-> [k \in Key |-> "none"]]
  /\ halted = [p \in Proc |-> FALSE]
  /\ owed = {}
  /\ stopped = {}
  /\ faults = 0
  /\ crashes = 0

-----------------------------------------------------------------------------
(* Start-up, crash, and the reads that promote abandoned intents.          *)

\* _promote_abandoned_pending after its first reload succeeded.
PromoteAbandoned(p) ==
  \/ /\ Taken(Merged(p).pend) = {} \/ ~Free
     /\ err' = [err EXCEPT ![p] = FALSE]
     /\ UNCHANGED <<disk, hold, faults>>
  \/ /\ Taken(Merged(p).pend) # {} /\ Free
     /\ \E w \in Writes :
          /\ Persist(p, Recovered(p), w)
          /\ err' = [err EXCEPT ![p] = w # "ok"]

\* __init__: _load, then _promote_abandoned_pending.
Start(p) ==
  /\ ~up[p]
  /\ up' = [up EXCEPT ![p] = TRUE]
  /\ \/ /\ Unread("load")
        /\ err' = [err EXCEPT ![p] = TRUE]
        /\ UNCHANGED <<disk, hold>>
     \/ Readable /\ PromoteAbandoned(p)
  /\ UNCHANGED <<flock, lifeRun, active, recovering, phase, halted, history, crashes>>

\* list, has_active and has_active_node, for what they do to the journal.
Inspect(p) ==
  /\ up[p] /\ ~err[p]
  /\ \/ /\ Unread("inspect")
        /\ err' = [err EXCEPT ![p] = TRUE]
        /\ UNCHANGED <<disk, hold>>
     \/ Readable /\ PromoteAbandoned(p)
  /\ UNCHANGED <<flock, procVars, history, crashes>>

\* Leases, memory and descriptors die with the process; the kernel drops its flock.
Crash(p) ==
  /\ up[p] /\ crashes < MaxCrashes
  /\ crashes' = crashes + 1
  /\ up' = [up EXCEPT ![p] = FALSE]
  /\ flock' = IF flock = p THEN NoProc ELSE flock
  /\ lifeRun' = [lifeRun EXCEPT ![p] = NoRun]
  /\ active' = [active EXCEPT ![p] = NoRecord]
  /\ recovering' = [recovering EXCEPT ![p] = NoRecord]
  /\ hold' = [hold EXCEPT ![p] = NoRecord]
  /\ err' = [err EXCEPT ![p] = FALSE]
  /\ phase' = [phase EXCEPT ![p] = [k \in Key |-> "none"]]
  /\ halted' = [halted EXCEPT ![p] = FALSE]
  /\ UNCHANGED <<disk, history, faults>>

-----------------------------------------------------------------------------
(* Admission.                                                              *)

\* Mutants of Admissible (the filter is not asked) and of Blocked (only the
\* same node blocks).
AdmissibleExactly(r) == r \notin disk.stops /\ Cardinality(disk.stops) < MaxRecords
BlockedNode(j, K) == \E k \in K : j.amb[k] # NoRun

Admissible(r) == ~Denied(disk, r) /\ Cardinality(disk.stops) < MaxRecords

\* Another hold of a kind in K, on whatever node, blocks the claim.
Blocked(j, K) == \E k \in K, h \in Taken(j.amb) : KindOf[h] = KindOf[k]

Crowded(j, K) == Cardinality(Taken(j.amb) \cup Taken(j.pend) \cup K) > MaxRecords

ClaimGuard(p, r) ==
  /\ up[p] /\ ~err[p]
  /\ Leases(p) = {}
  /\ Free
  /\ Readable
  /\ Admissible(r)

\* claim: K fresh paid keys and R recovery keys for one run. A refusal by
\* pre_commit, or before it, changes nothing and is a stuttering step.
Claim(p, r, K, R) ==
  /\ ClaimGuard(p, r)
  /\ K \cup R # {} /\ K \cap R = {}
  /\ ~Blocked(Recovered(p), K) /\ ~Crowded(Recovered(p), K)
  /\ \E w \in Writes :
       /\ Persist(p, Intended(p, r, K), w)
       /\ err' = [err EXCEPT ![p] = w # "ok"]
       /\ IF w = "ok"
            THEN /\ flock' = p
                 /\ lifeRun' = [lifeRun EXCEPT ![p] = r]
                 /\ active' = [active EXCEPT ![p] = [k \in Key |-> IF k \in K THEN r ELSE NoRun]]
                 /\ recovering' = [recovering EXCEPT ![p] = [k \in Key |-> IF k \in R THEN r ELSE NoRun]]
                 /\ phase' = [phase EXCEPT ![p] = [k \in Key |-> IF k \in K THEN "ready" ELSE "none"]]
            ELSE UNCHANGED <<flock, lifeRun, active, recovering, phase>>
  /\ UNCHANGED <<up, halted, history, crashes>>

\* A claim refused for a hold or for capacity still saves what it promoted;
\* when that save fails the error is raised without marking the storage.
ClaimRefused(p, r, K) ==
  /\ ClaimGuard(p, r)
  /\ Blocked(Recovered(p), K) \/ Crowded(Recovered(p), K)
  /\ Taken(Merged(p).pend) # {}
  /\ \E w \in Writes : Persist(p, Recovered(p), w)
  /\ UNCHANGED <<flock, procVars, err, history, crashes>>

-----------------------------------------------------------------------------
(* The handler of one leased paid node.                                    *)

Leased(p, k) == active[p][k] # NoRun
StartOf(p, k) == <<k, active[p][k]>>
Step(p, k, from, to) ==
  /\ phase[p][k] \in from
  /\ phase' = [phase EXCEPT ![p][k] = to]

\* The non-idempotent POST leaves; from here the provider may bill the start.
Post(p, k) ==
  /\ Leased(p, k) /\ ~halted[p]
  /\ Step(p, k, {"ready"}, "sent")
  /\ owed' = owed \cup {StartOf(p, k)}
  /\ UNCHANGED <<disk, flock, up, lifeRun, active, recovering, halted, guardVars,
                 stopped, faults, crashes>>

\* The answer proves the provider did not accept (a definite denial), or its
\* ID was saved in the recovery journal: nothing is owed any more.
Accounted(p, k) ==
  /\ Leased(p, k)
  /\ Step(p, k, {"sent"}, "settled")
  /\ owed' = owed \ {StartOf(p, k)}
  /\ UNCHANGED <<disk, flock, up, lifeRun, active, recovering, halted, guardVars,
                 stopped, faults, crashes>>

\* The journal step that mark_ambiguous and hold_nondurable_recovery share:
\* the intent becomes a hold, kept in memory when it cannot be saved.
Hold(p, k) ==
  /\ Readable
  /\ \E w \in Writes :
       /\ Save(Held(p, k), w)
       /\ err' = [err EXCEPT ![p] = w # "ok"]
       /\ hold' = IF w = "ok" THEN [hold EXCEPT ![p] = Kept(p, Held(p, k))]
                              ELSE [hold EXCEPT ![p][k] = active[p][k]]

\* The answer proves nothing: the handler publishes the ambiguity. When the
\* journal cannot be read the guard raises, and no hold is made.
MarkAmbiguous(p, k) ==
  /\ Leased(p, k)
  /\ Step(p, k, {"sent", "doubt"}, "settled")
  /\ \/ Hold(p, k)
     \/ Unread("mark") /\ UNCHANGED <<disk, hold, err>>
  /\ UNCHANGED <<flock, up, lifeRun, active, recovering, halted, history, crashes>>

\* The answer carried an ID that could not be saved: the node is held. When
\* the guard raises instead, the handler treats the 2xx as ambiguous, unless
\* Stop arrived while the checkpoint was being published.
HoldNondurable(p, k) ==
  /\ Leased(p, k)
  /\ \/ Step(p, k, {"sent"}, "settled") /\ Hold(p, k)
     \/ /\ Unread("mark")
        /\ \/ Step(p, k, {"sent"}, "doubt")
           \/ halted[p] /\ Step(p, k, {"sent"}, "settled")
        /\ UNCHANGED <<disk, hold, err>>
  /\ UNCHANGED <<flock, up, lifeRun, active, recovering, halted, history, crashes>>

\* release_run, when the run is terminal: no handler is inside its POST.
Release(p) ==
  LET done == Closed(p, Leases(p))
      paid == Taken(active[p])
      pend == Merged(p).pend
  IN
  /\ up[p] /\ Leases(p) # {}
  /\ \A k \in Key : phase[p][k] \notin {"sent", "doubt"}
  /\ \/ /\ Readable
        /\ \E w \in Writes :
             /\ Save(done, w)
             /\ err' = [err EXCEPT ![p] = w # "ok"]
             /\ hold' = [hold EXCEPT ![p] =
                  IF w = "ok" THEN Kept(p, done)
                  ELSE [k \in Key |-> IF k \in paid /\ pend[k] # NoRun THEN pend[k] ELSE @[k]]]
     \/ /\ Unread("release")
        /\ err' = [err EXCEPT ![p] = TRUE]
        /\ hold' = [hold EXCEPT ![p] =
             [k \in Key |-> IF k \in paid THEN active[p][k] ELSE @[k]]]
        /\ UNCHANGED disk
  /\ flock' = NoProc
  /\ lifeRun' = [lifeRun EXCEPT ![p] = NoRun]
  /\ active' = [active EXCEPT ![p] = NoRecord]
  /\ recovering' = [recovering EXCEPT ![p] = NoRecord]
  /\ phase' = [phase EXCEPT ![p] = [k \in Key |-> "none"]]
  /\ halted' = [halted EXCEPT ![p] = FALSE]
  /\ UNCHANGED <<up, history, crashes>>

-----------------------------------------------------------------------------
(* Stop.                                                                   *)

\* record_cancel_intent returns: the Stop is on disk, now or already.
RecordCancelIntent(p, r) ==
  /\ up[p] /\ ~err[p] /\ Readable
  /\ \/ /\ Denied(disk, r)
        /\ stopped' = stopped \cup {r}
        /\ UNCHANGED <<disk, hold, err, faults>>
     \/ /\ ~Denied(disk, r) /\ Cardinality(disk.stops) < MaxRecords
        /\ \E w \in Writes :
             /\ Persist(p, Cancelled(p, r), w)
             /\ err' = [err EXCEPT ![p] = w # "ok"]
             /\ stopped' = IF w = "ok" THEN stopped \cup {r} ELSE stopped
  /\ UNCHANGED <<flock, procVars, owed, crashes>>

\* acknowledge_cancel_intent: the exact record moves into the Bloom filter.
CompactCancelIntent(p, r) ==
  /\ up[p] /\ Free /\ Readable
  /\ r \in disk.stops
  /\ \E w \in Writes : Persist(p, Compacted(p, r), w)
  /\ err' = [err EXCEPT ![p] = FALSE]
  /\ UNCHANGED <<flock, procVars, history, crashes>>

\* A mutant of PollStop: storage trouble is not taken for a Stop.
PollReadableStop(p) ==
  /\ up[p] /\ lifeRun[p] \in Run /\ ~halted[p]
  /\ ~err[p] /\ Readable /\ Denied(disk, lifeRun[p])
  /\ halted' = [halted EXCEPT ![p] = TRUE]
  /\ UNCHANGED <<disk, flock, up, lifeRun, active, recovering, phase, guardVars, history,
                 faults, crashes>>

\* The owner's watcher polls is_run_cancelled and cancels the task. Storage
\* trouble counts as cancelled.
PollStop(p) ==
  /\ up[p] /\ lifeRun[p] \in Run /\ ~halted[p]
  /\ \/ err[p] /\ UNCHANGED <<err, faults>>
     \/ /\ ~err[p] /\ Unread("poll")
        /\ err' = [err EXCEPT ![p] = TRUE]
     \/ ~err[p] /\ Readable /\ Denied(disk, lifeRun[p]) /\ UNCHANGED <<err, faults>>
  /\ halted' = [halted EXCEPT ![p] = TRUE]
  /\ UNCHANGED <<disk, flock, up, lifeRun, active, recovering, phase, hold, history, crashes>>

-----------------------------------------------------------------------------
(* The person's unlock, and the fence of a graph mutation.                 *)

\* acknowledge, up to the save: the person vouches for the node in Marble.
Acknowledge(p, k, r) ==
  /\ up[p] /\ ~Leased(p, k) /\ Free /\ Readable
  /\ Recovered(p).amb[k] = r
  /\ owed' = {s \in owed : s[1] # k}
  /\ \E w \in Writes : Persist(p, Unlocked(p, k), w)
  /\ err' = [err EXCEPT ![p] = FALSE]
  /\ UNCHANGED <<flock, procVars, stopped, crashes>>

\* An acknowledge or a compaction that finds nothing to remove has still
\* reloaded a readable journal, which clears the storage error.
Reread(p) ==
  /\ up[p] /\ Free /\ Readable /\ err[p]
  /\ err' = [err EXCEPT ![p] = FALSE]
  /\ UNCHANGED <<disk, flock, procVars, hold, history, faults, crashes>>

\* exclusive_lifecycle: promote what was abandoned, then keep the flock
\* until the graph is committed.
BeginMutation(p) ==
  /\ up[p] /\ ~err[p] /\ Free /\ Readable
  /\ \/ /\ Taken(Merged(p).pend) = {}
        /\ flock' = p
        /\ lifeRun' = [lifeRun EXCEPT ![p] = Mutation]
        /\ UNCHANGED <<disk, hold, faults>>
     \/ /\ Taken(Merged(p).pend) # {}
        /\ \E w \in Writes :
             /\ Persist(p, Recovered(p), w)
             /\ IF w = "ok"
                  THEN flock' = p /\ lifeRun' = [lifeRun EXCEPT ![p] = Mutation]
                  ELSE UNCHANGED <<flock, lifeRun>>
  /\ UNCHANGED <<up, active, recovering, phase, halted, err, history, crashes>>

EndMutation(p) ==
  /\ up[p] /\ lifeRun[p] = Mutation
  /\ flock' = NoProc
  /\ lifeRun' = [lifeRun EXCEPT ![p] = NoRun]
  /\ UNCHANGED <<disk, up, active, recovering, phase, halted, guardVars, history, faults, crashes>>

-----------------------------------------------------------------------------
Settle(p) == \E k \in Key : Accounted(p, k) \/ MarkAmbiguous(p, k) \/ HoldNondurable(p, k)

Next ==
  \E p \in Proc :
    \/ Start(p) \/ Inspect(p) \/ Crash(p)
    \/ \E r \in Run, K \in SUBSET Key : ClaimRefused(p, r, K) \/ \E R \in SUBSET Key : Claim(p, r, K, R)
    \/ \E k \in Key : Post(p, k)
    \/ Settle(p)
    \/ Release(p)
    \/ \E r \in Run : RecordCancelIntent(p, r) \/ CompactCancelIntent(p, r)
    \/ PollStop(p)
    \/ \E k \in Key, r \in Run : Acknowledge(p, k, r)
    \/ Reread(p)
    \/ BeginMutation(p) \/ EndMutation(p)

Spec == Init /\ [][Next]_vars

\* The owner's 0.1 s watcher keeps polling, the provider request settles
\* (it has a 300 s timeout), and the finally of a cancelled task releases its
\* run once the handlers ended. A run that nobody cancels may take for ever.
Fairness ==
  \A p \in Proc : /\ WF_vars(PollStop(p)) /\ WF_vars(Settle(p))
                  /\ WF_vars(halted[p] /\ Release(p))

LiveSpec == Spec /\ Fairness

-----------------------------------------------------------------------------
(* What the guard promises.                                                *)

\* A start whose POST left and which nobody accounted for is on disk, as a
\* hold of its node or as its own pending intent: no crash, failed write or
\* Stop makes Nebula forget a start it may have paid for (mark_ambiguous,
\* release_run, _promote_abandoned_pending).
PossiblyBilledIsHeld ==
  \A s \in owed : disk.amb[s[1]] # NoRun \/ disk.pend[s[1]] = s[2]

\* Unaccounted starts of one paid kind all belong to one run: no backend,
\* after any crash or lost write, pays for a second start while an earlier
\* one may still have been billed (claim's same-kind rule).
NoSecondStart ==
  \A s, t \in owed : KindOf[s[1]] = KindOf[t[1]] => s[2] = t[2]

\* Leases of two processes, or a lease and a graph mutation of another,
\* never coexist, and the leases of a process are its lifecycle run's
\* (_acquire_lifecycle, exclusive_lifecycle).
OneOwner ==
  \A p \in Proc :
    /\ lifeRun[p] # NoRun <=> flock = p
    /\ \A k \in Key : /\ active[p][k] \in {NoRun, lifeRun[p]}
                      /\ recovering[p][k] \in {NoRun, lifeRun[p]}
                      /\ NoRun \in {active[p][k], recovering[p][k]}

\* What makes the promises inductive. A paid lease is covered by a hold or by
\* its own intent and was admitted while nothing of its kind was owed; it is
\* settled with its start still owed only behind a hold, on disk or in memory
\* (or when no process can read the file any more); and while a run owns the
\* lifecycle no other run has an intent. At a release this is what lets the
\* intents go.
LeasesAreCovered ==
  /\ \A p \in Proc, k \in Key : Leased(p, k) =>
       /\ phase[p][k] # "none"
       /\ disk.amb[k] # NoRun \/ disk.pend[k] = active[p][k]
       /\ phase[p][k] = "ready" => StartOf(p, k) \notin owed
       /\ phase[p][k] = "settled" /\ StartOf(p, k) \in owed =>
            disk.amb[k] # NoRun \/ hold[p][k] # NoRun \/ Over(disk)
       /\ \A s \in owed : KindOf[s[1]] = KindOf[k] => s[2] = active[p][k]
  /\ \A p \in Proc, k \in Key :
       lifeRun[p] \in Run /\ disk.pend[k] # NoRun => disk.pend[k] = active[p][k]

\* A Stop whose recording succeeded denies its run for ever, on every
\* process and after compaction into the Bloom filter
\* (record_cancel_intent, acknowledge_cancel_intent).
StopIsPermanent == \A r \in stopped : Denied(disk, r)

\* A hold leaves the journal only while no start or mutation owns the
\* lifecycle, and alone: an acknowledgement drops one node's hold and keeps
\* every other (acknowledge).
HoldsLeaveAlone ==
  [][\A k \in Key : disk.amb[k] # NoRun /\ disk'.amb[k] = NoRun =>
       flock = NoProc /\ \A i \in Key \ {k} : disk.amb[i] # NoRun => disk'.amb[i] # NoRun]_vars

\* The guard implements the ledger of PaidStarts: a start is running while a
\* process has its paid lease. Its Admit step asks for what claim has to
\* establish from a journal that other processes, crashes and failed writes
\* left behind.
RunningStarts == {<<k, active[p][k]>> : p \in Proc, k \in Key} \cap (Key \X Run)

Ledger == INSTANCE PaidStarts WITH running <- RunningStarts

ImplementsPaidStarts == Ledger!Spec

\* A run that holds the paid lifecycle when its Stop is on disk gives the
\* lifecycle up (the cross-process watcher and the terminal release).
StopEndsTheLease ==
  \A p \in Proc, r \in Run : (lifeRun[p] = r /\ r \in stopped) ~> (lifeRun[p] # r)

\* After an acknowledgement that succeeded, its process remembers no hold of
\* that node (test_acknowledge_waits_for_active_handshake_to_finish).
AcknowledgedIsGone ==
  [][\A p \in Proc, k \in Key, r \in Run :
       Acknowledge(p, k, r) /\ faults' = faults => hold'[p][k] = NoRun]_vars

\* The journal never holds more records than its loader accepts
\* (_reload_locked raises on such a file).
JournalWithinLimit == ~Over(disk)
=============================================================================

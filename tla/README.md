# Formal models of Nebula Nodes

TLA+ models of Nebula Nodes (a FastAPI server, a React canvas and an Electron shell that
edit and run one graph of AI nodes), the TLC configurations that check them and TLAPS
proofs about them. Every definition is translated from the code; `PROJECT.json` maps each
to its lines. Paths below are under `src/backend` unless they say otherwise.

The models are about what costs money, loses work or cannot be undone: paid provider
starts that must not be forgotten or repeated, Stops that must not be lost, an agent's
spending that must stay under its limit, an approval that must start what the person saw,
the engine that decides which handler runs when; and, on the person's side, what they
typed and did on the canvas while saves are lost and canvases are replaced, and the
desktop that starts, migrates and stops the backend.

1. Inventory of the system
2. Plan of the project
3. The modules and the code
4. The runs, their bounds and fairness
5. What is proved
6. Where the code and its words differ
7. What is not modelled

## 1. Inventory

One backend process is an asyncio event loop: code between two awaits is atomic, except
for what worker threads and other processes do. Several backends (a development server,
the desktop sidecar, a second worker) may share one state folder; they meet in files and
advisory file locks only. Browsers and agents call HTTP routes of `main.py` and listen on
WebSockets. Handlers call paid providers over HTTP.

| component | source | state | operations | hard behaviour | what makes it correct |
|---|---|---|---|---|---|
| Paid-start guard | `services/provider_start_guard.py` | journal of holds, pending intents, Stops and a Bloom filter; lifecycle lock; leases and remembered holds per process | claim, mark_ambiguous, hold_nondurable_recovery, release_run, record / acknowledge a Stop, acknowledge a hold, exclusive_lifecycle, list | several backends, crashes between save and answer, failed and half-done saves, a full journal | a start that may be billed is known on disk; one kind is not paid for twice; a Stop is for ever |
| Paid recovery | `services/provider_recovery.py`, `main.py` 575-846, 11449-11743, 13880-13944, `handlers/worldlabs.py` | journal of provider IDs; reservations; the canvas file; the canvas in memory of each backend | reserve, set, ensure_many, delete; admission, publication, canvas commit, Forget, unlock | stale payloads, capacity, crash between journal and canvas, two backends over one canvas file | an accepted start is remembered; no node has two unresolved starts |
| Run registry and Stop | `services/execution_runs.py`, `main.py` 4261-4307, 11532-11743, 12094-12581 | run records, exact early Stops, tombstones, notes; the task of each run; done callbacks | admit, register, end, Stop, watch, settle, compact, prune | Stop before, during and after admission; two backends; a task that never had a turn | a Stop holds; the paid lifecycle belongs to a live run and comes back |
| Agent spending | `services/agent_spend.py`, `execution/provider_calls.py`, `main.py` 2936-3300 | ledger (file and memory), holds, calls of each run | decide, record, hold, refund, settle, evict | give-backs during and after the run, failed saves, repeated ids, rolling window | what was really spent is within the limits; what was not spent is given back |
| Graph engine | `execution/engine.py`, `execution/gating.py` | ready queue, remaining edges, node tasks, outputs per item, manifest | launch, wait, read, skip, fail, cancel, settle | fan-out joins, gates, two nodes in flight, a Stop during a cleanup | nodes run after their parents, once per item; a run ends settled |
| Proposals and run approvals | `services/canvas_proposals.py`, `services/run_approvals.py`, `main.py` 3059-3162, 9357-9887 | proposals, approvals; the live canvas and its revision | propose, withdraw, accept, reject, reopen, run, release, edit, replace | awaits inside Accept and run; agents, tabs, runs and undo between | the run of an approval is what the person was shown, once |
| Output cache | `services/cache.py` | outputs by content hash | get, put, evict | a replay after the inputs changed | a replay is what the same inputs gave |
| Project store and switch | `services/project_store.py`, `services/cli_graph.py`, `services/project_asset_purge.py` | project files, catalog, open canvas | open, save, switch, delete, purge | crash between two files, a switch during a request | a canvas is saved to its own project |
| Canvas undo and removals | `services/canvas_undo.py` | undo tokens, epochs, removal records | record, undo, redo, forget | undo across edits of others and clears | an undo restores only what was its own |
| Canvas events | `services/canvas_events.py` | bounded journal, cursors | append, read since | a cursor older than the bound | a reader knows when it missed something |
| Questions, notes, pins, presence | `services/agent_questions.py`, `agent_notes.py`, `canvas_pins.py`, `agent_presence.py`, `person_thread.py`, `push_ledger.py` | per project lists | ask, answer, expire, pin, move | answer racing expiry, delivery to an agent that is away | an answer is delivered once |
| Cover and board proposals | `services/asset_proposals.py`, `commons_proposals.py` | proposals over project records | as canvas proposals | as canvas proposals | as canvas proposals |
| Moodboards | `services/moodboard_*.py` | boards, edits, analyses | edit, read, analyse | edits of several tabs | an edit applies to the revision it saw |
| Agent sessions, MCP, channel | `services/acp_session.py`, `codex_session.py`, `chat_session.py`, `mcp_server.py`, `mcp_channel.py` | child processes, turns | start, prompt, cancel | a child that dies in a turn | a turn ends |
| Provider transport | `execution/sync_runner.py`, `stream_runner.py`, `async_poll_runner.py` | none beyond a call | post, poll, stream | retry of a poll, timeouts | no retry of a start that is not idempotent |
| Handlers, routing, pricing, settings | `handlers/`, `services/node_route.py`, `model_pricing.py`, `settings.py` | configuration | lookup, call | provider answers | tables are right |
| Cinema, Commons | `cinema/`, `commons/` | scenes, media library | render, import | a shot runs the engine several times | see Agent spending |
| Canvas settings: typing, saves and syncs | `src/frontend/src/store/graphStore.ts` 1760-3100 | per node the unsaved edit, its generations, timer and parked save; saves and syncs on their way | type, debounce, save, answer, park and resend, sync, linger | answers out of order, a restart that loses revisions, an agent's edit, clear or import between a save and its echo | typing is saved or named, on its own canvas; the card shows what was taken |
| Canvas write queue and replacement | `graphStore.ts` 2040-2900, 10400-10700, `projectStore.ts` | writes with their admission, restores pressed, the gate, the drain, the replacement's line | edit, undo, open a project, follow an agent's switch | writes that wait while the canvas is replaced under them | no write lands astray or out of order; what was cut off is named; nobody waits for ever |
| Desktop: sidecar, quit, windows | `src/desktop/main.mjs`, `sidecar.mjs`, `window-recovery.mjs` | the sidecar handle, flags of the startup and the quit, windows; child processes | launch, spawn, health, stop, quit, close, activate | a quit in every phase of the startup, a child that exits or ignores SIGTERM, a crash of Electron | no backend is left behind; a window shows what is there; a quit ends |
| Desktop: migration and stored keys | `src/desktop/migration.mjs`, `credentials.mjs` | the marker, the copied files, credentials.json | encrypt, copy, mark, retry, re-run; set, clear | a failure or crash at any step, torn files, a re-run after later edits | a re-run never replaces what is newer |
| Command line, rest of frontend and desktop | `cli/`, `src/frontend`, `src/desktop` | views, tables | clients of the routes | none of their own | follow the backend |

How they interact. `POST /api/execute` passes the run registry's admission, then the approval
and the spending limits, then claims the paid starts in the guard and the recovery journal,
registers a task and answers. The task runs the engine; the engine calls handlers; a paid
handler posts, settles its lease with the guard and publishes its provider ID through the
event sink into the recovery journal and the canvas. The done callback publishes the terminal
status, gives the lease back and compacts the run's Stop. `DELETE /api/execute/{id}` records the
Stop in the guard first and then cancels the task; backends that do not own the task
find the Stop in the journal. A canvas edit takes the guard's lifecycle for its commit.

A tab sends every change of the canvas with the workspace revision and canvas revision it was
made on, and the backend refuses one for another canvas. The backend tells every tab of each
change with a `graphSync`, which also says when the graph was replaced: by a switch to another
project, an import or a clear, the person's or an agent's. The desktop shell starts one backend as
a child process, gives it the decrypted keys, and stops it when it quits.

## 2. Plan

Order of work, the most expensive failures first:

1. `ProviderStartGuard` with the abstract ledger `PaidStarts`, its invariants and
   proofs. *Done.*
2. `PaidRecovery`: the recovery journal composed with admission, publication and
   the canvas, over the ledger view of the guard, with proofs. *Done.*
3. `ExecutionRuns`: admission, Stop and the terminal step over the durable Stops and the
   lifecycle of the guard, with proofs. *Done.*
4. `AgentSpend`: ledger, holds, give-backs, with proofs. *Done.*
5. `Engine`: scheduling, fan-out, gates, failures, Stop, manifest, with proofs. *Done.*
6. `Approvals`: proposals, Accept, the lock and the run, with proofs. *Done.*
7. `Desktop`: sidecar, quits, windows, migration and stored keys, with proofs. *Done.*
8. `ParamSaves`: a setting from the keystroke to the card at rest, with proofs. *Done.*
9. `CanvasWrites`: the order and the place of the canvas's writes, with proofs. *Done.*
10. Next: the output cache under `Engine`; the project switch (`ProjectStore`) with the fences of
   `PaidRecovery`; undo and removals under `Approvals`; questions and their delivery.
11. Proofs next: that `Approvals` implements a one-step "shown, accepted, run" specification; that
   `PaidRecovery` and `ExecutionRuns` use the guard as `PaidStarts` lets them.

Composition. A module above uses the module below through what it promises, and not by
its journal: `PaidRecovery` and `ExecutionRuns` see the guard as sets of holds, intents and
Stops and an owner of the lifecycle, each written in one step. `ProviderStartGuard` is checked
against the same view: `PaidStarts` is its abstract specification, and `ImplementsPaidStarts` the
refinement. The parameters are constants with named assumptions, and recursion is
written as recursive functions, so that proofs can use every module.

## 3. The modules and the code

A step is what runs on one event loop without an await, or under the process lock and
the journal's file lock. Failures are choices: a save may fail before its rename or after it,
a read may fail, a process may end between any two steps.

**`ProviderStartGuard`** (MC: `MCProviderStartGuard`). `disk` is the journal file with its four
maps; `flock` the lifecycle lock; `lifeRun`, `active`, `recovering`, `hold`, `err` are the
fields `_lifecycle_run_id`, `_active`, `_recovering`, `_nondurable_holds` and
`_storage_error` of each process; `phase` is where the paid handler stands
(`handlers/worldlabs.py` 1598-1660). `Claim`/`ClaimRefused` are `claim`,
`Post`, `Accounted` and `MarkAmbiguous` the handler's POST and the settlement of its
answer, `Release` is `release_run`, and so on; each begins with the reload and merge that the
code begins with (`Merged`, `Promoted`) and ends with its save (`Persist`), whose three
outcomes are the code's. `owed` and `stopped` are history.

**`PaidStarts`** is what users of the guard may rely on: a ledger of running, owed and stopped
starts without journals, processes or crashes.

**`PaidRecovery`** (MC: `MCPaidRecovery`). `records` is the recovery journal, `graphFile`
and `graph` the provider ID each node's parameters carry on disk and in each backend;
`reservations`, `storageErr`, `bootErr` the fields of the same names; `commit` is a canvas edit
between the seeding of the journal and the save. `Claim` is
`_claim_fresh_paid_worldlabs_starts`, `Publish` `_sync_provider_recovery_to_cli_graph`,
`BeginCommit` ... `RollBack` `_commit_graph_candidate_with_recoveries`, `Forget` and `Acknowledge`
the two routes of the person. A save that fails leaves the old file or the new one (`Torn`), and a delete
clears the health flag either way (`Swept`); `Registered` is the loop over the checkpoints of
an admission in closed form: all are set, or those before one that fails. `due` is
history: what may be billed.

**`ExecutionRuns`** (MC: `MCExecutionRuns`). `status`, `errors`, `exact`, `tombs`,
`early`, `seen` are the fields of `ExecutionRunRegistry`; `task` is the asyncio task of a
run in the states that matter to a cancel (not begun, not begun and cancelled, running,
cancelled, done); `settling` the scheduled `settle_and_publish`. `Begin` and `Register` are the two
ends of the awaits in `execute`; `BeginAgain` is a second request of the same id, for the runs of
`Twice`, a constant of process and run. `resent` is history: the ids that came to a process again
before it was done with them.

**`AgentSpend`** (MC: `MCAgentSpend`). `disk` and `books` are the ledger file and what each
process has: the ledger, the holds and the records of calls. `Start` is the decision and the count
in `_require_spend_approval`, `Call` a handler's first call, `Finish` `_settle_hold`. One price per
node stands for every limit that is a sum of prices. `Newest` is what a bounded table keeps, of the
chats in the ledger and of the holds (`Keeping`, `Displaced`). `Opened` is the lazy load: a file that
cannot be read, parsed or recognised (`blind`) is an empty ledger, which the next save writes over it.
`real` is history: what the calls cost. `apart` is history, too: the keys that lost a count in one of the
four ways the code has, from the moment they lose it.
- `Overlooked`: another backend has loaded the ledger before, and will write its own copy over the count.
- `Unreadable`: a process cannot read the file when it first needs it; every key with a count in it is apart.
- `Uncovered`: a request with nothing to pay, of the id of a run that is going, is refused and returns that
  run's hold.
- `Call` and `KeyMissing`: a credential that is missing at the first call of a pass gives back what an
  earlier pass spent (`SpentBefore`), or is there again at a later pass, after the share went back.
What each does to a budget is in section 6; the limits are claimed for the other keys.

**`Engine`** (MC: `MCEngine`). `ready`, `remaining`, `task`, `outputs` and `manifest` are the
variables of `_execute_graph`; `todo` and `now` are the loop of `run_node` over its
contexts. `Above` is the set of a node's ancestors and `Sorted` the topological orders of a set that the
loop may take. `Loop` is the scheduler (`Launch`, `Wait`, `Read`, `Cleanup`, `Settle`,
`Complete`), `Step(n)` a node's task. A value is abstracted to the item context it belongs
to and the ports withheld with it.

**`Approvals`** (MC: `MCApprovals`). `graph` is the live canvas, `epoch` its revision,
`status` and `shown` the proposals (where each stands; what it showed), `approvals` the open
approvals, ordered by `at`, `req` what each request
of the person's tabs waits with between its first check and its commit. `Draft` and
`Propose` are the two ends of the measure in `create_canvas_proposal`; `Decide` and
`Accept`/`Reject` the two ends of the reading of the body; `Undo` and `Reopen` those of the lookup of
the models; `AskRun` is the tab's request (`src/frontend/src/store/canvasProposalsStore.ts`) and `Run` the
check that uses the approval up. `AgentEdit` passes `_guard_approved_runs`, `PersonEdit` need
not; `EndRun` writes parameters back. `RunScope` is what a run of some nodes takes along: the least set
with their inputs. A run has the settings that the tab sends, which need not be the live ones (`OfTab`): of
the request the check compares the nodes and wires, and of the settings the live ones (`Matches`). `ran`
records what ran, and for which nodes the tab's own settings were not Nebula's (`own`).

**`Desktop`** (checked as it stands). `pc` is where the startup coroutine of `src/desktop/main.mjs` waits, from
the migration check to the session or the failure window; `handle`, `flags` and `windows` are
`sidecarHandle`, the shell's booleans and its two windows; `proc` the child processes, which outlive
the launch that made them until they exit. The three `Loading` phases are the awaits of `loadURLAndWait`: a
load begun in a closed window throws, and one whose window closes meanwhile never ends. `Prompt`, `Answers`
and `Person` group the actions by what takes them: the code and its timers, the answers to waits that have
no timeout (a page, the keychain, the disk, a free port), the person. `Quit` is `before-quit`, `WindowAction`
is `decideWindowAction`. `Kill` is a crash of Electron, which may tear the file being written.

**`ParamSaves`** (checked as it stands). One node of one tab. `edit` is its `UnsavedParamEdit`,
`gens` the three generation counters, `saved` the last saved values, `timer` the debounce or the
linger, `parked` the save kept for the next sync; `requests` are the PUTs and `syncs` the
`graphSync` messages, which arrive in order. `Deliver`, `AgentEdit` and the replacements are the
backend; `Answers` is what an answer does (kept, cut off, parked, failed), `ReceiveSync` the
branches of `applyGraphSync`. `PutsBack` is a failed save: its keys go back to the values before them, which
the next save in line carries. `unowned` and `mislaid` are history: the values a key was handed back on though
the save that carries them does not own it, and those that an answer for a replaced canvas left as last
saved. A value is the number of the keystroke that made it, so each property
can ask what became of it.

**`CanvasWrites`** (checked as it stands). One tab, all its writes in the order of admission. A
write's `state` says where it stands in `graphMutationFetch` or `sendRestore`; `gate` is
`writeGate` and `switch` the replacement under way with its drain. `Answered` is
`settleTracked` with `noteCutOff`; `GateOpens` is `openWriteGate`; `ReceiveSync` is what a sync that
replaces the graph does (`CanvasReplaced`, `AgentSwitched`, `WorkspaceMoved`). `told`, `handed` and
`passed` are history. A write here is one of an unknown setting or place: what it changes is
`ParamSaves`' matter.

## 4. The runs

| run | instance | shows |
|---|---|---|
| `guard` | two backends, two runs, two nodes of one kind, a fault, a crash | `PossiblyBilledIsHeld`, `NoSecondStart`, `OneOwner`, `StopIsPermanent` and the strengthening `LeasesAreCovered`; the refinement of `PaidStarts`; `StopEndsTheLease` under fairness |
| `recovery` | two backends with a canvas each, a journal of two records, one node, two starts, a fault, a crash | `KeptOrHeld`, `OneStartPerNode`, `RoomIsKept`; `CommittedIdsAreJournaled`, of every step |
| `runs` | two backends, one paid run, sent twice to the first, a registry of one record, a fault, a restart | `RunsOnItsCanvas`, `OnceSentKeepsLease`, `StopHolds`; `StopEndsRun` (the run ends and its lifecycle is free) under fairness |
| `runs_twice` | a repeated id with no paid node | violated `LeaseUntilEnd` (section 6) |
| `spend` | two backends, an app and the shared outside budget, a repeated id, a window of one tick that the clock leaves, a failed save or an unreadable file, a restart | `RealWithinBudget` |
| `spend_chats` | two chats with room for one total, batches, a shot of two passes whose credentials come and go, both ids repeated (one with nothing to pay), a failed save or an unreadable file, a restart | `CountedIsCovered` through evictions |
| `engine` | eight graphs of up to five nodes, arrays of up to two, two nodes at once, two Stops | `StartsAfterParents`, `RunsOncePerItem`, `SkippedExactly`, `CompleteMeansAll`; `RunEnds` under fairness |
| `approvals` | two proposals over two nodes and a wire, two requests, room for one approval, two runs going, two edits, any settings sent | `AcceptedAsShown`, `DecidedOnce`, `LockHolds` |
| `desktop` | two launches with one port retry each, one key, one file, a crash, a failed migration, failed loads, two edits | `NoOrphan`, `WindowsAreHonest`, `RerunKeepsLater`; `QuitEnds` under fairness |
| `saves` | two settings, two keystrokes, and any two of an agent's edit, a clear, an import, a restart, a lost connection, failed requests | `NothingLostUnsaid`, `WritesStayOnTheirCanvas`, `ShownIsTaken`; `EndsAtRest` under fairness |
| `writes` | any four of three edits or undos, a project opened by the person, two replacements by an agent, a lost answer | `NoWriteAstray`, `InOrder`, `LostIsNamed`; `EveryTurnComes` under fairness |
| `writes_gate` | an edit and an undo made while a switch drains | violated `GateKeepsOrder` (section 6) |

`guard`, `engine` and `approvals` also check the types (`TypeOK`); those of the other modules are proved only
(section 5).

Each property has a mutant in its module, a plausible bug of the mapped code, and the property is
violated under the same configuration when the mutant takes the place of the definition.

Two configurations hold beside the runs, for a second look at the same modules. `GuardFull.cfg`
has a journal of one record, two kinds and two faults, and checks `HoldsLeaveAlone` besides.
`RunsRecords.cfg` has a paid and a free run in one backend: `TasksAreRecorded`, `EarlyNeverRan`,
`TerminalIsFinal`.

Bounds. `MaxFaults`, `MaxCrashes`, `MaxRestarts`, `MaxStarts`, `MaxCanvas`, `MaxStops`, `MaxTime`,
`MaxOthers`, `MaxGoing`, `MaxLaunches`, `MaxKills`, `MaxEdits`, `MaxFails`, `MaxTyped`, `MaxAgent`,
`MaxBoot`, `MaxGaps`, `MaxWrites`, `MaxSwitches` and the number of runs and proposals bound the length
of a behaviour; `MaxTrouble` and `MaxAll` bound several of them together. `MaxRecords`, `MaxHolds`,
`MaxChats`, `MaxOpen`, `MaxApprovals`, `MaxRetries`, `Cap` and `Concurrency` are the code's own limits at a
size that is reached. Two processes, two runs and two keys are what the promises relate; one fault and
one crash, in any place, already reach every partial state of one save, and two faults
(`GuardFull.cfg`) a second failure on top of it. A limit of one or two records is met in a few steps,
so that pruning, eviction and refusal for room take part in the runs. The graphs of `engine` are
chosen for their joins: a gate above, below and beside a fan-out, both branches of one gate, an outer
context beside its items, a double edge, and one graph that validation must refuse. Two keystrokes
are what a save can have behind or before it, of its own key or of another, and two troubles cross
every answer with every replacement, in any order. In `writes` the joint bound of four leaves room for
each write to meet a switch of the person and one of an agent; its safety properties were also checked with
`MaxAll = 5` (6.1 million states), and `approvals` with `MaxOthers = 3` and `MaxGoing = 1` (9.8 million)
and `spend` with `Window = 2` and `MaxTime = 2`, so that counts of two times add up in one window (2.7 million).
Symmetry is used for processes, runs, proposals and requests only where a run has no liveness property and
the definitions treat them alike.

Deadlock is not checked: behaviours stop when their bounds are used up, when a run has
ended, or when a process stays down; that something must happen is said by the liveness properties.

Fairness. `guard` and `runs`: weak fairness of the watcher of Stops, which is a loop
of the backend with a sleep (`main.py` 11724), of the provider's answer or its timeout, of the end
of a task that was cancelled, and of the done callback, which asyncio calls. Nobody is assumed to
send a request, to retry, or to restart a process, and a run that was not stopped need not end.
`engine`: weak fairness of the scheduler and of each node task, whose handlers have timeouts;
Stops are not fair. `desktop`: only what the code itself brings on is fair (`Prompt`): its synchronous steps, the
exit of a child before its health, the health timeout, the grace and the kill budget of a stop, the catch of
the startup. The load of an overlay, the keychain (`encryptStringAsync`, `decryptAll`), the file copies and
`allocatePort` have no timeout, so none of these answers is assumed, and `QuitEnds` allows a startup that stays in such a wait for ever.
Its second part asks what is left if they do come (the fairness of `Answers` is its hypothesis): only the
load of an overlay in a window that was closed. A child ends once it gets a SIGKILL or its lifeline closes;
SIGTERM alone need not end it, and no person is assumed to do anything. `saves`: timers fire, the socket reconnects, which the
client tries for ever, and a request ends with an answer or an error. `writes`: the timers and
queues of the tab, and the requests of a switch, which end; no write need ever be answered.

## 5. What is proved

A run shows a property on one small instance; a theorem here shows it for every value of the constants
that the named assumptions of its module allow: every number of processes, runs, nodes, keys, tabs,
keystrokes, failures and crashes, and every graph. The assumptions say that bounds are naturals, that
the names of nobody and nothing are not names of somebody, that what is summed over is finite
or counted (`FiniteAssumption` of `AgentSpend` and of `PaidRecovery`), and what is fixed about a graph
(`GraphAssumption` of `Engine`: a topological order without repetitions, finitely many edges;
`WireAssumption`, `CanvasAssumption` and `OfferAssumption` of `Approvals`: wires without a cycle,
canvases and offers over the nodes there are). The three safety theorems of `Approvals` need none of
them. TLC evaluates each assumption in a run. Each argument below says what the property
needs to become inductive.

**`ProviderStartGuardProofs`**. The lemmas say what each operator on the journal returns (`MergedFacts`,
`RecoveredFacts`, `IntendedFacts`, `HeldFacts`, `ClosedFacts`, `StopFacts`, `UnlockedFacts`), what a
save can leave (`PersistFacts`) and what each operation does to the state (`HoldFacts`, `ReleaseFacts`,
`ClaimFacts`, ...). From them: `TypeCorrect`; `StopsAreKept` (a recorded Stop denies its run for ever,
with the Bloom filter as sets of bits); `OneOwnerAlways`; `PossiblyBilledStarts`, `NoSecondStarts`,
`LeasesCoveredAlways` and `GuardImplementsLedger`, these four with the assumption that the mark of an
ambiguous answer can read the journal (`"mark" \notin Unreadable`): without it `GuardUnreadMark.cfg`
shows a counterexample; and `HoldsLeaveAloneAlways`: a hold on a start that may have been billed leaves
the disk only when the person acknowledges it.

"A start that may be billed is on disk" is not inductive: at a release the intents of the run are
dropped, so one has to know that a settled start that is still owed has a hold, on disk or remembered in
memory by its own process; at a claim one has to know that nothing of its kind is owed, which is a
matter of all processes. `LeasesAreCovered` says it: a paid lease is covered by a hold or by its own
intent, was admitted while nothing of its kind was owed, is settled with its start owed only behind a
hold, and nobody else's intent is in the file while a run owns the lifecycle. `Covered` is the
conjunction; `CoverStep` shows that each action keeps it, with `QuietStep` for those that keep the
file's holds and intents. `GuardImplementsLedger` rests on it: each action maps to one step of
`PaidStarts` or to none, and where the ledger's step has a guard (the run is not stopped, nothing of the
kind is owed, nobody else's start runs) the invariants supply it.

**`PaidRecoveryProofs`**: `TypeCorrect`, `KeptOrHeldAlways`, `OneStartPerNodeAlways` and
`CommitKeepsStartsAlways`, from `RecoveryInv`. "An accepted start is remembered" is false of one step: a
journal that was rolled back, or a canvas that was replaced, may have been the only one to remember it.
`KeptOrUnseeded` says where else it is: every start that may be billed is locked or in the journal, but
for the one the canvas carried before there was a journal, as long as no backend has seeded it and each
one that is up still carries it. A canvas edit that waits between the seeding and its save is the hard
case, and `CommitKeepsStarts` settles it: without the records that the edit added, every start is still
remembered, so a rollback forgets none. "One start per node" follows from whose a record is
(`RecordsAreOfUsedRuns`, `RecordsOfTheRun`) and who owns the lifecycle (`LifecycleIsOwned`).

`RoomIsKeptAlways` and `CommittedIdsAlways` rest on `RoomInv`, which holds beside `RecoveryInv`. The room of
one backend's reservations depends on what the other backends record, whose own checks do not see those
reservations. So what has to be known is who may record at all while a start holds room: a run has
reservations only under its own name and while it owns the lifecycle, and the others then neither admit a run,
nor begin an edit, nor seed at their start. The count is of the reservations that no record fills yet (`Unset`): publishing an ID
moves a key from the one side to the other, and a refused admission, which may have recorded some of its
checkpoints before one failed, leaves the file within the limit all the same (`PreparedFits`). For the
commit, the IDs of a candidate are in the journal from the seeding on (`CommitIsSeeded`), because no record
is deleted while the fence of the edit is held. The lemmas on sizes (`UnionCounts`, `KeysCount`, ...) are those
of the library's `FiniteSetTheorems`, for a canvas with finitely many nodes.

**`ProcessProofs`** proves two components, neither of which needs much: the registry of runs and, below, the
desktop shell. The names of `Desktop`'s specification carry its name (`DesktopSpec`, `DesktopNext`), so
that one module can extend both.

Of `ExecutionRuns`: `RunsOnItsCanvasAlways`, `OnceSentKeepsLeaseAlways`, `OnePaidTaskAlways`,
`LeaseHasItsRunAlways`, `TasksAreRecordedAlways`, `EarlyNeverRanAlways`, `StopHoldsAlways`,
`TerminalIsFinalAlways`, `TypeCorrect`, from `RunInv`. That a Stop holds relates the shared journal to
the memory of every backend (`StopsAreDenied`): an answered Stop is in the journal or in the filter, and
a task that has not begun reads one of them. That a paid task keeps its lease needs the converse as
well: nobody but its own settle gives it back, so no settle of an earlier task of the same id may be
outstanding. This is false of an id that came again before its earlier run had settled, and the proof
found how: a record that was pruned before its `settle_and_publish` ran lets the id register anew, and
that settle then releases the new task's lease. `resent` has these ids (`ResentAreKnown`), and the
theorem is about the others.

**`AgentSpendProofs`**: `TypeCorrect`, `SpendInvAlways`, `CountedIsCoveredAlways` and
`RealWithinBudgetAlways`. "What was spent is within the budget" is not inductive, and neither is "what was
spent is counted": at the end of a run, for a missing credential and for a late or refused request the code
takes something back, and one has to know that it takes nothing that was spent or will be. `SpendInv` says
what every count has to cover, in the file and in the memory of each process, for each key and each time
that a limit still looks at (`Covered`): what was spent; what the runs that are going may still cost
(`Need`: of a node never called its whole share, of one that was its calls still to come); and what a hold
may take back besides (`Due`). The two last are not always two: while the hold of an id is the one its run
was counted with (`OwnHold`), giving back what was never called only lowers `Need`, and `Due` is nothing. It
is a hold of its own, and all of its share is due, when it was placed for another request of the id or
outlives its run. The set of runs whose hold is their own is a witness of the invariant (`own`), and no
charged request that waits to be refused is of one of them (`NotLate`). The file covers the runs alone, with no hold
to give back, because a restart forgets the holds (`FileInv`); that is why a failed save leaves it right.
Beside it, what is counted in the window keeps every limit (`Within`), and no chat without a place has a
count (`Kept`); the limits of what was spent follow, sum by sum.

`MoveInv` is the step for one run that moves, its hold and its counts with it (`Moved`); `CountedInv` the
one for a request that is counted, with the chats and holds that make room for it; `DropInv`, `ReturnInv`,
`MissInv` are those for what is given back. Each action is one of these, or quiet. The sums are folds, which
recursive functions on finite sets define, and no induction over them is at hand: what the first lemmas say of
a sum (`SumStep`, `SumOut`, `SumPart`, `SumLe`, ...) is shown for a smallest subset that would refute it.

No theorem has a hypothesis beyond the assumptions on the constants: backends, repeated ids, passes, credentials
that come and go, unreadable files and restarts are all there in any number. All of `SpendInv` is said of the keys
that are neither evicted nor `apart`, and only the four ways of section 3 set a key apart, each at the step at
which the code loses its count. What has to be shown is that nothing else loses a count: the ledger of every
backend covers the keys that are not apart, although each overwrites the file with its own copy; where the file
has no count of a key, nothing was spent on it, so that an empty ledger covers it too; the
hold that a request with nothing to pay returns is nobody's own, or its key is apart; and a node that a
missing credential gives back was not called in an earlier pass, or its key is apart. A budget over several
keys, the one of all outside agents, is claimed while none of its keys is apart.

**`EngineProofs`**: `StartsAfterParentsAlways`, `CompleteMeansAllAlways`, `RunsOncePerItemAlways`,
`SkippedExactlyAlways`, `EndIsSettledAlways` and `TypeCorrect`, from two invariants. `Sched` says what
the counters mean: `remaining` of a node is the number of edges into it whose source has not passed
(`Counted`, whatever the number of edges between two nodes), a node of the graph is
queued or has started exactly when that is none (`Queued`). `Works` says what a node that began runs in and skips, in terms of the contexts its settled
parents left it, and that these form an antichain. The two properties about items and skips speak of all
ancestors at any distance; they are not proved by induction over steps but in each state down the graph:
of the nodes that would violate them take the first in the order of the graph; its parents do not
violate them, and `Works` carries the claim from them to it.

**`ApprovalsProofs`**: `AcceptedAlways`, `DecidedAlways` and `LockAlways`, from one invariant, and
`TypeCorrect`. `AcceptedAlways` is about every run under an approval and whatever the tab sends with it: the
nodes and the wires are those that were shown, and the settings are, of every node for which the tab sent what
Nebula had. (The others run as the tab had them, which `ApprovalsTab.cfg` shows.) That a run is what was shown says nothing about the approval the run used, so `IInv` adds
what an approval is (`Granting`): its proposal is accepted and has not run, its digest is what the
proposal shows, its shape the wires of that digest. Accept makes it so, because `Fits` compared the
staged canvas with what was shown; afterwards no step changes what an accepted proposal shows (`Keeps`),
and every step that changes the canvas either breaks no approval or writes someone to blame (`Blames`).
A step with both, that grants and starts nothing, keeps `IInv` (`QuietStep`); only Accept and Run need a
proof of their own. Run compares the wires of the request and the live settings separately, and where the
settings that were sent are the live ones the two together are the digest.
None of this expands `RunScope`: these theorems do not depend on how the scope of a run is computed.
`TypeCorrect` needs beside them that what the runs were sent are settings (`Settings`), which they write back,
and the limits (`Limits`).

Of `Desktop`, also in `ProcessProofs`: `NoOrphanAlways`, `WindowsAreHonestAlways`,
`RerunKeepsLaterAlways` and `DesktopTypeCorrect`, from `ShellInv`. "A live backend is held or awaited" depends on where the startup stands:
`HandleRuns` says that there is a handle only in a session and that it is cleared before its stop is
awaited, `AwaitedIsChild` that the health the startup waits for is that of a child it made,
`CleaningStops` where the stop of a quit is, and `EndIsNoted` that a session without a backend and a
failed startup have been noted. For the migration `CopyIsPartial` says that the file being copied is
partial and that nobody else writes it.

**`CanvasWritesProofs`**: `NoWriteAstrayAlways`, `LostNamedAlways`, `InOrderAlways` and `TypeCorrect`.
The first part says what each step does to the writes: it never changes who made one, where, nor brings
one back from its end (`Goes`), and most steps do less (`Quiet`). Then "no write lands astray" needs
`Fenced`: whatever is on its way carries the revision and canvas it was made on, because every way out
goes through `Sent`, and the backend takes it only under the pair it has open. "What is lost is named"
needs `Accounted`, which says of a write that is not lost yet who will name it: a write of a canvas
replaced since finds that replacement's line still showing, unless a drain counted it or a handoff took
it; a line that an agent's switch ends without a word comes only after the handoff has all the edits
that were out; a counted write is in the switch's own list until a line or a failed switch takes that
list over. `NamedQuiet` is the step for a write that is only moved on, and `NamedSettled` the one for a
write that just ended. "In order" needs `Ordered`, which says of two writes what the later one waits
for: while a restore is pressed, every write made after it is behind it, held at the gate or will never
reach Nebula (`Queues`); while an edit has no answer, a restore made after it waits for that answer
(`Awaits`). The order of their arrival follows, for one write that arrives and all that already have.

**`ParamSavesProofs`**: `NothingLostUnsaidAlways`, `WritesStayOnTheirCanvasAlways`, `ShownIsTakenAlways`
and `TypeCorrect`, from `SavesInv`, the largest of these proofs. Its parts:
- `Booked`: the books of the unsaved edit. Its keys, generations and saves agree with the requests that
  are out; what a save was sent with is the save's own until it is answered.
- `Said`: every value typed has been taken, named or typed over, or somebody owns it: a save on its way,
  or the debounce that will send it.
- `Housed`: every value in the tab, in the saves, in the syncs and in the backend was made on the canvas
  it is on, or for a process that has ended since, or is `mislaid`. This needs `Lined`: the tab, the
  syncs on their way and the backend are in the order in which the canvas was replaced.
- `Truthful`: of what the person typed, the backend and the syncs have only what was taken.
- `Honest`: a card's setting is one the backend took, or waits in the debounce, or is carried by a save
  that owns its key.

"The card shows what was taken" is about a card at rest, and `Honest` is what is true of it before. It
is exactly what two parts of the code break, and the proof stopped there until the model named them: the
hand-back of a key to a save that does not own it (`unowned`) and the answer for a replaced canvas
(`mislaid`). Both are in section 6, with configurations that show what becomes of them.

Only model-checked. `StopEndsTheLease`, `StopEndsRun`, `RunEnds`, `QuitEnds`, `EndsAtRest` and
`EveryTurnComes` are liveness under fairness, which needs `ENABLED`; every safety property that a passing
run checks is proved. The remaining configurations of section 6 and of section 4's second look are TLC's
alone, but for `HoldsLeaveAlone`, `TasksAreRecorded`, `EarlyNeverRan` and `TerminalIsFinal`, which are
proved.

## 6. Where the code and its words differ

Two runs are expected to be violated; `PROJECT.json` quotes the lines.

- `runs_twice`: the refusal of a second request of one run id releases the paid lifecycle of the first.
- `writes_gate`: an edit that waits at the gate of a project switch is in no queue yet, so an undo
  pressed after it does not wait for it; when the switch is refused, Nebula gets the undo first and the
  edit it took back after it.

Further configurations, not among the listed runs, each violated by what the code does:

| configuration | property | what happens |
|---|---|---|
| `GuardUnlock.cfg` | `AcknowledgedIsGone` | `acknowledge` of a hold that is only in memory answers True, but the save forgets a remembered hold only when its key is among the saved ones (`provider_start_guard.py` 961), so it returns with the next reload (779-782); `tests/test_provider_start_guard.py` 188-193 expects it gone |
| `GuardUnreadMark.cfg` | `PossiblyBilledIsHeld` | the journal cannot be read exactly when an ambiguous answer is marked (442); the terminal release then drops the intent |
| `GuardOverLimit.cfg` | `JournalWithinLimit` | holds of memory merged at a save pass the record limit (187-197, 926), and no process can load the file |
| `RecoveryForget.cfg` | `CanForget` | Forget passes a fence whose preflight needs room in the full journal (`main.py` 704) |
| `RunsIntents.cfg` | `CompactedEverywhere` | a Stop compacted by one worker keeps its local record in the worker that recorded it (`main.py` 4286-4291) |
| `SpendUnborn.cfg` | `UnspentIsGivenBack` | a run stopped before its first turn never settles its hold (`main.py` 12216; `agent_spend.py` 116-118) |
| `SpendApart.cfg` | `BudgetsSurvive` | a ledger is read once and then overwritten (`agent_spend.py` 355), so two backends spend one budget twice |
| `SpendUnread.cfg` | `BudgetsSurvive` | a ledger file that cannot be read, parsed or recognised when a process first needs it counts as empty and is overwritten (`agent_spend.py` 358-363), so one backend and one restart spend a budget twice; 343-344: "kept in a small JSON file so budgets survive a restart" |
| `SpendTwice.cfg` | `NothingSpentIsGivenBack` | the refusal of a repeated id that has nothing to pay gives back the hold of the run that is going (`main.py` 12250), whose handlers then spend it; 3032-3033 says of what is given back that "it can't have cost anything" |
| `SpendPasses.cfg` | `NothingSpentIsGivenBack` | a missing credential is judged anew by each `execute_graph` call (`execution/engine.py` 1690), and a shot calls it once per variation: a node billed in the first pass that finds its connection gone in the second gives its whole share back; `main.py` 3018-3019 has "no provider request, so nothing spent" |
| `ApprovalsTab.cfg` | `RunsValueForValue` | an approval is checked against the live settings, and what runs are the settings of the request (`main.py` 3120-3123, 12175-12191). A tab whose canvas is not Nebula's runs other settings than were shown, against 9793: "must match it value for value" |
| `ApprovalsWriteBack.cfg` | `OnlyThePerson` | a run that was going writes the parameters it was sent with over an approved node (`main.py` 14033); `run_approvals.py` 18 says "Nothing but the person may change a node in its run set". The approved run is then refused, not made with other values |
| `EngineStops.cfg` | `EndIsWritten` | a second Stop during the cleanup cancels the await in the run's `finally` (`execution_runs.py` 283-284, `execution/engine.py` 1831-1835), and the manifest is never written |
| `DesktopQuit.cfg` | `QuitStopsFirst` | `src/desktop/main.mjs` 1124: "A second Cmd-Q while the sidecar is stopping must not let Electron exit before the stop finishes". `stopInFlight` is set only by the quit that starts the stop; when the stop is that of a quit asked during the startup (1038-1046), a second quit finds no handle, no startup and no stop, and exits before the SIGKILL |
| `DesktopLoad.cfg` | `QuitOutlivesStartup` | the window is closed while an overlay loads; `loadURLAndWait` (`src/desktop/main.mjs` 296-315) never settles, the startup stays pending, and `before-quit` prevents every quit (1140-1145), which waits for a startup that cannot end |
| `DesktopRerun.cfg` | `CompleteIsWhole` | `src/desktop/migration.mjs` 257 calls its steps "idempotent — safe to re-run after partial failure"; a file left partial by a crash or a failed write exists, so the re-run skips it and marks the migration complete |
| `SavesParked.cfg` | `ParkedIsNamed` | two saves of one node refused after a restart: the failure of the first one's resend forgets the whole edit, and the second one's resend finds nothing to send. Its value was not taken and no line names it, against `graphStore.ts` 2945-2957 |
| `SavesOwner.cfg` | `PutBackIsTaken` | a key is typed and saved, another key is saved (that save carries the first key too), and the first key is saved again; the third save fails, so the key is put back to the second save's value and handed to it, though it is no key of it. The second and the first save fail too: neither puts the key back, and the card rests on a value nobody took, without an edit to send (`graphStore.ts` 1803-1804: the hand-back is there so that the key has a save to answer for it) |
| `SavesAnswer.cfg` | `SavedStaysOnItsCanvas` | the answer of a save for a canvas replaced since overwrites the new node's last saved value: `pushNodeParams` has no same-graph guard in its `.then` (3065-3069). A later failed save puts that value back on the card, and the next one carries it to the new canvas, against the comment at 3039-3041 |
| `SavesImport.cfg` | `TypingIsNamed` | an agent's import clears typing that is still in its debounce with no line; the comment at `graphStore.ts` 2310-2311 says the line names it |

Smaller observations from the three modules of the person's side, none of which loses work without a word
unless said so. Two saves of one setting may reach Nebula out of order, and the earlier value is
kept; and the first one's echo is taken for the second's, so that a sync from before the second moves
the card back until the next one (`graphStore.ts` 1881-1883). A setting that Nebula stores in a form of its own is shown in that form only after the linger. After
an agent's older sync and a failed save, a card may go back to a value that is not the last
one Nebula saved (`graphStore.ts` 1791-1796). A clear followed by a restart that lost the
canvas revisions is taken for the same canvas when the same nodes are on it; `WritesStayOnTheirCanvas` is
therefore about one process of the backend. Edits that a drain counted are not named when its switch fails, nor are edits of
an older canvas when an agent's switch is followed: `passed` in `CanvasWrites` collects these two cases, and
`LostIsNamed` sets them apart.

From the run registry: an id whose record was pruned before its `settle_and_publish` had its turn may be
registered again, and that settle then releases the lifecycle of the new task. It takes a client that
repeats an id at that moment and a registry at its limit, so `OnceSentKeepsLease` sets such
ids apart (`resent`) and no run is made of it.

## 7. What is not modelled

Within the modelled parts: `clear` and `restore` of the journals (no caller outside tests), false
positives of the Bloom filter outside `ProviderStartGuard`, the deletion of a node and a project switch in
`PaidRecovery`, who may stop whose run, how a price is estimated, built-in node bodies and
media, nodes that a proposal adds, the person token. In `Desktop`: the smoke test, the interpreter probe,
the stale-bundle dialog, encryption itself. In `ParamSaves`: more than one node, undo of
settings, deletes with typing behind them, scenes and universal model requests. In `CanvasWrites`: what a
restore changes, presses held on a step in flight, the tab's own clear, two drains at once, the reload after a
failed switch.

The output cache, the project store on disk, undo tokens and removals, events and questions are planned
(section 2). Moodboard analysis is numeric; settings, pricing and routing are tables; the command line is a
client of the routes; the rest of the frontend is views and data (`nodeDefinitions.ts` alone is a fifth
of it), and the rest of the desktop shell single decisions; sessions, transport and handlers are I/O
whose outcomes appear as choices. `PROJECT.json` lists every component with its reason.

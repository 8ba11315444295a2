------------------------------- MODULE Desktop -------------------------------
(***************************************************************************)
(* The desktop shell (desktop/main.mjs) with the backend it starts as a    *)
(* sidecar (sidecar.mjs), the one-time migration (migration.mjs) and the   *)
(* stored keys (credentials.mjs): launches of the app over one data root,  *)
(* the backend processes they start, the windows, and quits and crashes in *)
(* any place.  The macOS rule is modelled: closing windows does not quit.  *)
(*                                                                         *)
(* A launch runs the startup coroutine of main.mjs; pc is where it waits.  *)
(* File stands for settings.json and for what the migration copies.        *)
(***************************************************************************)
EXTENDS Integers, FiniteSets

CONSTANTS
  Key,          \* names of provider keys
  LegacyKey,    \* keys in the repository's settings
  File,         \* files the migration writes into the data root
  MaxRetries,   \* MAX_PORT_RETRIES
  MaxLaunches,  \* bound: launches of the app
  MaxKills,     \* bound: crashes of the app
  MaxEdits,     \* bound: keys saved or cleared, files changed, re-runs asked
  MaxFails      \* bound: migrations that fail

Child   == 1..(MaxLaunches * (MaxRetries + 1))
NoChild == 0
NoFile  == "none"
Torn    == [k \in Key |-> "torn"]   \* credentials.json that no longer parses

ASSUME DesktopAssumption ==
  /\ NoFile \notin File
  /\ LegacyKey \subseteq Key
  /\ MaxRetries \in Nat /\ MaxLaunches \in Nat /\ MaxKills \in Nat
  /\ MaxEdits \in Nat /\ MaxFails \in Nat

VARIABLES
  creds,     \* credentials.json: the keys it holds and where each came from
  marker,    \* migration-state.json
  dest,      \* what the data root holds of each file
  copying,   \* the file that the migration is writing
  pc,        \* where the launch is
  handle,    \* sidecarHandle
  cur,       \* the child whose health is awaited, or that is being stopped
  flags,     \* which of the shell's booleans are set
  windows,   \* the loading and the main window
  attempts,  \* ports tried in this launch
  proc,      \* of each child: whether it lives, what it was sent, its launch
  used,      \* children made so far
  launches, kills, edits, fails  \* what the bounds count

stored == <<creds, marker, dest>>
procs  == <<proc, used>>
bounds == <<launches, kills, edits, fails>>
desktopVars == <<stored, copying, pc, handle, cur, flags, windows, attempts, procs, bounds>>

Loading   == {"loadBegin", "loadComplete", "loadFailed"}   \* loadURLAndWait
Migrating == Loading \cup {"encrypt", "copy", "mark", "done"}
Stopping  == {"stopMismatch", "stopStartup", "stopQuit"}
Phases    == Migrating \cup Stopping
               \cup {"off", "check", "ask", "decrypt", "spawn", "health", "fail", "running", "failed"}
FlagNames == {"starting", "quitAsked", "cleaning", "disconnected", "startupError"}
NoWindows == [loading |-> "none", main |-> "none"]

Lives(c) == proc[c].state \in {"booting", "healthy"}
Mine(c)  == pc # "off" /\ proc[c].launch = launches

DesktopTypeOK ==
  /\ creds \in [Key -> {"none", "legacy", "new", "cleared", "torn"}]
  /\ marker \in {"pending", "in-progress", "failed", "complete", "torn"}
  /\ dest \in [File -> {"none", "partial", "whole", "later"}]
  /\ copying \in File \cup {NoFile}
  /\ pc \in Phases /\ handle \in Child \cup {NoChild} /\ cur \in Child \cup {NoChild}
  /\ flags \subseteq FlagNames
  /\ windows \in [loading : {"none", "loading", "failure"},
                  main : {"none", "live", "overlay", "page"}]
  /\ attempts \in 0..(MaxRetries + 1) /\ used \in 0..Cardinality(Child)
  /\ proc \in [Child -> [state : {"none", "booting", "healthy", "exited"},
                         sent : {"none", "TERM", "KILL"}, launch : 0..MaxLaunches]]

DesktopInit ==
  /\ creds = [k \in Key |-> "none"] /\ marker = "pending"
  /\ dest = [f \in File |-> "none"] /\ copying = NoFile
  /\ pc = "off" /\ handle = NoChild /\ cur = NoChild /\ flags = {} /\ windows = NoWindows
  /\ attempts = 0 /\ used = 0
  /\ proc = [c \in Child |-> [state |-> "none", sent |-> "none", launch |-> 0]]
  /\ launches = 0 /\ kills = 0 /\ edits = 0 /\ fails = 0

-----------------------------------------------------------------------------
(* Electron's beginning and end *)

\* Electron ends: its windows and memory go; the data root and its children stay.
Ends ==
  /\ pc' = "off" /\ handle' = NoChild /\ cur' = NoChild /\ copying' = NoFile
  /\ flags' = {} /\ windows' = NoWindows /\ attempts' = 0

Launch ==
  /\ pc = "off" /\ launches < MaxLaunches /\ launches' = launches + 1
  /\ pc' = "check" /\ flags' = {"starting"}
  /\ windows' = [NoWindows EXCEPT !.loading = "loading"]
  /\ UNCHANGED <<stored, copying, handle, cur, attempts, procs, kills, edits, fails>>

\* A crash or a forced end.  One in the middle of a write leaves a torn file.
Kill ==
  /\ pc # "off" /\ kills < MaxKills /\ kills' = kills + 1
  /\ Ends
  /\ \/ UNCHANGED <<creds, marker>>
     \/ pc \in {"encrypt", "running"} /\ creds' = Torn /\ UNCHANGED marker
     \/ pc \in {"check", "mark", "running"} /\ marker' = "torn" /\ UNCHANGED creds
  /\ UNCHANGED <<dest, procs, launches, edits, fails>>

-----------------------------------------------------------------------------
(* The migration and its overlay *)

\* loadURLAndWait in a window that is closed already throws at once.
Open == windows.loading # "none"

\* isMigrationNeeded, then the 'in-progress' marker and its overlay; a torn marker throws.
CheckMigration ==
  /\ pc = "check"
  /\ \/ /\ marker = "torn" /\ pc' = "fail" /\ UNCHANGED marker
     \/ /\ marker = "complete" /\ pc' = "decrypt" /\ UNCHANGED marker
     \/ /\ marker \notin {"torn", "complete"} /\ marker' = "in-progress"
        /\ pc' = IF Open THEN "loadBegin" ELSE "fail"
  /\ UNCHANGED <<creds, dest, copying, handle, cur, flags, windows, attempts, procs, bounds>>

\* The catch of runMigrationWithOverlay, with the failed overlay.
MigrationFails ==
  /\ marker' = "failed" /\ copying' = NoFile
  /\ pc' = IF Open THEN "loadFailed" ELSE "fail"

\* A load ends with an event of its page, which a window closed meanwhile never sends:
\* then neither action is enabled again, and no timer ends the wait.
LoadFinishes ==
  /\ pc \in Loading /\ Open
  /\ pc' = CASE pc = "loadBegin"    -> "encrypt"
             [] pc = "loadComplete" -> "decrypt"
             [] pc = "loadFailed"   -> "ask"
  /\ UNCHANGED <<stored, copying, handle, cur, flags, windows, attempts, procs, bounds>>

LoadFails ==
  /\ pc \in Loading /\ Open
  /\ \/ pc = "loadComplete" /\ MigrationFails
     \/ pc # "loadComplete" /\ pc' = "fail" /\ UNCHANGED <<marker, copying>>
  /\ UNCHANGED <<creds, dest, handle, cur, flags, windows, attempts, procs, bounds>>

\* Mutant of Encrypted: the store is not asked first.
EncryptedAgain(c) == [k \in Key |-> IF k \in LegacyKey THEN "legacy" ELSE c[k]]

Encrypted(c) ==
  [k \in Key |-> IF k \in LegacyKey /\ c[k] \in {"none", "cleared"} THEN "legacy" ELSE c[k]]

\* Step 1: a key that the store holds is skipped.
EncryptKeys ==
  /\ pc = "encrypt"
  /\ \/ /\ creds # Torn /\ creds' = Encrypted(creds)
        /\ pc' = "copy" /\ UNCHANGED <<marker, copying, fails>>
     \/ /\ creds = Torn /\ MigrationFails /\ UNCHANGED <<creds, fails>>
     \/ /\ fails < MaxFails /\ fails' = fails + 1   \* the storage is unavailable
        /\ MigrationFails /\ UNCHANGED creds
  /\ UNCHANGED <<dest, handle, cur, flags, windows, attempts, procs, launches, kills, edits>>

ToCopy == {f \in File : dest[f] = "none"}

\* Steps 2-5: a file that exists is skipped, whatever it holds.
CopyBegin(f) ==
  /\ pc = "copy" /\ copying = NoFile /\ f \in ToCopy
  /\ copying' = f /\ dest' = [dest EXCEPT ![f] = "partial"]
  /\ UNCHANGED <<creds, marker, pc, handle, cur, flags, windows, attempts, procs, bounds>>

CopyEnd ==
  /\ pc = "copy" /\ copying # NoFile
  /\ copying' = NoFile /\ dest' = [dest EXCEPT ![copying] = "whole"]
  /\ UNCHANGED <<creds, marker, pc, handle, cur, flags, windows, attempts, procs, bounds>>

\* A write fails: copyFile takes its destination away, writeFile does not.
CopyFails ==
  /\ pc = "copy" /\ copying # NoFile /\ fails < MaxFails /\ fails' = fails + 1
  /\ \E left \in {"none", "partial"} : dest' = [dest EXCEPT ![copying] = left]
  /\ MigrationFails
  /\ UNCHANGED <<creds, handle, cur, flags, windows, attempts, procs, launches, kills, edits>>

CopiesDone ==
  /\ pc = "copy" /\ copying = NoFile /\ ToCopy = {} /\ pc' = "mark"
  /\ UNCHANGED <<stored, copying, handle, cur, flags, windows, attempts, procs, bounds>>

\* Step 6.
WriteMarker ==
  /\ pc = "mark" /\ marker' = "complete" /\ pc' = "done"
  /\ UNCHANGED <<creds, dest, copying, handle, cur, flags, windows, attempts, procs, bounds>>

\* The overlay that says so; the catch holds its load, too.
ShowComplete ==
  /\ pc = "done"
  /\ \/ Open /\ pc' = "loadComplete" /\ UNCHANGED <<marker, copying>>
     \/ ~Open /\ MigrationFails
  /\ UNCHANGED <<creds, dest, handle, cur, flags, windows, attempts, procs, bounds>>

\* The person answers the failed overlay: Retry, or closes the window.
RetryMigration ==
  /\ pc = "ask" /\ pc' = "loadBegin" /\ marker' = "in-progress"
  /\ UNCHANGED <<creds, dest, copying, handle, cur, flags, windows, attempts, procs, bounds>>

-----------------------------------------------------------------------------
(* Starting and stopping the sidecar *)

\* decryptAll reads credentials.json and throws when it is torn.
Decrypt ==
  /\ pc = "decrypt" /\ pc' = IF creds = Torn THEN "fail" ELSE "spawn"
  /\ UNCHANGED <<stored, copying, handle, cur, flags, windows, attempts, procs, bounds>>

\* A port is allocated; a reserved one uses up the attempt.
Spawn ==
  /\ pc = "spawn" /\ attempts <= MaxRetries /\ attempts' = attempts + 1
  /\ \/ UNCHANGED <<pc, cur, procs>>
     \/ /\ pc' = "health" /\ cur' = used + 1 /\ used' = used + 1
        /\ proc' = [proc EXCEPT ![used + 1] =
                      [state |-> "booting", sent |-> "none", launch |-> launches]]
  /\ UNCHANGED <<stored, copying, handle, flags, windows, bounds>>

PortsExhausted ==
  /\ pc = "spawn" /\ attempts = MaxRetries + 1 /\ pc' = "fail"
  /\ UNCHANGED <<stored, copying, handle, cur, flags, windows, attempts, procs, bounds>>

\* An exit before health: a collision is tried again on another port.
EarlyExit ==
  /\ pc = "health" /\ proc[cur].state = "exited"
  /\ pc' \in {"spawn", "fail"} /\ cur' = NoChild
  /\ UNCHANGED <<stored, copying, handle, flags, windows, attempts, procs, bounds>>

\* Mutant of HealthTimeout: the child is left as it is.
HealthTimeoutAlone ==
  /\ pc = "health" /\ pc' = "fail" /\ cur' = NoChild
  /\ UNCHANGED <<stored, copying, handle, flags, windows, attempts, procs, bounds>>

\* SIGTERM, and killIfNeeded as the error is caught.
HealthTimeout ==
  /\ pc = "health" /\ pc' = "fail" /\ cur' = NoChild
  /\ proc' = [proc EXCEPT ![cur].sent = "KILL"]
  /\ UNCHANGED <<stored, copying, handle, flags, windows, attempts, used, bounds>>

\* cleanupSidecar: the handle is cleared before the stop is awaited.
StopSidecar(c, phase) ==
  /\ pc' = phase /\ cur' = c /\ handle' = NoChild
  /\ proc' = [proc EXCEPT ![c].sent = IF Lives(c) THEN "TERM" ELSE @]

\* Mutant of HealthOk: a quit during the startup is forgotten.
HealthOkUnasked ==
  /\ pc = "health" /\ proc[cur].state = "healthy"
  /\ pc' = "running" /\ handle' = cur /\ cur' = NoChild /\ flags' = flags \ {"starting"}
  /\ windows' = [loading |-> "none", main |-> "live"]
  /\ UNCHANGED <<stored, copying, attempts, procs, bounds>>

HealthOk ==
  /\ pc = "health" /\ proc[cur].state = "healthy"
  /\ \/ /\ StopSidecar(cur, "stopMismatch") /\ UNCHANGED <<flags, windows>>
     \/ /\ "quitAsked" \in flags
        /\ StopSidecar(cur, "stopStartup")
        /\ flags' = flags \ {"starting"} /\ UNCHANGED windows
     \/ /\ "quitAsked" \notin flags
        /\ pc' = "running" /\ handle' = cur /\ cur' = NoChild
        /\ flags' = flags \ {"starting"}
        /\ windows' = [loading |-> "none", main |-> "live"] /\ UNCHANGED proc
  /\ UNCHANGED <<stored, copying, attempts, used, bounds>>

StopEscalates ==
  /\ pc \in Stopping /\ Lives(cur) /\ proc[cur].sent = "TERM"
  /\ proc' = [proc EXCEPT ![cur].sent = "KILL"]
  /\ UNCHANGED <<stored, copying, pc, handle, cur, flags, windows, attempts, used, bounds>>

StopDone ==
  /\ pc \in Stopping /\ (~Lives(cur) \/ proc[cur].sent = "KILL")
  /\ IF pc = "stopMismatch"
     THEN pc' = "fail" /\ cur' = NoChild /\ UNCHANGED <<copying, handle, flags, windows, attempts>>
     ELSE Ends
  /\ UNCHANGED <<stored, procs, bounds>>

\* The catch of the startup: exit when a quit was asked, else the failure window.
StartupFails ==
  /\ pc = "fail"
  /\ IF "quitAsked" \in flags THEN Ends
     ELSE /\ pc' = "failed" /\ flags' = (flags \ {"starting"}) \cup {"startupError"}
          /\ windows' = [windows EXCEPT !.loading = "failure"]
          /\ UNCHANGED <<copying, handle, cur, attempts>>
  /\ UNCHANGED <<stored, procs, bounds>>

-----------------------------------------------------------------------------
(* The backend processes *)

Boots(c) ==
  /\ proc[c].state = "booting" /\ proc' = [proc EXCEPT ![c].state = "healthy"]
  /\ UNCHANGED <<stored, copying, pc, handle, cur, flags, windows, attempts, used, bounds>>

\* A child ends: by itself, by a signal, or by the end of its lifeline.  In a session
\* main.mjs hears it and covers the main window.
Exits(c) ==
  /\ Lives(c) /\ proc' = [proc EXCEPT ![c].state = "exited"]
  /\ IF c = handle
     THEN /\ handle' = NoChild /\ flags' = flags \cup {"disconnected"}
          /\ windows' = [windows EXCEPT !.main = IF @ = "none" THEN @ ELSE "overlay"]
     ELSE UNCHANGED <<handle, flags, windows>>
  /\ UNCHANGED <<stored, copying, pc, cur, attempts, used, bounds>>

-----------------------------------------------------------------------------
(* The person: quits, windows, keys and files *)

\* before-quit
Quit ==
  /\ pc # "off" /\ "cleaning" \notin flags
  /\ \/ /\ handle # NoChild
        /\ StopSidecar(handle, "stopQuit") /\ flags' = flags \cup {"cleaning"}
        /\ UNCHANGED <<copying, windows, attempts>>
     \/ /\ handle = NoChild /\ "starting" \in flags /\ flags' = flags \cup {"quitAsked"}
        /\ UNCHANGED <<copying, pc, cur, handle, windows, attempts, proc>>
     \/ /\ handle = NoChild /\ "starting" \notin flags
        /\ Ends /\ UNCHANGED proc
  /\ UNCHANGED <<stored, used, bounds>>

CloseWindow(w) ==
  /\ pc # "off" /\ windows[w] # "none"
  /\ windows' = [windows EXCEPT ![w] = "none"]
  /\ pc' = IF pc = "ask" /\ w = "loading" THEN "fail" ELSE pc
  /\ UNCHANGED <<stored, copying, handle, cur, flags, attempts, procs, bounds>>

\* Mutant of WindowAction: a failed startup is not asked about.
WindowActionBefore ==
  CASE "cleaning" \in flags -> "none"
    [] "cleaning" \notin flags /\ windows # NoWindows -> "focus"
    [] "cleaning" \notin flags /\ windows = NoWindows /\ handle # NoChild -> "create-main"
    [] "cleaning" \notin flags /\ windows = NoWindows /\ handle = NoChild
         /\ "disconnected" \in flags -> "create-disconnected"
    [] OTHER -> "none"

\* decideWindowAction of window-recovery.mjs, on the windows that are open.
WindowAction ==
  CASE "cleaning" \in flags -> "none"
    [] "cleaning" \notin flags /\ windows # NoWindows -> "focus"
    [] "cleaning" \notin flags /\ windows = NoWindows /\ handle # NoChild -> "create-main"
    [] "cleaning" \notin flags /\ windows = NoWindows /\ handle = NoChild
         /\ "disconnected" \in flags -> "create-disconnected"
    [] "cleaning" \notin flags /\ windows = NoWindows /\ handle = NoChild
         /\ "disconnected" \notin flags /\ "startupError" \in flags
         /\ "starting" \notin flags -> "create-failure"
    [] OTHER -> "none"

\* activate and second-instance
ShowAppWindow ==
  /\ pc # "off"
  /\ windows' = CASE WindowAction = "create-main"         -> [windows EXCEPT !.main = "live"]
                  [] WindowAction = "create-disconnected" -> [windows EXCEPT !.main = "page"]
                  [] WindowAction = "create-failure"      -> [windows EXCEPT !.loading = "failure"]
                  [] OTHER -> windows
  /\ UNCHANGED <<stored, copying, pc, handle, cur, flags, attempts, procs, bounds>>

Edit(c, m, d) ==
  /\ edits < MaxEdits /\ edits' = edits + 1
  /\ creds' = c /\ marker' = m /\ dest' = d
  /\ UNCHANGED <<copying, pc, handle, cur, flags, windows, attempts, procs, launches, kills, fails>>

InApp == windows.main \in {"live", "overlay"}

SetKey(k)   == InApp /\ creds # Torn /\ Edit([creds EXCEPT ![k] = "new"], marker, dest)
ClearKey(k) == InApp /\ creds # Torn /\ creds[k] \in {"legacy", "new"}
                 /\ Edit([creds EXCEPT ![k] = "cleared"], marker, dest)

\* The backend writes its settings and state files.
WriteFile(f) == handle # NoChild /\ Edit(creds, marker, [dest EXCEPT ![f] = "later"])

\* A re-run is asked: the retry channel in the app, or the "top up" of the README.
AskRerun ==
  \/ InApp /\ Edit(creds, "in-progress", dest)
  \/ pc = "off" /\ marker # "pending" /\ Edit(creds, "pending", dest)

-----------------------------------------------------------------------------
\* What the event loop or a timer of the code brings on: synchronous steps, the exit of a
\* child, the health timeout, and the grace and the kill budget of a stop.
Prompt  == \/ CheckMigration \/ WriteMarker \/ ShowComplete
           \/ PortsExhausted \/ EarlyExit \/ HealthTimeout \/ HealthOk
           \/ StopEscalates \/ StopDone \/ StartupFails
\* What ends a wait that has no timeout: the page, the keychain, the disk, allocatePort.
Answers == \/ LoadFinishes \/ EncryptKeys \/ (\E f \in File : CopyBegin(f)) \/ CopyEnd
           \/ CopiesDone \/ Decrypt \/ Spawn
Person  == \/ Quit \/ (\E w \in {"loading", "main"} : CloseWindow(w)) \/ ShowAppWindow
           \/ RetryMigration \/ AskRerun
           \/ \E k \in Key : SetKey(k) \/ ClearKey(k)

DesktopNext ==
  \/ Launch \/ Kill \/ LoadFails \/ CopyFails \/ Prompt \/ Answers \/ Person
  \/ \E c \in Child : Boots(c) \/ Exits(c)
  \/ \E f \in File : WriteFile(f)

\* Only what the code brings on is fair; no answer is.  A child is ended by SIGKILL, and
\* by the lifeline once its Electron is gone; SIGTERM alone need not end it.
DesktopFairness ==
  /\ WF_desktopVars(Prompt)
  /\ \A c \in Child : WF_desktopVars(Exits(c) /\ (proc[c].sent = "KILL" \/ ~Mine(c)))

DesktopSpec == DesktopInit /\ [][DesktopNext]_desktopVars /\ DesktopFairness

\* The same with every wait answered that still can be.
AnsweredSpec == DesktopSpec /\ WF_desktopVars(Answers)

-----------------------------------------------------------------------------
(* Properties *)

\* While Electron runs, a backend that nobody told to stop is the one whose health the
\* startup awaits or the one the app holds: no other is left behind on its port
\* (before-quit and cleanupSidecar, main.mjs; killIfNeeded, sidecar.mjs).
NoOrphan ==
  \A c \in Child :
    Lives(c) /\ Mine(c) /\ proc[c].sent = "none" => c = handle \/ (pc = "health" /\ c = cur)

\* A main window without a notice has a backend behind it, and once the startup is over
\* a Dock click can always bring a window back (window-recovery.mjs).
WindowsAreHonest ==
  /\ windows.main = "live" => handle # NoChild \/ "cleaning" \in flags
  /\ pc \in {"running", "failed"} => WindowAction # "none"

\* However often the migration runs again, after failures, crashes and re-runs that the
\* person asked for, it never replaces a key or a file written since
\* (runMigration: "Destination files that already exist are NEVER overwritten").
RerunKeepsLater ==
  [][/\ \A f \in File : dest[f] \in {"whole", "later"} => dest'[f] \in {dest[f], "later"}
     /\ (creds # Torn /\ creds' # Torn) =>
          \A k \in Key : creds[k] = "new" => creds'[k] # "legacy"]_desktopVars

QuitAsked == {"quitAsked", "cleaning"} \cap flags # {}
OpenWait  == Loading \cup {"encrypt", "copy", "decrypt", "spawn"}

\* A quit ends the app, or the failed migration asks the person, unless the startup stays
\* for ever in waits that have no timeout (before-quit, main.mjs); and if their answers
\* come, unless the window was closed while an overlay loaded (loadURLAndWait).  No backend
\* of an app that ended lives on: it was stopped, or its lifeline closed.
QuitEnds ==
  /\ QuitAsked ~> (pc \in {"off", "ask"} \/ [](pc \in OpenWait))
  /\ WF_desktopVars(Answers) =>
       (QuitAsked ~> (pc \in {"off", "ask"} \/ [](pc \in Loading /\ ~Open)))
  /\ \A c \in Child : ~Mine(c) ~> ~Lives(c)

\* The comment in before-quit: "prevent immediate exit so the startup promise can clean up
\* the child and quit when it resolves/rejects": with every answer that can come, a quit
\* asked during the startup ends the app, or the failed migration asks the person.
QuitOutlivesStartup ==
  QuitAsked ~> (pc \in {"off", "ask"})

\* The comment in before-quit: "A second Cmd-Q while the sidecar is stopping must not
\* let Electron exit before the stop finishes".
QuitStopsFirst ==
  [][(pc \in Stopping /\ pc' = "off" /\ kills' = kills)
        => (~Lives(cur) \/ proc[cur].sent = "KILL")]_desktopVars

\* runMigration: "Steps (each idempotent - safe to re-run after partial failure)": a
\* migration that says complete has copied its files whole.
CompleteIsWhole ==
  marker = "complete" => \A f \in File : dest[f] # "partial"
=============================================================================

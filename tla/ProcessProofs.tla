---------------------------- MODULE ProcessProofs ----------------------------
(***************************************************************************)
(* Proofs about what starts, stops and must not be left behind: the        *)
(* desktop shell with its backends (Desktop), and a backend with its runs  *)
(* (ExecutionRuns). For every number of keys, files, launches, ports       *)
(* tried, crashes, edits and failed migrations; of backends, runs,         *)
(* records, canvases, faults and restarts.                                 *)
(***************************************************************************)
EXTENDS Desktop, ExecutionRuns, FiniteSetTheorems, TLAPS

-----------------------------------------------------------------------------
(* Types.                                                                  *)

\* A launch tries no more ports than MAX_PORT_RETRIES allows.
Ports == MaxRetries + 1

\* The children that the launches so far may have started.
ChildrenCounted ==
  IF pc = "off" THEN used <= launches * Ports
  ELSE used + Ports <= launches * Ports + attempts

Typed ==
  /\ creds \in [Key -> {"none", "legacy", "new", "cleared", "torn"}]
  /\ marker \in {"pending", "in-progress", "failed", "complete", "torn"}
  /\ dest \in [File -> {"none", "partial", "whole", "later"}]
  /\ copying \in File \cup {NoFile}
  /\ pc \in Phases /\ used \in Nat /\ handle \in 0..used /\ cur \in 0..used
  /\ flags \subseteq FlagNames
  /\ windows \in [loading : {"none", "loading", "failure"},
                  main : {"none", "live", "overlay", "page"}]
  /\ attempts \in 0..Ports
  /\ proc \in [Child -> [state : {"none", "booting", "healthy", "exited"},
                         sent : {"none", "TERM", "KILL"}, launch : 0..MaxLaunches]]
  /\ launches \in 0..MaxLaunches /\ kills \in Nat /\ edits \in Nat /\ fails \in Nat
  /\ ChildrenCounted

\* Before the first launch nothing has been started or written.
LEMMA DesktopInitTyped == DesktopInit => Typed
<1> SUFFICES ASSUME DesktopInit PROVE Typed
  OBVIOUS
<1>1. Ports \in Nat /\ 0 * Ports = 0
  BY DesktopAssumption DEF Ports
<1>2. ChildrenCounted
  BY <1>1 DEF DesktopInit, ChildrenCounted
<1>3. proc \in [Child -> [state : {"none", "booting", "healthy", "exited"},
                         sent : {"none", "TERM", "KILL"}, launch : 0..MaxLaunches]]
  BY DesktopAssumption DEF DesktopInit
<1> QED BY <1>1, <1>2, <1>3, DesktopAssumption DEF DesktopInit, Typed, Phases, Loading, Migrating, Stopping, NoChild, NoWindows

\* Electron takes its memory with it: what it held is empty, what it started is counted.
LEMMA EndsTyped ==
  ASSUME Typed, Ends, used' = used, launches' = launches
  PROVE  /\ pc' \in Phases /\ handle' \in 0..used' /\ cur' \in 0..used' /\ copying' \in File \cup {NoFile}
         /\ flags' \subseteq FlagNames /\ attempts' \in 0..Ports
         /\ windows' \in [loading : {"none", "loading", "failure"},
                          main : {"none", "live", "overlay", "page"}]
         /\ ChildrenCounted'
<1>1. Ports \in Nat /\ launches * Ports \in Nat
  BY DesktopAssumption DEF Ports, Typed
<1>2. used <= launches * Ports
  BY <1>1 DEF Typed, ChildrenCounted
<1>3. ChildrenCounted'
  BY <1>2 DEF Ends, ChildrenCounted
<1> QED BY <1>1, <1>3 DEF Typed, Ends, Phases, NoChild, NoWindows

\* A child that is started is one more, and there is room for it (allocatePort, startSidecar).
LEMMA SpawnRoom ==
  ASSUME Typed, pc = "spawn", attempts <= MaxRetries
  PROVE  used + 1 \in Child
<1>1. /\ Ports \in Nat \ {0} /\ launches \in Nat /\ MaxLaunches \in Nat /\ launches <= MaxLaunches
  BY DesktopAssumption DEF Ports, Typed
<1>2. launches * Ports \in Nat /\ MaxLaunches * Ports \in Nat /\ launches * Ports <= MaxLaunches * Ports
  BY <1>1
<1> DEFINE l == launches * Ports
           m == MaxLaunches * Ports
<1>3. used + Ports <= l + attempts
  BY DEF Typed, ChildrenCounted
<1>4. Child = 1..m
  BY DEF Child, Ports
<1>5. l \in Nat /\ m \in Nat /\ l <= m
  BY <1>2
<1> HIDE DEF l, m
<1> QED BY <1>1, <1>3, <1>4, <1>5, DesktopAssumption DEF Typed, Ports

\* A child that is signalled stays a child.
LEMMA SentTyped ==
  ASSUME Typed, NEW c, NEW x \in {"none", "TERM", "KILL"}
  PROVE  [proc EXCEPT ![c].sent = x] \in
           [Child -> [state : {"none", "booting", "healthy", "exited"},
                      sent : {"none", "TERM", "KILL"}, launch : 0..MaxLaunches]]
  BY DEF Typed

\* So does a child that is told to stop, or is found stopped (cleanupSidecar).
LEMMA StopSidecarTyped ==
  ASSUME Typed, NEW c \in Nat, NEW phase, StopSidecar(c, phase)
  PROVE  proc' \in [Child -> [state : {"none", "booting", "healthy", "exited"},
                            sent : {"none", "TERM", "KILL"}, launch : 0..MaxLaunches]]
<1>1. CASE c \in Child
  <2>1. proc[c].sent \in {"none", "TERM", "KILL"}
    BY <1>1 DEF Typed
  <2>2. PICK x \in {"none", "TERM", "KILL"} : proc' = [proc EXCEPT ![c].sent = x]
    BY <2>1 DEF StopSidecar
  <2> QED BY <2>2, SentTyped
<1>2. CASE c \notin Child
  BY <1>2 DEF StopSidecar, Typed
<1> QED BY <1>1, <1>2

\* Every step keeps the types.
LEMMA DesktopStepTyped == Typed /\ [DesktopNext]_desktopVars => Typed'
<1> SUFFICES ASSUME Typed, [DesktopNext]_desktopVars PROVE Typed'
  OBVIOUS
<1>p. Ports \in Nat
  BY DesktopAssumption DEF Ports
<1> USE DesktopAssumption, <1>p DEF Typed, ChildrenCounted, Phases, Loading, Migrating, Stopping, FlagNames, NoChild
<1>1. CASE UNCHANGED desktopVars
  BY <1>1 DEF desktopVars, stored, procs, bounds
<1>2. ASSUME Launch PROVE Typed'
  BY <1>2 DEF Launch, NoWindows, stored, procs, bounds
<1>3. ASSUME Kill PROVE Typed'
  <2>1. creds' \in [Key -> {"none", "legacy", "new", "cleared", "torn"}]
        /\ marker' \in {"pending", "in-progress", "failed", "complete", "torn"}
    BY <1>3 DEF Kill, Torn
  <2> QED BY <1>3, <2>1, EndsTyped DEF Kill, procs
<1>4. ASSUME CheckMigration PROVE Typed'
  BY <1>4 DEF CheckMigration, stored, procs, bounds
<1>5. ASSUME EncryptKeys PROVE Typed'
  BY <1>5 DEF EncryptKeys, MigrationFails, Encrypted, stored, procs, bounds
<1>6. ASSUME NEW f \in File, CopyBegin(f) PROVE Typed'
  BY <1>6 DEF CopyBegin, ToCopy, stored, procs, bounds
<1>7. ASSUME CopyEnd PROVE Typed'
  BY <1>7 DEF CopyEnd, stored, procs, bounds
<1>8. ASSUME CopyFails PROVE Typed'
  BY <1>8 DEF CopyFails, MigrationFails, stored, procs, bounds
<1>9. ASSUME CopiesDone PROVE Typed'
  BY <1>9 DEF CopiesDone, stored, procs, bounds
<1>10. ASSUME WriteMarker PROVE Typed'
  BY <1>10 DEF WriteMarker, stored, procs, bounds
<1>11. ASSUME ShowComplete PROVE Typed'
  BY <1>11 DEF ShowComplete, MigrationFails, stored, procs, bounds
<1>12. ASSUME Decrypt PROVE Typed'
  BY <1>12 DEF Decrypt, stored, procs, bounds
<1>13. ASSUME Spawn PROVE Typed'
  <2>1. CASE UNCHANGED <<pc, cur, procs>>
    BY <1>13, <2>1 DEF Spawn, stored, procs, bounds, Ports
  <2>2. CASE ~UNCHANGED <<pc, cur, procs>>
    <3>1. used + 1 \in Child /\ attempts' = attempts + 1 /\ pc = "spawn" /\ pc' = "health"
      BY <1>13, <2>2, SpawnRoom DEF Spawn
    <3>2. ChildrenCounted'
      <4>1. used' = used + 1 /\ launches' = launches
        BY <1>13, <2>2 DEF Spawn, bounds
      <4>2. launches * Ports \in Nat
        OBVIOUS
      <4> QED BY <3>1, <4>1, <4>2
    <3>3. proc' \in [Child -> [state : {"none", "booting", "healthy", "exited"},
                              sent : {"none", "TERM", "KILL"}, launch : 0..MaxLaunches]]
      BY <1>13, <2>2 DEF Spawn
    <3> QED BY <1>13, <2>2, <3>1, <3>2, <3>3 DEF Spawn, stored, bounds, Ports
  <2> QED BY <2>1, <2>2
<1>14. ASSUME PortsExhausted PROVE Typed'
  BY <1>14 DEF PortsExhausted, stored, procs, bounds
<1>15. ASSUME EarlyExit PROVE Typed'
  BY <1>15 DEF EarlyExit, stored, procs, bounds
<1>16. ASSUME HealthTimeout PROVE Typed'
  <2>1. proc' \in [Child -> [state : {"none", "booting", "healthy", "exited"},
                            sent : {"none", "TERM", "KILL"}, launch : 0..MaxLaunches]]
    BY <1>16, SentTyped DEF HealthTimeout
  <2> QED BY <1>16, <2>1 DEF HealthTimeout, stored, bounds
<1>17. ASSUME HealthOk PROVE Typed'
  <2>1. proc' \in [Child -> [state : {"none", "booting", "healthy", "exited"},
                            sent : {"none", "TERM", "KILL"}, launch : 0..MaxLaunches]]
    BY <1>17, StopSidecarTyped DEF HealthOk
  <2> QED BY <1>17, <2>1 DEF HealthOk, StopSidecar, stored, bounds
<1>18. ASSUME StopEscalates PROVE Typed'
  BY <1>18, SentTyped DEF StopEscalates, stored, bounds
<1>19. ASSUME StopDone PROVE Typed'
  <2>1. CASE pc = "stopMismatch"
    <3>1. /\ pc' = "fail" /\ cur' = NoChild
          /\ UNCHANGED <<copying, handle, flags, windows, attempts, stored, procs, bounds>>
      BY <1>19, <2>1 DEF StopDone
    <3> QED BY <2>1, <3>1 DEF stored, procs, bounds
  <2>2. CASE pc # "stopMismatch"
    BY <1>19, <2>2, EndsTyped DEF StopDone, stored, procs, bounds
  <2> QED BY <2>1, <2>2
<1>20. ASSUME StartupFails PROVE Typed'
  <2>1. CASE "quitAsked" \in flags
    BY <1>20, <2>1, EndsTyped DEF StartupFails, stored, procs, bounds
  <2>2. CASE "quitAsked" \notin flags
    BY <1>20, <2>2 DEF StartupFails, stored, procs, bounds
  <2> QED BY <2>1, <2>2
<1>21. ASSUME Quit PROVE Typed'
  <2>1. CASE handle # NoChild
    <3>1. StopSidecar(handle, "stopQuit") /\ flags' = flags \cup {"cleaning"}
          /\ UNCHANGED <<copying, windows, attempts, stored, used, bounds>>
      BY <1>21, <2>1 DEF Quit
    <3>2. proc' \in [Child -> [state : {"none", "booting", "healthy", "exited"},
                              sent : {"none", "TERM", "KILL"}, launch : 0..MaxLaunches]]
      BY <3>1, StopSidecarTyped
    <3>3. pc # "off"
      BY <1>21 DEF Quit
    <3> QED BY <3>1, <3>2, <3>3 DEF StopSidecar, stored, bounds
  <2>2. CASE handle = NoChild /\ "starting" \in flags
    BY <1>21, <2>2 DEF Quit, stored, bounds
  <2>3. CASE handle = NoChild /\ "starting" \notin flags
    BY <1>21, <2>3, EndsTyped DEF Quit, stored, bounds
  <2> QED BY <2>1, <2>2, <2>3
<1>22. ASSUME NEW w \in {"loading", "main"}, CloseWindow(w) PROVE Typed'
  BY <1>22 DEF CloseWindow, stored, procs, bounds
<1>23. ASSUME ShowAppWindow PROVE Typed'
  BY <1>23 DEF ShowAppWindow, WindowAction, stored, procs, bounds
<1>24. ASSUME RetryMigration PROVE Typed'
  BY <1>24 DEF RetryMigration, stored, procs, bounds
<1>25. ASSUME AskRerun PROVE Typed'
  <2>1. /\ creds' = creds /\ dest' = dest /\ marker' \in {"pending", "in-progress"} /\ edits' = edits + 1
        /\ UNCHANGED <<copying, pc, handle, cur, flags, windows, attempts, procs, launches, kills, fails>>
    BY <1>25 DEF AskRerun, Edit
  <2> QED BY <2>1 DEF procs
<1>26. ASSUME NEW k \in Key, SetKey(k) PROVE Typed'
  BY <1>26 DEF SetKey, Edit, stored, procs, bounds
<1>27. ASSUME NEW k \in Key, ClearKey(k) PROVE Typed'
  BY <1>27 DEF ClearKey, Edit, stored, procs, bounds
<1>28. ASSUME NEW c \in Child, Boots(c) PROVE Typed'
  BY <1>28 DEF Boots, stored, procs, bounds
<1>29. ASSUME NEW c \in Child, Exits(c) PROVE Typed'
  <2>1. proc' \in [Child -> [state : {"none", "booting", "healthy", "exited"},
                            sent : {"none", "TERM", "KILL"}, launch : 0..MaxLaunches]]
    BY <1>29 DEF Exits
  <2>2. CASE c = handle
    BY <1>29, <2>1, <2>2 DEF Exits, stored, bounds
  <2>3. CASE c # handle
    BY <1>29, <2>1, <2>3 DEF Exits, stored, bounds
  <2> QED BY <2>2, <2>3
<1>30. ASSUME NEW f \in File, WriteFile(f) PROVE Typed'
  BY <1>30 DEF WriteFile, Edit, stored, procs, bounds
<1>31. ASSUME LoadFinishes PROVE Typed'
  BY <1>31 DEF LoadFinishes, Loading, stored, procs, bounds
<1>32. ASSUME LoadFails PROVE Typed'
  BY <1>32 DEF LoadFails, MigrationFails, Loading, stored, procs, bounds
<1> QED BY <1>1, <1>2, <1>3, <1>4, <1>5, <1>6, <1>7, <1>8, <1>9, <1>10, <1>11, <1>12, <1>13, <1>14, <1>15, <1>16, <1>17, <1>18, <1>19, <1>20, <1>21, <1>22, <1>23, <1>24, <1>25, <1>26, <1>27, <1>28, <1>29, <1>30, <1>31, <1>32 DEF DesktopNext, Prompt, Answers, Person

\* The children fit into the ports of the launches (MAX_PORT_RETRIES).
LEMMA TypedIsTypeOK == Typed => DesktopTypeOK
<1> SUFFICES ASSUME Typed PROVE DesktopTypeOK
  OBVIOUS
<1> DEFINE l == launches * Ports
           m == MaxLaunches * Ports
<1>1. /\ Ports \in Nat \ {0} /\ launches \in Nat /\ MaxLaunches \in Nat /\ launches <= MaxLaunches
      /\ attempts \in 0..Ports /\ used \in Nat
  BY DesktopAssumption DEF Ports, Typed
<1>2. l \in Nat /\ m \in Nat /\ l <= m
  BY <1>1
<1>3. Child = 1..m
  BY DEF Child, Ports
<1>4. used <= l \/ used + Ports <= l + attempts
  BY DEF Typed, ChildrenCounted
<1> HIDE DEF l, m
<1>5. used <= m
  BY <1>1, <1>2, <1>4
<1>6. Cardinality(Child) = m
  BY <1>2, <1>3, FS_Interval
<1>7. 0..used \subseteq Child \cup {NoChild}
  BY <1>1, <1>2, <1>3, <1>5 DEF NoChild
<1> QED BY <1>1, <1>2, <1>5, <1>6, <1>7 DEF Typed, DesktopTypeOK, Ports

\* Every part of the shell and of the data root holds only values of its kind.
THEOREM DesktopTypeCorrect == DesktopSpec => []DesktopTypeOK
  BY DesktopInitTyped, DesktopStepTyped, TypedIsTypeOK, PTL DEF DesktopSpec

-----------------------------------------------------------------------------
(* The inductive invariant of the shell.                                   *)

\* The handle is set in a session only, and cleared before a stop is awaited.
HandleRuns == handle # NoChild => pc = "running"

\* Cleaning is the stop of a quit, once it has begun.
CleaningStops == "cleaning" \in flags => pc = "stopQuit"

\* A session without a backend has noticed, and a failed startup is over and noted.
EndIsNoted ==
  /\ pc = "running" => handle # NoChild \/ "disconnected" \in flags
  /\ pc = "failed" => "startupError" \in flags /\ "starting" \notin flags

\* The health that is awaited is a child's.
AwaitedIsChild == pc = "health" => cur # NoChild

\* What is being copied is not whole yet, and nothing else writes it.
CopyIsPartial == copying # NoFile => pc = "copy" /\ dest[copying] = "partial"

\* No child is of a later launch, and none is alive before it is made.
ChildrenAreMade ==
  \A c \in Child : proc[c].launch <= launches /\ (c > used => proc[c].state = "none")

\* A window that claims a backend has one, or is about to go with it.
LiveHasBackend == windows.main = "live" => handle # NoChild \/ "cleaning" \in flags

ShellInv ==
  /\ Typed /\ HandleRuns /\ CleaningStops /\ EndIsNoted /\ AwaitedIsChild
  /\ CopyIsPartial /\ ChildrenAreMade /\ LiveHasBackend /\ NoOrphan

\* Before the first launch there is no child, no window and no copy.
LEMMA InitShellInv == DesktopInit => ShellInv
  BY DesktopInitTyped, DesktopAssumption
     DEF DesktopInit, ShellInv, HandleRuns, CleaningStops, EndIsNoted, AwaitedIsChild, CopyIsPartial, ChildrenAreMade,
         LiveHasBackend, NoOrphan, Lives, Mine, NoWindows

\* Every step keeps the invariant of the shell.
LEMMA StepShellInv == ShellInv /\ [DesktopNext]_desktopVars => ShellInv'
<1> SUFFICES ASSUME ShellInv, [DesktopNext]_desktopVars PROVE ShellInv'
  OBVIOUS
<1>t. Typed /\ Typed'
  BY DesktopStepTyped DEF ShellInv
<1> USE DesktopAssumption, <1>t DEF ShellInv, HandleRuns, CleaningStops, EndIsNoted, AwaitedIsChild, CopyIsPartial,
        ChildrenAreMade, LiveHasBackend, NoOrphan, Lives, Mine, NoChild
<1>1. CASE UNCHANGED desktopVars
  BY <1>1 DEF desktopVars, stored, procs, bounds
<1>2. ASSUME Launch PROVE ShellInv'
  BY <1>2 DEF Typed, Launch, NoWindows, stored, procs, bounds
<1>3. ASSUME Kill PROVE ShellInv'
  BY <1>3 DEF Typed, Kill, Ends, NoWindows, Torn, stored, procs, bounds
<1>4. ASSUME CheckMigration PROVE ShellInv'
  BY <1>4 DEF Typed, CheckMigration, stored, procs, bounds
<1>5. ASSUME EncryptKeys PROVE ShellInv'
  BY <1>5 DEF Typed, EncryptKeys, MigrationFails, Encrypted, stored, procs, bounds
<1>6. ASSUME NEW f \in File, CopyBegin(f) PROVE ShellInv'
  BY <1>6 DEF Typed, CopyBegin, ToCopy, stored, procs, bounds
<1>7. ASSUME CopyEnd PROVE ShellInv'
  BY <1>7 DEF Typed, CopyEnd, stored, procs, bounds
<1>8. ASSUME CopyFails PROVE ShellInv'
  BY <1>8 DEF Typed, CopyFails, MigrationFails, stored, procs, bounds
<1>9. ASSUME CopiesDone PROVE ShellInv'
  BY <1>9 DEF Typed, CopiesDone, stored, procs, bounds
<1>10. ASSUME WriteMarker PROVE ShellInv'
  BY <1>10 DEF Typed, WriteMarker, stored, procs, bounds
<1>11. ASSUME ShowComplete PROVE ShellInv'
  BY <1>11 DEF Typed, ShowComplete, MigrationFails, stored, procs, bounds
<1>12. ASSUME Decrypt PROVE ShellInv'
  BY <1>12 DEF Typed, Decrypt, stored, procs, bounds
<1>13. ASSUME Spawn PROVE ShellInv'
  <2>1. CASE UNCHANGED <<pc, cur, procs>>
    BY <1>13, <2>1 DEF Typed, Spawn, stored, procs, bounds
  <2>2. CASE ~UNCHANGED <<pc, cur, procs>>
    <3>1. /\ pc = "spawn" /\ pc' = "health" /\ cur' = used + 1 /\ used' = used + 1
          /\ proc' = [proc EXCEPT ![used + 1] =
                        [state |-> "booting", sent |-> "none", launch |-> launches]]
          /\ UNCHANGED <<stored, copying, handle, flags, windows, bounds>>
      BY <1>13, <2>2 DEF Spawn
    <3>2. used \in Nat
      BY DEF Typed
    <3>3. \A c \in Child : IF c = used + 1
                            THEN proc'[c].state = "booting" /\ proc'[c].launch = launches
                            ELSE proc'[c] = proc[c]
      BY <3>1 DEF Typed
    <3>4. launches' = launches /\ launches \in Nat /\ \A c \in Child : c \in Nat
      BY <3>1 DEF bounds, Typed, Child
    <3>5. ChildrenAreMade'
      BY <3>1, <3>2, <3>3, <3>4
    <3>6. NoOrphan'
      BY <3>1, <3>2, <3>3, <3>4
    <3> QED BY <3>1, <3>2, <3>5, <3>6 DEF Typed, stored
  <2> QED BY <2>1, <2>2
<1>14. ASSUME PortsExhausted PROVE ShellInv'
  BY <1>14 DEF Typed, PortsExhausted, stored, procs, bounds
<1>15. ASSUME EarlyExit PROVE ShellInv'
  BY <1>15 DEF Typed, EarlyExit, stored, procs, bounds
<1>16. ASSUME HealthTimeout PROVE ShellInv'
  BY <1>16 DEF Typed, HealthTimeout, stored, procs, bounds
<1>17. ASSUME HealthOk PROVE ShellInv'
  <2>1. /\ pc = "health" /\ cur # NoChild /\ handle = NoChild /\ windows.main # "live"
        /\ UNCHANGED <<stored, copying, attempts, used, bounds>>
    BY <1>17 DEF HealthOk
  <2>2. CASE UNCHANGED proc /\ pc' = "running"
    <3>1. /\ handle' = cur /\ flags' = flags \ {"starting"}
          /\ windows' = [loading |-> "none", main |-> "live"]
      BY <1>17, <2>2 DEF HealthOk, StopSidecar
    <3>2. NoOrphan' /\ ChildrenAreMade'
      <4>1. launches' = launches /\ used' = used /\ \A c \in Child : c # 0
        BY <2>1 DEF bounds, Child
      <4> QED BY <2>1, <2>2, <3>1, <4>1
    <3> QED BY <2>1, <2>2, <3>1, <3>2 DEF stored
  <2>3. ASSUME NEW phase \in Stopping, StopSidecar(cur, phase), flags' \subseteq flags, UNCHANGED windows
        PROVE  ShellInv'
    <3>1. /\ pc' = phase /\ cur' = cur /\ handle' = NoChild /\ phase \notin {"running", "failed", "health", "off"}
          /\ \A c \in Child : /\ proc'[c].state = proc[c].state /\ proc'[c].launch = proc[c].launch
                              /\ c = cur /\ Lives(c) => proc'[c].sent = "TERM"
                              /\ c # cur => proc'[c].sent = proc[c].sent
      BY <2>1, <2>3 DEF StopSidecar, Typed, Stopping
    <3>2. launches' = launches /\ used' = used /\ \A c \in Child : c # 0
      BY <2>1 DEF bounds, Child
    <3>3. ASSUME NEW c \in Child
          PROVE  /\ proc'[c].launch <= launches' /\ (c > used' => proc'[c].state = "none")
                 /\ Lives(c)' /\ Mine(c)' /\ proc'[c].sent = "none" => c = handle'
      <4>1. proc'[c].state = proc[c].state /\ proc'[c].launch = proc[c].launch
        BY <3>1
      <4>2. ~(Lives(c)' /\ Mine(c)' /\ proc'[c].sent = "none")
        <5>1. CASE c = cur
          BY <3>1, <4>1, <5>1
        <5>2. CASE c # cur
          BY <2>1, <3>1, <3>2, <4>1, <5>2
        <5> QED BY <5>1, <5>2
      <4>3. proc[c].launch <= launches /\ (c > used => proc[c].state = "none")
        OBVIOUS
      <4> QED BY <3>2, <4>1, <4>2, <4>3
    <3>4. NoOrphan' /\ ChildrenAreMade'
      BY <3>3
    <3> QED BY <2>1, <2>3, <3>1, <3>4 DEF stored
  <2> QED BY <1>17, <2>2, <2>3 DEF HealthOk, Stopping
<1>18. ASSUME StopEscalates PROVE ShellInv'
  BY <1>18 DEF Typed, StopEscalates, stored, procs, bounds
<1>19. ASSUME StopDone PROVE ShellInv'
  BY <1>19 DEF Typed, StopDone, Ends, NoWindows, stored, procs, bounds
<1>20. ASSUME StartupFails PROVE ShellInv'
  BY <1>20 DEF Typed, StartupFails, Ends, NoWindows, stored, procs, bounds
<1>21. ASSUME Quit PROVE ShellInv'
  BY <1>21 DEF Typed, Quit, Ends, NoWindows, StopSidecar, stored, procs, bounds
<1>22. ASSUME NEW w \in {"loading", "main"}, CloseWindow(w) PROVE ShellInv'
  BY <1>22 DEF Typed, CloseWindow, stored, procs, bounds
<1>23. ASSUME ShowAppWindow PROVE ShellInv'
  BY <1>23 DEF Typed, ShowAppWindow, WindowAction, stored, procs, bounds
<1>24. ASSUME RetryMigration PROVE ShellInv'
  BY <1>24 DEF Typed, RetryMigration, stored, procs, bounds
<1>25. ASSUME AskRerun PROVE ShellInv'
  BY <1>25 DEF Typed, AskRerun, Edit, stored, procs, bounds
<1>26. ASSUME NEW k \in Key, SetKey(k) PROVE ShellInv'
  BY <1>26 DEF Typed, SetKey, Edit, stored, procs, bounds
<1>27. ASSUME NEW k \in Key, ClearKey(k) PROVE ShellInv'
  BY <1>27 DEF Typed, ClearKey, Edit, stored, procs, bounds
<1>28. ASSUME NEW c \in Child, Boots(c) PROVE ShellInv'
  BY <1>28 DEF Typed, Boots, stored, procs, bounds
<1>29. ASSUME NEW c \in Child, Exits(c) PROVE ShellInv'
  BY <1>29 DEF Typed, Exits, stored, procs, bounds
<1>30. ASSUME NEW f \in File, WriteFile(f) PROVE ShellInv'
  BY <1>30 DEF Typed, WriteFile, Edit, stored, procs, bounds
<1>31. ASSUME LoadFinishes PROVE ShellInv'
  BY <1>31 DEF Typed, LoadFinishes, Loading, stored, procs, bounds
<1>32. ASSUME LoadFails PROVE ShellInv'
  BY <1>32 DEF Typed, LoadFails, MigrationFails, Loading, stored, procs, bounds
<1> QED BY <1>1, <1>2, <1>3, <1>4, <1>5, <1>6, <1>7, <1>8, <1>9, <1>10, <1>11, <1>12, <1>13, <1>14, <1>15, <1>16, <1>17, <1>18, <1>19, <1>20, <1>21, <1>22, <1>23, <1>24, <1>25, <1>26, <1>27, <1>28, <1>29, <1>30, <1>31, <1>32 DEF DesktopNext, Prompt, Answers, Person

\* The shell keeps its invariant (main.mjs with sidecar.mjs and migration.mjs).
THEOREM ShellInvAlways == DesktopSpec => []ShellInv
  BY InitShellInv, StepShellInv, PTL DEF DesktopSpec

-----------------------------------------------------------------------------
(* What the shell promises.                                                *)

\* While the app runs, every live backend that nobody told to stop is awaited or held (before-quit, cleanupSidecar).
THEOREM NoOrphanAlways == DesktopSpec => []NoOrphan
<1>1. ShellInv => NoOrphan
  BY DEF ShellInv
<1> QED BY ShellInvAlways, <1>1, PTL

\* A main window without a notice has its backend, and a Dock click always answers (decideWindowAction).
THEOREM WindowsAreHonestAlways == DesktopSpec => []WindowsAreHonest
<1>1. ShellInv => WindowsAreHonest
  BY DEF ShellInv, WindowsAreHonest, LiveHasBackend, CleaningStops, EndIsNoted, WindowAction
<1> QED BY ShellInvAlways, <1>1, PTL

-----------------------------------------------------------------------------
(* What no step does.                                                      *)

\* What was copied whole or written since stays (runMigration: "NEVER overwritten").
FilesStay == \A f \in File : dest[f] \in {"whole", "later"} => dest'[f] \in {dest[f], "later"}

\* A key that the person set does not become the repository's again (encryptKeys).
KeysStay == (creds # Torn /\ creds' # Torn) => \A k \in Key : creds[k] = "new" => creds'[k] # "legacy"

\* Only the migration and the backend write files, and neither undoes what is there.
LEMMA StepKeepsFiles == ShellInv /\ [DesktopNext]_desktopVars => FilesStay
<1> SUFFICES ASSUME ShellInv, [DesktopNext]_desktopVars PROVE FilesStay
  OBVIOUS
<1>f. CopyIsPartial /\ dest \in [File -> {"none", "partial", "whole", "later"}]
      /\ copying \in File \cup {NoFile}
  BY DEF ShellInv, Typed
<1>1. CASE UNCHANGED dest
  BY <1>1, <1>f DEF FilesStay
<1>2. ASSUME NEW f \in File, CopyBegin(f) PROVE FilesStay
  BY <1>2, <1>f, DesktopAssumption DEF FilesStay, CopyBegin, ToCopy, CopyIsPartial
<1>3. ASSUME CopyEnd PROVE FilesStay
  BY <1>3, <1>f, DesktopAssumption DEF FilesStay, CopyEnd, CopyIsPartial
<1>4. ASSUME CopyFails PROVE FilesStay
  BY <1>4, <1>f, DesktopAssumption DEF FilesStay, CopyFails, MigrationFails, CopyIsPartial
<1>5. ASSUME NEW f \in File, WriteFile(f) PROVE FilesStay
  BY <1>5, <1>f, DesktopAssumption DEF FilesStay, WriteFile, Edit, CopyIsPartial
<1>6. CASE UNCHANGED desktopVars
  BY <1>6, <1>1 DEF desktopVars, stored
<1>7. ASSUME Launch \/ Kill \/ CheckMigration \/ EncryptKeys \/ CopiesDone \/ WriteMarker \/ ShowComplete \/ Decrypt \/ Spawn \/ PortsExhausted
          \/ LoadFinishes \/ LoadFails
      PROVE  FilesStay
  BY <1>7, <1>1 DEF Launch, Kill, CheckMigration, EncryptKeys, CopiesDone, WriteMarker, ShowComplete, Decrypt, Spawn, PortsExhausted,
                   LoadFinishes, LoadFails, MigrationFails, stored, Edit
<1>8. ASSUME EarlyExit \/ HealthTimeout \/ HealthOk \/ StopEscalates \/ StopDone \/ StartupFails \/ Quit \/ ShowAppWindow \/ RetryMigration \/ AskRerun
      PROVE  FilesStay
  BY <1>8, <1>1 DEF EarlyExit, HealthTimeout, HealthOk, StopEscalates, StopDone, StartupFails, Quit, ShowAppWindow, RetryMigration, AskRerun, stored, Edit
<1>9. ASSUME NEW w \in {"loading", "main"}, CloseWindow(w) PROVE FilesStay
  BY <1>9, <1>1 DEF CloseWindow, stored, Edit
<1>10. ASSUME NEW k \in Key, SetKey(k) PROVE FilesStay
  BY <1>10, <1>1 DEF SetKey, stored, Edit
<1>11. ASSUME NEW k \in Key, ClearKey(k) PROVE FilesStay
  BY <1>11, <1>1 DEF ClearKey, stored, Edit
<1>12. ASSUME NEW c \in Child, Boots(c) PROVE FilesStay
  BY <1>12, <1>1 DEF Boots, stored, Edit
<1>13. ASSUME NEW c \in Child, Exits(c) PROVE FilesStay
  BY <1>13, <1>1 DEF Exits, stored, Edit
<1> QED BY <1>1, <1>2, <1>3, <1>4, <1>5, <1>6, <1>7, <1>8, <1>9, <1>10, <1>11, <1>12, <1>13 DEF DesktopNext, Prompt, Answers, Person

\* Only the migration writes keys on its own, and it skips what the store holds.
LEMMA StepKeepsKeys == ShellInv /\ [DesktopNext]_desktopVars => KeysStay
<1> SUFFICES ASSUME ShellInv, [DesktopNext]_desktopVars PROVE KeysStay
  OBVIOUS
<1>1. CASE UNCHANGED creds
  BY <1>1 DEF KeysStay
<1>2. ASSUME Kill PROVE KeysStay
  BY <1>2 DEF KeysStay, Kill, Torn
<1>3. ASSUME EncryptKeys PROVE KeysStay
  BY <1>3 DEF KeysStay, EncryptKeys, MigrationFails, Encrypted
<1>4. ASSUME NEW k \in Key, SetKey(k) PROVE KeysStay
  BY <1>4 DEF KeysStay, SetKey, Edit
<1>5. ASSUME NEW k \in Key, ClearKey(k) PROVE KeysStay
  BY <1>5 DEF KeysStay, ClearKey, Edit
<1>6. CASE UNCHANGED desktopVars
  BY <1>6, <1>1 DEF desktopVars, stored
<1>7. ASSUME Launch \/ CheckMigration \/ CopyEnd \/ CopyFails \/ CopiesDone \/ WriteMarker \/ ShowComplete \/ Decrypt \/ Spawn \/ PortsExhausted
          \/ LoadFinishes \/ LoadFails
      PROVE  KeysStay
  BY <1>7, <1>1 DEF Launch, CheckMigration, CopyEnd, CopyFails, CopiesDone, WriteMarker, ShowComplete, Decrypt, Spawn, PortsExhausted,
                   LoadFinishes, LoadFails, MigrationFails, stored, Edit
<1>8. ASSUME EarlyExit \/ HealthTimeout \/ HealthOk \/ StopEscalates \/ StopDone \/ StartupFails \/ Quit \/ ShowAppWindow \/ RetryMigration \/ AskRerun
      PROVE  KeysStay
  BY <1>8, <1>1 DEF EarlyExit, HealthTimeout, HealthOk, StopEscalates, StopDone, StartupFails, Quit, ShowAppWindow, RetryMigration, AskRerun, stored, Edit
<1>9. ASSUME NEW f \in File, CopyBegin(f) PROVE KeysStay
  BY <1>9, <1>1 DEF CopyBegin, stored, Edit
<1>10. ASSUME NEW w \in {"loading", "main"}, CloseWindow(w) PROVE KeysStay
  BY <1>10, <1>1 DEF CloseWindow, stored, Edit
<1>11. ASSUME NEW c \in Child, Boots(c) PROVE KeysStay
  BY <1>11, <1>1 DEF Boots, stored, Edit
<1>12. ASSUME NEW c \in Child, Exits(c) PROVE KeysStay
  BY <1>12, <1>1 DEF Exits, stored, Edit
<1>13. ASSUME NEW f \in File, WriteFile(f) PROVE KeysStay
  BY <1>13, <1>1 DEF WriteFile, stored, Edit
<1> QED BY <1>1, <1>2, <1>3, <1>4, <1>5, <1>6, <1>7, <1>8, <1>9, <1>10, <1>11, <1>12, <1>13 DEF DesktopNext, Prompt, Answers, Person

\* However often the migration runs again, it replaces no file and no key written since (runMigration).
THEOREM RerunKeepsLaterAlways == DesktopSpec => RerunKeepsLater
<1>1. ShellInv /\ [DesktopNext]_desktopVars =>
        [/\ \A f \in File : dest[f] \in {"whole", "later"} => dest'[f] \in {dest[f], "later"}
         /\ (creds # Torn /\ creds' # Torn) =>
              \A k \in Key : creds[k] = "new" => creds'[k] # "legacy"]_desktopVars
  BY StepKeepsFiles, StepKeepsKeys DEF FilesStay, KeysStay
<1> QED BY ShellInvAlways, <1>1, PTL DEF DesktopSpec, RerunKeepsLater

USE PaidAssumption, LeaseAssumption, BoundAssumption

-----------------------------------------------------------------------------
(* Types.                                                                  *)

\* The sets of run ids that each process keeps, one by one.
LEMMA SetsTyped ==
  TypeOK <=> /\ stops \subseteq Run /\ filter \subseteq Run /\ sick \subseteq Proc
             /\ lease \in (Proc \X Run) \cup {NoLease}
             /\ canvas \in [Proc -> Nat] /\ on \in [Proc -> [Run -> Nat]]
             /\ status \in [Proc -> [Run -> Active \cup Terminal \cup {"none"}]]
             /\ task \in [Proc -> [Run -> Alive \cup Done \cup {"none"}]]
             /\ admitting \in [Proc -> SUBSET Run] /\ again \in [Proc -> SUBSET Run]
             /\ resent \in [Proc -> SUBSET Run] /\ seen \in [Proc -> SUBSET Run]
             /\ errors \in [Proc -> SUBSET Run] /\ settling \in [Proc -> SUBSET Run]
             /\ exact \in [Proc -> SUBSET Run] /\ tombs \in [Proc -> SUBSET Run]
             /\ early \in [Proc -> SUBSET Run]
             /\ promised \subseteq Run
             /\ faults \in Nat /\ restarts \in Nat
  BY DEF TypeOK

\* The registry starts empty (ExecutionRunRegistry.__init__).
LEMMA InitTyped == Init => TypeOK
  BY SetsTyped DEF Init, Nobody

\* The status of a run after CancelTask, and its task (ExecutionRunRegistry.cancel).
LEMMA CancelTaskFacts ==
  ASSUME TypeOK, NEW p \in Proc, NEW r \in Run, CancelTask(p, r)
  PROVE  /\ status' \in [Proc -> [Run -> Active \cup Terminal \cup {"none"}]]
         /\ task' \in [Proc -> [Run -> Alive \cup Done \cup {"none"}]]
         /\ \A q \in Proc, i \in Run :
              /\ status'[q][i] # status[q][i] => status[q][i] \in Active /\ status'[q][i] = "cancelling"
              /\ task'[q][i] \in Alive <=> task[q][i] \in Alive
              /\ task'[q][i] \in Done <=> task[q][i] \in Done
              /\ task'[q][i] = "new" => task[q][i] = "new"
              /\ task'[q][i] = "none" <=> task[q][i] = "none"
              /\ status'[q][i] \in Active <=> status[q][i] \in Active
              /\ status'[q][i] = "none" <=> status[q][i] = "none"
<1>1. CASE status[p][r] \notin Active
  BY <1>1 DEF CancelTask, TypeOK
<1>2. CASE status[p][r] \in Active
  <2>1. /\ status' = [status EXCEPT ![p] = [@ EXCEPT ![r] = "cancelling"]]
        /\ task' = [task EXCEPT ![p] = [@ EXCEPT ![r] = Cut(task[p][r])]]
    BY <1>2 DEF CancelTask, TypeOK
  <2>2. /\ Cut(task[p][r]) \in Alive \cup Done \cup {"none"}
        /\ Cut(task[p][r]) \in Alive <=> task[p][r] \in Alive
        /\ Cut(task[p][r]) \in Done <=> task[p][r] \in Done
        /\ Cut(task[p][r]) # "new"
        /\ Cut(task[p][r]) = "none" <=> task[p][r] = "none"
    BY DEF TypeOK, Cut, Alive, Done
  <2> QED BY <1>2, <2>1, <2>2 DEF TypeOK, Active
<1> QED BY <1>1, <1>2

\* What a compaction leaves (compact of ProviderStartGuard, compact_cancel_intent).
LEMMA CompactedFacts ==
  ASSUME TypeOK, NEW p \in Proc, NEW S \in SUBSET Run, Compacted(p, S)
  PROVE  /\ stops' \subseteq Run /\ filter' \subseteq Run /\ exact' \in [Proc -> SUBSET Run]
         /\ stops' \cup filter' = stops \cup filter
  BY DEF TypeOK, Compacted

\* What grows old is dropped and nothing else (_expire_tombstones, start_seen).
LEMMA ExpireFacts ==
  ASSUME TypeOK, NEW p \in Proc, NEW r \in Run, Expire(p, r)
  PROVE  /\ tombs' \in [Proc -> SUBSET Run] /\ seen' \in [Proc -> SUBSET Run]
         /\ early' \in [Proc -> SUBSET Run]
         /\ \A q \in Proc : early'[q] \subseteq early[q]
<1>1. /\ tombs \in [Proc -> SUBSET Run] /\ seen \in [Proc -> SUBSET Run]
      /\ early \in [Proc -> SUBSET Run]
  BY SetsTyped
<1>2. \/ tombs' = [tombs EXCEPT ![p] = @ \ {r}] /\ UNCHANGED <<seen, early>>
      \/ early' = [early EXCEPT ![p] = @ \ {r}] /\ UNCHANGED <<seen, tombs>>
      \/ seen' = [seen EXCEPT ![p] = @ \ {r}] /\ UNCHANGED <<tombs, early>>
  BY DEF Expire
<1> QED BY <1>1, <1>2

\* Every step keeps the types.
LEMMA StepTyped == TypeOK /\ [Next]_vars => TypeOK'
<1> SUFFICES ASSUME TypeOK, [Next]_vars PROVE TypeOK'
  OBVIOUS
<1>1. CASE UNCHANGED vars
  BY <1>1 DEF TypeOK, vars, memory
<1>2. ASSUME NEW p \in Proc, ReplaceCanvas(p) PROVE TypeOK'
  BY <1>2 DEF TypeOK, ReplaceCanvas
<1>3. ASSUME NEW p \in Proc, Restart(p) PROVE TypeOK'
  BY <1>3 DEF TypeOK, Restart
<1>4. ASSUME NEW p \in Proc, Unreadable(p) PROVE TypeOK'
  BY <1>4 DEF TypeOK, Unreadable, Broken, memory
<1>5. ASSUME NEW p \in Proc, NEW r \in Run, Begin(p, r) PROVE TypeOK'
  BY <1>5 DEF TypeOK, Begin
<1>6. ASSUME NEW p \in Proc, NEW r \in Run, BeginAgain(p, r) PROVE TypeOK'
  BY <1>6 DEF TypeOK, BeginAgain
<1>7. ASSUME NEW p \in Proc, NEW r \in Run, Refuse(p, r) PROVE TypeOK'
  BY <1>7 DEF TypeOK, Refuse
<1>8. ASSUME NEW p \in Proc, NEW r \in Run, RefuseAgain(p, r) PROVE TypeOK'
  BY <1>8 DEF TypeOK, RefuseAgain, Healthy, Broken
<1>9. ASSUME NEW p \in Proc, NEW r \in Run, Register(p, r) PROVE TypeOK'
  BY <1>9 DEF TypeOK, Register, Active, Alive
<1>10. ASSUME NEW p \in Proc, NEW r \in Run, Turn(p, r) PROVE TypeOK'
  BY <1>10 DEF TypeOK, Turn, TaskStep, Alive
<1>11. ASSUME NEW p \in Proc, NEW r \in Run, NodeError(p, r) PROVE TypeOK'
  BY <1>11 DEF TypeOK, NodeError
<1>12. ASSUME NEW p \in Proc, NEW r \in Run, End(p, r) PROVE TypeOK'
  <2>1. PICK to \in Done : task' = [task EXCEPT ![p][r] = to]
    BY <1>12 DEF End, TaskStep, Done
  <2>2. /\ sick' \subseteq Proc /\ lease' \in (Proc \X Run) \cup {NoLease} /\ faults' \in Nat
    BY <1>12 DEF TypeOK, End, Healthy, Broken
  <2> QED BY <1>12, <2>1, <2>2 DEF TypeOK, End
<1>13. ASSUME NEW p \in Proc, NEW r \in Run, Finish(p, r) PROVE TypeOK'
  BY <1>13 DEF TypeOK, Finish, Terminal
<1>14. ASSUME NEW p \in Proc, NEW r \in Run, Settle(p, r) PROVE TypeOK'
  BY <1>14 DEF TypeOK, Settle, Settled, Released, Compacted, Healthy, Broken
<1>15. ASSUME NEW p \in Proc, NEW r \in Run, Stop(p, r) PROVE TypeOK'
  <2>1. CancelTask(p, r)
    BY <1>15 DEF Stop
  <2>2. /\ stops' \subseteq Run /\ filter' \subseteq Run /\ promised' \subseteq Run /\ faults' \in Nat
    BY <1>15 DEF TypeOK, Stop
  <2>3. /\ early' \in [Proc -> SUBSET Run] /\ tombs' \in [Proc -> SUBSET Run]
    BY <1>15 DEF TypeOK, Stop
  <2>4. \E S \in SUBSET Run : exact' = [exact EXCEPT ![p] = S]
    BY <1>15 DEF TypeOK, Stop
  <2> QED BY <1>15, <2>1, <2>2, <2>3, <2>4, CancelTaskFacts DEF TypeOK, Stop
<1>16. ASSUME NEW p \in Proc, NEW r \in Run, StopUnsaved(p, r) PROVE TypeOK'
  BY <1>16, CancelTaskFacts DEF TypeOK, StopUnsaved, Broken
<1>17. ASSUME NEW p \in Proc, NEW r \in Run, CompactByHand(p, r) PROVE TypeOK'
  BY <1>17 DEF TypeOK, CompactByHand, Compacted, Healthy
<1>18. ASSUME NEW p \in Proc, NEW r \in Run, Watch(p, r) PROVE TypeOK'
  BY <1>18, CancelTaskFacts DEF TypeOK, Watch
<1>19. ASSUME NEW p \in Proc, NEW r \in Run, Expire(p, r) PROVE TypeOK'
  <2>1. UNCHANGED <<again, resent, stops, filter, sick, lease, canvas, admitting, on, status, errors, task,
                   settling, exact, promised, faults, restarts>>
    BY <1>19 DEF Expire
  <2>2. /\ tombs' \in [Proc -> SUBSET Run] /\ seen' \in [Proc -> SUBSET Run]
        /\ early' \in [Proc -> SUBSET Run]
    BY <1>19, ExpireFacts
  <2> QED BY <2>1, <2>2 DEF TypeOK
<1> QED BY <1>1, <1>2, <1>3, <1>4, <1>5, <1>6, <1>7, <1>8, <1>9, <1>10, <1>11, <1>12, <1>13, <1>14,
           <1>15, <1>16, <1>17, <1>18, <1>19 DEF Next

\* Every process, the shared journal and the lease hold only values of their kind.
THEOREM TypeCorrect == Spec => []TypeOK
  BY InitTyped, StepTyped, PTL DEF Spec

-----------------------------------------------------------------------------
(* The inductive invariant of the registry.                                *)

\* A start that is being admitted has no record yet (execute, register).
AdmittedAreNew == \A p \in Proc : \A r \in admitting[p] : status[p][r] = "none"

\* An id that comes back while its earlier run has yet to settle is known to be resent.
ResentAreKnown ==
  \A p \in Proc :
    /\ again[p] \subseteq resent[p]
    /\ admitting[p] \cap settling[p] \subseteq resent[p]
    /\ \A r \in settling[p] : task[p][r] # "none" => r \in resent[p]

\* The shared journal denies every run whose Stop was answered or noted early.
StopsAreDenied ==
  /\ promised \subseteq stops \cup filter
  /\ \A p \in Proc : early[p] \subseteq stops \cup filter

RunInv ==
  /\ TypeOK /\ AdmittedAreNew /\ TasksAreRecorded /\ RunsOnItsCanvas
  /\ ResentAreKnown /\ OnceSentKeepsLease /\ LeaseHasItsRun
  /\ StopsAreDenied /\ EarlyNeverRan

\* The registry, the journal and the lifecycle start empty.
LEMMA InitRunInv == Init => RunInv
  BY InitTyped DEF Init, Nobody, RunInv, AdmittedAreNew, TasksAreRecorded, RunsOnItsCanvas, ResentAreKnown,
     OnceSentKeepsLease, LeaseHasItsRun, Held, StopsAreDenied, EarlyNeverRan, Alive, Done

\* A cancel that the registry takes leaves every lease, canvas and admission as they were.
LEMMA CancelKeeps ==
  ASSUME RunInv, NEW p \in Proc, NEW r \in Run, CancelTask(p, r),
         UNCHANGED <<again, resent, lease, canvas, on, admitting, settling>>
  PROVE  /\ AdmittedAreNew' /\ TasksAreRecorded' /\ RunsOnItsCanvas'
         /\ ResentAreKnown' /\ OnceSentKeepsLease' /\ LeaseHasItsRun'
<1> USE CancelTaskFacts DEF RunInv, TypeOK
<1>1. AdmittedAreNew'
  BY DEF AdmittedAreNew
<1>2. TasksAreRecorded'
  BY DEF TasksAreRecorded
<1>3. RunsOnItsCanvas'
  BY DEF RunsOnItsCanvas
<1>4. ResentAreKnown'
  BY DEF ResentAreKnown
<1>5. OnceSentKeepsLease'
  BY DEF OnceSentKeepsLease
<1>6. LeaseHasItsRun'
  BY DEF LeaseHasItsRun, Held
<1> QED BY <1>1, <1>2, <1>3, <1>4, <1>5, <1>6

\* Every step keeps the invariant of the registry.
LEMMA StepRunInv == RunInv /\ [Next]_vars => RunInv'
<1> SUFFICES ASSUME RunInv, [Next]_vars PROVE RunInv'
  OBVIOUS
<1>t. TypeOK /\ TypeOK'
  BY StepTyped DEF RunInv
<1>l. \A q \in Proc, i \in Run : lease = <<q, i>> => status[q][i] \in Active \/ i \in settling[q]
  BY DEF RunInv, LeaseHasItsRun, Held
<1> USE DEF RunInv, AdmittedAreNew, TasksAreRecorded, RunsOnItsCanvas, ResentAreKnown,
            OnceSentKeepsLease, LeaseHasItsRun, Held, StopsAreDenied, EarlyNeverRan
<1>1. CASE UNCHANGED vars
  BY <1>1, <1>t DEF vars, memory
<1>2. ASSUME NEW p \in Proc, ReplaceCanvas(p) PROVE RunInv'
  BY <1>2, <1>t DEF TypeOK, ReplaceCanvas, Quiet, Alive, Done, Active, Terminal
<1>3. ASSUME NEW p \in Proc, Restart(p) PROVE RunInv'
  BY <1>3, <1>t DEF TypeOK, Restart, Alive, Done, Active, Terminal
<1>4. ASSUME NEW p \in Proc, Unreadable(p) PROVE RunInv'
  BY <1>4, <1>t DEF TypeOK, Unreadable, memory, Alive, Done, Active, Terminal
<1>5. ASSUME NEW p \in Proc, NEW r \in Run, Begin(p, r) PROVE RunInv'
  BY <1>5, <1>t DEF TypeOK, Begin, Alive, Done, Active, Terminal
<1>6. ASSUME NEW p \in Proc, NEW r \in Run, BeginAgain(p, r) PROVE RunInv'
  BY <1>6, <1>t DEF TypeOK, BeginAgain, Alive, Done, Active, Terminal
<1>7. ASSUME NEW p \in Proc, NEW r \in Run, Refuse(p, r) PROVE RunInv'
  BY <1>7, <1>t DEF TypeOK, Refuse, Alive, Done, Active, Terminal
<1>8. ASSUME NEW p \in Proc, NEW r \in Run, RefuseAgain(p, r) PROVE RunInv'
  BY <1>8, <1>t DEF TypeOK, RefuseAgain, Alive, Done, Active, Terminal
<1>9. ASSUME NEW p \in Proc, NEW r \in Run, Register(p, r) PROVE RunInv'
  <2>1. /\ r \in admitting[p] /\ on[p][r] = canvas[p] /\ ~Denied(r) /\ status[p][r] = "none"
        /\ r \in Paid => lease = NoLease
        /\ lease' = IF r \in Paid THEN <<p, r>> ELSE lease
        /\ task' = [task EXCEPT ![p][r] = "new"]
        /\ admitting' = [admitting EXCEPT ![p] = @ \ {r}]
        /\ UNCHANGED <<again, resent, stops, filter, canvas, on, settling, early, promised>>
    BY <1>9 DEF Register, Unmoved, Admissible, Unclaimed
  <2>2. \A q \in Proc, i \in Run :
          IF q = p /\ i = r THEN status'[q][i] = "running"
          ELSE status'[q][i] = status[q][i] \/ (status[q][i] \in Terminal /\ status'[q][i] = "none")
    BY <1>9 DEF Register, Pruned, TypeOK
  <2>3. \A i \in Run : status[p][i] \in Terminal => status[p][i] \notin Active
    BY DEF Active, Terminal
  <2> USE <1>t, <2>1, <2>2 DEF TypeOK
  <2>4. AdmittedAreNew'
    OBVIOUS
  <2>5. TasksAreRecorded'
    <3>1. \A q \in Proc, i \in Run : q # p \/ i # r => task'[q][i] = task[q][i]
      OBVIOUS
    <3>2. "running" \in Active /\ Active \cap Terminal = {}
      BY DEF Active, Terminal
    <3> QED BY <3>1, <3>2
  <2>6. RunsOnItsCanvas'
    BY DEF Alive
  <2>7. ResentAreKnown'
    OBVIOUS
  <2>8. OnceSentKeepsLease'
    BY DEF Alive
  <2>9. LeaseHasItsRun'
    <3>1. "running" \in Active /\ Active \cap Terminal = {}
      BY DEF Active, Terminal
    <3>2. ASSUME NEW q \in Proc, NEW i \in Run, lease' = <<q, i>>
          PROVE  status'[q][i] \in Active \/ i \in settling'[q]
      <4>1. CASE q = p /\ i = r
        BY <3>1, <4>1
      <4>2. CASE ~(q = p /\ i = r)
        <5>1. lease = <<q, i>>
          BY <3>2, <4>2
        <5>2. status[q][i] \in Active \/ i \in settling[q]
          BY <1>l, <5>1
        <5>3. status'[q][i] = status[q][i] \/ (status[q][i] \in Terminal /\ status'[q][i] = "none")
          BY <4>2
        <5> QED BY <3>1, <5>2, <5>3
      <4> QED BY <4>1, <4>2
    <3> QED BY <3>2
  <2>10. StopsAreDenied'
    OBVIOUS
  <2>11. EarlyNeverRan'
    <3>1. r \notin early[p]
      BY DEF Denied
    <3>2. ASSUME NEW q \in Proc, NEW i \in Run, i \in early[q] PROVE status'[q][i] = "none"
      <4>1. status[q][i] = "none" /\ ~(q = p /\ i = r)
        BY <3>1, <3>2
      <4> QED BY <4>1
    <3> QED BY <3>2
  <2> QED BY <2>4, <2>5, <2>6, <2>7, <2>8, <2>9, <2>10, <2>11
<1>10. ASSUME NEW p \in Proc, NEW r \in Run, Turn(p, r) PROVE RunInv'
  BY <1>10, <1>t DEF TypeOK, Turn, TaskStep, Alive, Done, Active, Terminal
<1>11. ASSUME NEW p \in Proc, NEW r \in Run, NodeError(p, r) PROVE RunInv'
  BY <1>11, <1>t DEF TypeOK, NodeError, Alive, Done, Active, Terminal
<1>12. ASSUME NEW p \in Proc, NEW r \in Run, End(p, r) PROVE RunInv'
  <2>1. PICK to \in Done : task' = [task EXCEPT ![p][r] = to]
    BY <1>12 DEF End, TaskStep, Done
  <2>2. task[p][r] \in Alive
    BY <1>12 DEF End, TaskStep, Alive
  <2>3. lease' = lease \/ (lease = <<p, r>> /\ lease' = NoLease)
    BY <1>12 DEF End
  <2> USE <1>12, <1>t, <2>1, <2>2, <2>3 DEF End, TypeOK, Alive, Done
  <2>4. OnceSentKeepsLease'
    OBVIOUS
  <2>5. LeaseHasItsRun'
    OBVIOUS
  <2>6. TasksAreRecorded' /\ RunsOnItsCanvas'
    OBVIOUS
  <2>7. ResentAreKnown' /\ AdmittedAreNew'
    OBVIOUS
  <2> QED BY <2>4, <2>5, <2>6, <2>7
<1>13. ASSUME NEW p \in Proc, NEW r \in Run, Finish(p, r) PROVE RunInv'
  BY <1>13, <1>t DEF TypeOK, Finish, Alive, Done, Active, Terminal
<1>14. ASSUME NEW p \in Proc, NEW r \in Run, Settle(p, r) PROVE RunInv'
  BY <1>14, <1>t DEF TypeOK, Settle, Settled, Released, Compacted, Alive, Done, Active, Terminal
<1>15. ASSUME NEW p \in Proc, NEW r \in Run, Stop(p, r) PROVE RunInv'
  <2>1. CancelTask(p, r)
    BY <1>15 DEF Stop
  <2>2. stops' \cup filter' = stops \cup filter \cup {r}
    BY <1>15 DEF Stop, Denied
  <2>3. promised' \subseteq promised \cup {r}
    BY <1>15 DEF Stop
  <2>4. \A q \in Proc : \A i \in early'[q] : i \in early[q] \/ (q = p /\ i = r /\ status[p][r] = "none")
    BY <1>15 DEF Stop, TypeOK
  <2>5. StopsAreDenied'
    BY <1>t, <2>2, <2>3, <2>4 DEF TypeOK
  <2>6. EarlyNeverRan'
    BY <1>t, <2>1, <2>4, CancelTaskFacts DEF TypeOK
  <2> QED BY <1>15, <1>t, <2>1, <2>5, <2>6, CancelKeeps DEF Stop
<1>16. ASSUME NEW p \in Proc, NEW r \in Run, StopUnsaved(p, r) PROVE RunInv'
  <2>1. CancelTask(p, r)
    BY <1>16 DEF StopUnsaved
  <2> QED BY <1>16, <1>t, <2>1, CancelKeeps, CancelTaskFacts DEF StopUnsaved, TypeOK
<1>17. ASSUME NEW p \in Proc, NEW r \in Run, CompactByHand(p, r) PROVE RunInv'
  BY <1>17, <1>t DEF TypeOK, CompactByHand, Compacted, Alive, Done, Active, Terminal
<1>18. ASSUME NEW p \in Proc, NEW r \in Run, Watch(p, r) PROVE RunInv'
  <2>1. CancelTask(p, r)
    BY <1>18 DEF Watch
  <2> QED BY <1>18, <1>t, <2>1, CancelKeeps, CancelTaskFacts DEF Watch, TypeOK
<1>19. ASSUME NEW p \in Proc, NEW r \in Run, Expire(p, r) PROVE RunInv'
  <2>1. \A q \in Proc : early'[q] \subseteq early[q]
    BY <1>19, <1>t, ExpireFacts
  <2> QED BY <1>19, <1>t, <2>1 DEF TypeOK, Expire
<1> QED BY <1>1, <1>2, <1>3, <1>4, <1>5, <1>6, <1>7, <1>8, <1>9, <1>10, <1>11, <1>12, <1>13, <1>14, <1>15, <1>16, <1>17, <1>18, <1>19 DEF Next

\* The registry keeps its invariant (ExecutionRunRegistry with the routes that drive it).
THEOREM RunInvAlways == Spec => []RunInv
  BY InitRunInv, StepRunInv, PTL DEF Spec

-----------------------------------------------------------------------------
(* What the registry promises.                                             *)

\* A registered run works on the canvas it was asked on until its task ends (_refuse_if_graph_moved, has_active).
THEOREM RunsOnItsCanvasAlways == Spec => []RunsOnItsCanvas
<1>1. RunInv => RunsOnItsCanvas
  BY DEF RunInv
<1> QED BY RunInvAlways, <1>1, PTL

\* The paid lifecycle belongs to the task of an id sent once until it is over (claim and the finally of execute).
THEOREM OnceSentKeepsLeaseAlways == Spec => []OnceSentKeepsLease
<1>1. RunInv => OnceSentKeepsLease
  BY DEF RunInv
<1> QED BY RunInvAlways, <1>1, PTL

\* Two paid ids that were sent once have no live tasks at the same time, on any backends.
OnePaidTask ==
  \A p, q \in Proc, r, i \in Paid :
    /\ task[p][r] \in Alive /\ r \notin resent[p]
    /\ task[q][i] \in Alive /\ i \notin resent[q]
    => p = q /\ r = i

\* The paid lifecycle admits one task at a time (ProviderStartGuard.claim as execute uses it).
THEOREM OnePaidTaskAlways == Spec => []OnePaidTask
<1>1. OnceSentKeepsLease => OnePaidTask
  BY DEF OnceSentKeepsLease, OnePaidTask
<1> QED BY OnceSentKeepsLeaseAlways, <1>1, PTL

\* A held lifecycle is the one of a run that is going or is yet to settle (settle_and_publish).
THEOREM LeaseHasItsRunAlways == Spec => []LeaseHasItsRun
<1>1. RunInv => LeaseHasItsRun
  BY DEF RunInv
<1> QED BY RunInvAlways, <1>1, PTL

\* A live task keeps an active record, whatever is pruned (_prune).
THEOREM TasksAreRecordedAlways == Spec => []TasksAreRecorded
<1>1. RunInv => TasksAreRecorded
  BY DEF RunInv
<1> QED BY RunInvAlways, <1>1, PTL

\* Only a run that never had a record here is said to be cancelled before it started (stopped_before_start).
THEOREM EarlyNeverRanAlways == Spec => []EarlyNeverRan
<1>1. RunInv => EarlyNeverRan
  BY DEF RunInv
<1> QED BY RunInvAlways, <1>1, PTL

-----------------------------------------------------------------------------
(* What no step does.                                                      *)

\* A task appears in Register alone, for a run that nobody denies (_assert_execution_admissible).
LEMMA NewTaskIsAdmitted ==
  ASSUME RunInv, [Next]_vars, NEW q \in Proc, NEW i \in Run, task[q][i] = "none", task'[q][i] = "new"
  PROVE  ~Denied(i)
<1> USE DEF RunInv, TypeOK
<1>1. CASE UNCHANGED vars
  BY <1>1 DEF vars, memory
<1>2. ASSUME NEW p \in Proc, ReplaceCanvas(p) \/ Unreadable(p) \/ Restart(p) PROVE ~Denied(i)
  BY <1>2 DEF ReplaceCanvas, Unreadable, Restart, memory
<1>3. ASSUME NEW p \in Proc, NEW r \in Run, Register(p, r) PROVE ~Denied(i)
  BY <1>3 DEF Register, Admissible
<1>4. ASSUME NEW p \in Proc, NEW r \in Run,
             Begin(p, r) \/ BeginAgain(p, r) \/ Refuse(p, r) \/ RefuseAgain(p, r) \/ NodeError(p, r)
             \/ Settle(p, r) \/ CompactByHand(p, r) \/ Expire(p, r)
      PROVE  ~Denied(i)
  BY <1>4 DEF Begin, BeginAgain, Refuse, RefuseAgain, NodeError, Settle, CompactByHand, Expire
<1>5. ASSUME NEW p \in Proc, NEW r \in Run, Turn(p, r) \/ End(p, r) \/ Finish(p, r) PROVE ~Denied(i)
  <2>1. PICK to \in Done \cup {"live", "none"} : task' = [task EXCEPT ![p][r] = to]
    BY <1>5 DEF Turn, End, Finish, TaskStep, Done
  <2>2. task'[q][i] \in {task[q][i], to}
    BY <2>1
  <2>3. FALSE
    BY <2>2 DEF Done
  <2> QED BY <2>3
<1>6. ASSUME NEW p \in Proc, NEW r \in Run, Stop(p, r) \/ StopUnsaved(p, r) \/ Watch(p, r) PROVE ~Denied(i)
  BY <1>6, CancelTaskFacts DEF Stop, StopUnsaved, Watch
<1> QED BY <1>1, <1>2, <1>3, <1>4, <1>5, <1>6 DEF Next

\* A run whose Stop was answered never starts, on any backend (cancel_execution, _assert_execution_admissible).
THEOREM StopHoldsAlways == Spec => StopHolds
<1>1. RunInv /\ [Next]_vars =>
        [\A p \in Proc, r \in Run : task[p][r] = "none" /\ task'[p][r] = "new" => r \notin promised]_vars
  BY NewTaskIsAdmitted DEF RunInv, StopsAreDenied, Denied
<1> QED BY RunInvAlways, <1>1, PTL DEF Spec, StopHolds

\* The status of a record is final once it is terminal (_finish, cancel).
THEOREM TerminalIsFinalAlways == Spec => TerminalIsFinal
<1>1. ASSUME RunInv, [Next]_vars, NEW q \in Proc, NEW i \in Run, status[q][i] \in Terminal
      PROVE  status'[q][i] \in {status[q][i], "none"}
  <2> USE <1>1 DEF RunInv, TypeOK
  <2>a. status[q][i] \notin Active /\ status[q][i] # "none"
    BY DEF Terminal, Active
  <2>1. CASE UNCHANGED vars
    BY <2>1 DEF vars, memory
  <2>2. ASSUME NEW p \in Proc, ReplaceCanvas(p) \/ Unreadable(p) \/ Restart(p)
        PROVE  status'[q][i] \in {status[q][i], "none"}
    BY <2>2 DEF ReplaceCanvas, Unreadable, Restart, memory
  <2>3. ASSUME NEW p \in Proc, NEW r \in Run, Register(p, r)
        PROVE  status'[q][i] \in {status[q][i], "none"}
    BY <2>3, <2>a DEF Register
  <2>4. ASSUME NEW p \in Proc, NEW r \in Run,
               Begin(p, r) \/ BeginAgain(p, r) \/ Refuse(p, r) \/ RefuseAgain(p, r) \/ NodeError(p, r)
               \/ Settle(p, r) \/ CompactByHand(p, r) \/ Expire(p, r) \/ Turn(p, r) \/ End(p, r)
        PROVE  status'[q][i] \in {status[q][i], "none"}
    BY <2>4 DEF Begin, BeginAgain, Refuse, RefuseAgain, NodeError, Settle, CompactByHand, Expire, Turn, End
  <2>5. ASSUME NEW p \in Proc, NEW r \in Run, Finish(p, r)
        PROVE  status'[q][i] \in {status[q][i], "none"}
    BY <2>5, <2>a DEF Finish, TasksAreRecorded
  <2>6. ASSUME NEW p \in Proc, NEW r \in Run, Stop(p, r) \/ StopUnsaved(p, r) \/ Watch(p, r)
        PROVE  status'[q][i] \in {status[q][i], "none"}
    BY <2>6, <2>a, CancelTaskFacts DEF Stop, StopUnsaved, Watch
  <2> QED BY <2>1, <2>2, <2>3, <2>4, <2>5, <2>6 DEF Next
<1>2. RunInv /\ [Next]_vars =>
        [\A p \in Proc, r \in Run : status[p][r] \in Terminal => status'[p][r] \in {status[p][r], "none"}]_vars
  BY <1>1
<1> QED BY RunInvAlways, <1>2, PTL DEF Spec, TerminalIsFinal
=============================================================================

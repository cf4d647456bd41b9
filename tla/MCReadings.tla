----------------------------- MODULE MCReadings ------------------------------
(***************************************************************************)
(* How the agent comes by what it shows, checked side by side: counters    *)
(* and their rates, what a snapshot is made of, the list of drives and     *)
(* their capacity, the process table, the processor's sensors and the      *)
(* token counts.  One part runs in each behaviour and the others stay as   *)
(* they are.                                                               *)
(***************************************************************************)
EXTENDS CounterRates, TLC

CONSTANTS
  MaxFailed,                                                   \* SnapshotFields
  CacheTTL, RetryAfter, StaleGrace, DiscoveryWait, ListTime,   \* StorageRefresh
  Pids, MaxAncestry, MaxForks,                                 \* ProcessView
  Rows, TopN, HardCap,                                         \* TopRows
  Slots, Volumes, MaxChanges,                                  \* WindowsDrives
  Drives, Parts, Sizes, MaxMounts, MaxFailing,                 \* LinuxDrives
  Degrees, Clocks, MinClock, MaxClock, Seed,                   \* CpuSensors
  Files, Days, MaxDay, MaxTokens, MaxRecords                   \* TokenCounts

VARIABLES
  part,  \* the part that runs
  os, working, shown, ended,                                    \* SnapshotFields
  sNow, cache, refresh, lane, answer,                           \* StorageRefresh
  windows, proc, forks, build, view,                            \* ProcessView
  value, sent,                                                  \* TopRows
  drive, on, changes, reads, lastRead, discovery, rows, asked,  \* WindowsDrives
  hardware, holds, size, table, failing,                        \* LinuxDrives
  celsius, picked, clocks, ceiling, seen,                       \* CpuSensors
  codex, today, records, open, touched, restarted, used, chart  \* TokenCounts

rateVars == vars
fieldVars == <<os, working, shown, ended>>
listVars == <<sNow, cache, refresh, lane, answer>>
processVars == <<windows, proc, forks, build, view>>
tableVars == <<value, sent>>
windowsVars == <<drive, on, changes, reads, lastRead, discovery, rows, asked>>
linuxVars == <<hardware, holds, size, table, failing>>
sensorVars == <<celsius, picked, clocks, ceiling, seen>>
tokenVars == <<codex, today, records, open, touched, restarted, used, chart>>
diskVars == <<listVars, windowsVars, linuxVars>>
otherVars == <<fieldVars, sensorVars, tokenVars>>
rowVars == <<processVars, tableVars>>
hostVars == <<part, rateVars, diskVars, otherVars, rowVars>>

Snapshot == INSTANCE SnapshotFields
List == INSTANCE StorageRefresh WITH MaxTime <- ListTime, now <- sNow, told <- answer
View == INSTANCE ProcessView WITH pass <- build
Table == INSTANCE TopRows
Windows == INSTANCE WindowsDrives WITH last <- lastRead, pass <- discovery, sent <- asked
Linux == INSTANCE LinuxDrives WITH on <- holds
Sensed == INSTANCE CpuSensors
Tokens == INSTANCE TokenCounts WITH log <- records

ASSUME RatesAssumed == RatesAssumption
ASSUME ListAssumed == List!StorageAssumption
ASSUME ViewAssumed == View!ProcessViewAssumption /\ Table!TopRowsAssumption
ASSUME DrivesAssumed == Windows!WindowsDrivesAssumption /\ Linux!LinuxDrivesAssumption
ASSUME SensorsAssumed == Sensed!CpuAssumption
ASSUME TokensAssumed == Tokens!TokenAssumption

-----------------------------------------------------------------------------
\* The parts that do not run start in one state.
HostInit ==
  /\ part \in {"rates", "snapshot", "list", "processes", "table", "windows",
               "linux", "sensors", "tokens"}
  /\ Init /\ (part = "rates" \/ kind = "drives")
  /\ Snapshot!Init /\ (part = "snapshot" \/ os = "linux")
  /\ List!Init
  /\ View!Init /\ (part = "processes" \/ (windows /\ proc[3].name = "bash" /\ proc[4].name = "bash"))
  /\ Sensed!Init
  /\ Tokens!Init /\ (part = "tokens" \/ codex)
  /\ IF part = "table" THEN Table!Init ELSE value = <<>> /\ sent = {}
  /\ Windows!Init
  /\ \/ part = "windows"
     \/ /\ \A s \in DOMAIN drive : ~drive[s].present
        /\ \A v \in DOMAIN on : on[v] = {}
  /\ Linux!Init
  /\ \/ part = "linux"
     \/ /\ \A d \in DOMAIN hardware :
             hardware[d] = [attached |-> "direct", sensor |-> TRUE, excluded |-> FALSE]
        /\ \A p \in DOMAIN holds : holds[p] = "mapped"

HostNext ==
  \/ part = "rates" /\ Next /\ UNCHANGED <<part, diskVars, otherVars, rowVars>>
  \/ part = "snapshot" /\ Snapshot!Next
     /\ UNCHANGED <<part, rateVars, sensorVars, tokenVars, diskVars, rowVars>>
  \/ part = "list" /\ List!Next
     /\ UNCHANGED <<part, rateVars, windowsVars, linuxVars, otherVars, rowVars>>
  \/ part = "processes" /\ View!Next
     /\ UNCHANGED <<part, rateVars, diskVars, otherVars, tableVars>>
  \/ part = "table" /\ Table!Next
     /\ UNCHANGED <<part, rateVars, diskVars, otherVars, processVars>>
  \/ part = "windows" /\ Windows!Next
     /\ UNCHANGED <<part, rateVars, listVars, linuxVars, otherVars, rowVars>>
  \/ part = "linux" /\ Linux!Next
     /\ UNCHANGED <<part, rateVars, listVars, windowsVars, otherVars, rowVars>>
  \/ part = "sensors" /\ Sensed!Next
     /\ UNCHANGED <<part, rateVars, fieldVars, tokenVars, diskVars, rowVars>>
  \/ part = "tokens" /\ Tokens!Next
     /\ UNCHANGED <<part, rateVars, fieldVars, sensorVars, diskVars, rowVars>>

HostSpec == HostInit /\ [][HostNext]_hostVars

Symmetry == Permutations(Passes)

-----------------------------------------------------------------------------
(* NeverOverstated is CounterRates', read here by its name; the others are  *)
(* those of the modules, with their types.                                   *)

\* What is not there says why, outlives no pass that panicked and takes no agent
\* out of service that has processor and memory (collector_linux.go,
\* collector_windows.go, selfcheck.go).
SnapshotHonest ==
  part = "snapshot" => /\ Snapshot!TypeOK /\ Snapshot!NoSilentGap
                       /\ Snapshot!NoReadingOutlivesItsPass /\ Snapshot!ReadyOnceMeasured

\* The drive panel is blank, or shows drives that may be gone, no longer than the
\* grace period (collector_windows_storage.go).
DriveListHonest == List!DriveListHonest

\* The process table files a process only where it belongs, counts no other as the
\* agent's, and shows the busiest ones (process_tree.go, agent_cost.go, processes.go).
ProcessesFiledRight ==
  /\ part = "processes" => View!FiledUnderAncestor /\ View!NoShellTakesTheBlame
  /\ part = "table" => Table!CPULeadersSent

\* A device that hangs costs no drive its row, a file system counts once in its
\* drive's capacity, and only what is broken is an issue
\* (collector_windows_storage.go, collector_linux.go, storage_notes.go).
DrivesCountedOnce ==
  /\ part = "windows" => Windows!SilentDriveStaysListed
  /\ part = "linux" => Linux!CapacityCountedOnce /\ Linux!OnlyFaultsAreIssues

\* The CPU temperature does not change its sensor while the sensors stay, and the
\* clock's ceiling is the highest believable one seen (metrics.go,
\* cpu_clock_peak.go).
TemperatureKeepsMeaning ==
  Sensed!TemperatureKeepsMeaning /\ [](part = "sensors" => Sensed!CeilingIsHighestSeen)

\* A response counts once, on the day it was made (token_usage.go).
TokensCountedOnce == part = "tokens" => Tokens!TokensCountedOnce
=============================================================================

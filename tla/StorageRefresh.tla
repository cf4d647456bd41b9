--------------------------- MODULE StorageRefresh ----------------------------
(***************************************************************************)
(* The Windows drive list of src/collector_windows_cache.go: the slow lane *)
(* reads it from a cache that a background discovery refreshes, one at a   *)
(* time, sooner after a failure than after a success.  A discovery may     *)
(* hang on a drive for ever.  Rows are the time they were discovered.      *)
(***************************************************************************)
EXTENDS Integers

CONSTANTS CacheTTL,       \* windowsStorageCacheTTL
          RetryAfter,     \* windowsStorageRetryAfter
          StaleGrace,     \* windowsStorageStaleGrace
          DiscoveryWait,  \* windowsStorageDiscoveryWait
          MaxTime         \* bound: the clock stops here

\* What is assumed of the constants.
StorageAssumption ==
  /\ {CacheTTL, RetryAfter, StaleGrace, DiscoveryWait, MaxTime} \subseteq Nat \ {0}
  /\ DiscoveryWait <= RetryAfter /\ RetryAfter <= CacheTTL /\ CacheTTL <= StaleGrace

VARIABLES now,
          cache,    \* rowsAt (0: none), empty, failed (storageRowsErr), attemptAt
          refresh,  \* running, and since when
          lane,     \* the slow lane's pass: idle or waiting since asked
          told      \* what the last pass was answered, and when

vars == <<now, cache, refresh, lane, told>>

Init ==
  /\ now = 1
  /\ cache = [rowsAt |-> 0, empty |-> TRUE, failed |-> FALSE, attemptAt |-> 0]
  /\ refresh = [running |-> FALSE, since |-> 0]
  /\ lane = [waits |-> FALSE, asked |-> 0]
  /\ told = [what |-> "nothing", rowsAt |-> 0, at |-> 0]

\* The first pass waits no longer than DiscoveryWait.
Tick ==
  /\ now < MaxTime /\ now' = now + 1
  /\ lane.waits => now - lane.asked < DiscoveryWait
  /\ UNCHANGED <<cache, refresh, lane, told>>

-----------------------------------------------------------------------------
\* startWindowsStorageRefreshLocked
Due ==
  /\ ~refresh.running
  /\ \/ cache.attemptAt = 0
     \/ now - cache.attemptAt >= IF cache.failed THEN RetryAfter ELSE CacheTTL

RefreshNow == IF Due THEN [running |-> TRUE, since |-> now] ELSE refresh

\* A discovery that runs for too long is the error of the day.
Error(r) ==
  IF r.running /\ (cache.attemptAt = 0 \/ now - r.since >= DiscoveryWait) THEN TRUE
  ELSE cache.failed

\* Mutant of KeepsRows: the rows are dropped with the first failure.
KeepsRowsNever == FALSE

\* windowsStorageRowsOrError: the last good rows outlive failures for a while.
KeepsRows == ~cache.empty /\ cache.rowsAt # 0 /\ now - cache.rowsAt <= StaleGrace

Answer(r) ==
  told' = [what |-> IF ~Error(r) \/ KeepsRows THEN "rows" ELSE "error",
           rowsAt |-> cache.rowsAt, at |-> now]

PassAtOnce ==
  /\ ~lane.waits /\ cache.attemptAt # 0
  /\ refresh' = RefreshNow /\ Answer(RefreshNow)
  /\ UNCHANGED <<now, cache, lane>>

\* Only before any discovery has ended does a pass wait for the one that runs.
FirstPassWaits ==
  /\ ~lane.waits /\ cache.attemptAt = 0
  /\ refresh' = RefreshNow
  /\ lane' = [waits |-> TRUE, asked |-> now]
  /\ UNCHANGED <<now, cache, told>>

\* The discovery ended, the timer fired or the pass's context is done.
FirstPassAnswered ==
  /\ lane.waits /\ lane' = [lane EXCEPT !.waits = FALSE]
  /\ Answer(refresh)
  /\ UNCHANGED <<now, cache, refresh>>

\* runWindowsStorageRefresh, for an error and a panic alike.
DiscoveryEnds(ok, empty) ==
  /\ refresh.running /\ refresh' = [refresh EXCEPT !.running = FALSE]
  /\ cache' = IF ok THEN [rowsAt |-> now, empty |-> empty, failed |-> FALSE, attemptAt |-> now]
              ELSE [cache EXCEPT !.failed = TRUE, !.attemptAt = now]
  /\ UNCHANGED <<now, lane, told>>

Next ==
  \/ Tick
  \/ PassAtOnce
  \/ FirstPassWaits
  \/ FirstPassAnswered
  \/ \E ok, empty \in BOOLEAN : DiscoveryEnds(ok, empty)

Spec == Init /\ [][Next]_vars

-----------------------------------------------------------------------------
TypeOK ==
  /\ now \in 1..MaxTime /\ cache.rowsAt \in 0..MaxTime /\ cache.attemptAt \in 0..MaxTime
  /\ told.what \in {"nothing", "rows", "error"}

\* The panel is blank only when no drive was found within the grace period, and
\* a drive that is gone haunts it no longer than that: rows older than the grace
\* period are shown only while the discovery that may replace them has just begun
\* (after a time in which no pass asked).
DriveListHonest ==
  [][told' # told =>
       /\ told'.what = "error" => cache.empty \/ now - cache.rowsAt > StaleGrace
       /\ told'.what = "rows" /\ now - told'.rowsAt > StaleGrace =>
            now - refresh'.since < DiscoveryWait]_vars
=============================================================================

# A specification of sysmon-agent

`sysmon-agent` is a resident monitor for a Linux or Windows host: it samples the
machine, streams the readings to browser dashboards, keeps a short history,
shows what AI coding tools used, switches cameras and microphones, updates itself
in place and relays the readings of other hosts. This directory models its
concurrent and failure-prone parts, and the algorithms behind what it shows, in
TLA+, checks them with TLC on small instances and proves the most important
results with TLAPS for every value of the constants. Source paths and line
numbers below are those of the repository.

## The system

| component | source | state | what makes it correct |
|---|---|---|---|
| resident sampler | `sampler.go` | working and published snapshot, subscribers, demand, loops | every subscriber is served, what is measured arrives, idle loops park, Stop is clean |
| snapshot delivery | `sampler.go`, `server.go` | a Go channel of capacity one per subscriber | the newest snapshot wins, nobody blocks |
| metrics history | `history.go` | a ring of buckets | peaks of exactly the buckets in the window, gaps stay gaps |
| collector caches, readiness | `collector.go`, `healthcheck.go` | last reading, collection in flight | bounded age, followers released, ready means measured |
| streams and their relay | `server.go`, `peers.go` | subscriptions, deadlines | a vanished end costs bounded time, a live stream is not cut |
| camera switch | `device_activity*.go` | journal on disk and in memory, latest observation | what the agent turned off can be restored, nothing else is turned on |
| control actions | `control*.go` | none; the devices' | the dashboard's toggle ends up true |
| update helper | `update_swap.go`, `update_apply_windows.go` | live binary, rollback copy, staged file, service | honest reports, the previous binary survives |
| update checker, settings | `update.go`, `settings.go` | enabled flag, cached offer, single-flight slot, settings in memory and on disk | one helper, no leaked slot, settings that survive, versions only go forward |
| process and service | `main.go`, `listen.go`, `service_windows.go` | what is running, stop channel, service state | what is started is stopped, in order; what is served is sampled |
| peers | `peers.go`, `tailscale.go` | known hosts, a scan in flight | stable and unique ids, one row per agent |
| Claude quota | `quota.go` | files of other programs, live poll, cache | no answer lacks an old scan or passes off an old row as new; polls are paced |
| Codex usage | `codex_quota.go`, `token_usage.go` | last scan and last poll, child process | broken sources age to stale, no child left behind |
| token counts | `token_usage.go` | transcripts read so far | each response counts once, on its day |
| sensor bridge | `lhm_bridge_windows.go` | a child process that holds a driver | no answer mixed up, one driver, bounded retries |
| counters and rates | `collector_*.go`, `storage_rates.go` | the reading before last | no rate beyond what the machine did, but for what the code cannot tell apart |
| snapshot composition | `collector_*.go`, `metrics.go`, `selfcheck.go` | working snapshot | no gap without a reason, no reading outlives its pass |
| drives | `collector_windows_*.go`, `bounded_reads.go`, `collector_linux.go`, `storage_*.go` | cached list, outstanding reads | a hanging device costs no row, capacity counts once |
| processes | `process_tree.go`, `processes.go`, `agent_cost.go` | the previous pass | filed under true ancestors, counted as the agent's only if they descend from it |
| CPU sensors | `metrics.go`, `cpu_clock_peak.go` | highest clock seen | the shown temperature keeps its meaning |
| dashboard | `static/app.js` | stream, timer, requests, host in view, toggles in flight | one source, no foreign reading, no stale view, no stuck button |
| on-screen display, hardware readers, identity, installers | many | little or none | parsing and formatting |

How they interact. The sampler's loops call the platform collector and the
device manager, write the history and push to the stream handlers. HTTP handlers
read the published snapshot (and leave a mark of demand), post settings (which
switch the update checker), press the camera or microphone switch (which wakes
the device loop) and ask for an update (which spawns the helper, a process of
its own that stops and restarts the service the agent runs as). A request for
another host is relayed to that host's agent. Quota and usage pages merge what
background goroutines stored with files other programs write. State outlives
the process in the settings file, the camera journal, the devices themselves and
the binaries in the installation directory.

What is hard. The loops publish in two critical sections with a history step
between them, so they overtake each other. Delivery is three channel operations
against a reader that does not lock. Collections, scans and polls overlap and end
in any order. The camera journal and the devices change in steps that a crash
may separate. The update helper may fail, die or be cut off by a reboot at every
step, its own rollback included. Child processes and devices hang. The machine
changes under a pass that reads it. The dashboard's requests outlive what they
were sent for. `PROJECT.json` lists each hazard at its line together with the
properties that cover it.

## Modules

| module | models |
|---|---|
| `Sampler` | `sampler.go`: composes the loops, the subscribers, the history (through `HistoryBuckets`) and Start/Stop |
| `LatestMailbox` | abstract: what delivery promises a subscriber |
| `CoalesceChan`, `Lanes` | `broadcast`, `coalesceSend`; refines `LatestMailbox`, which is why `Sampler` may treat a channel as one variable |
| `HistoryBuckets`, `History` | the arithmetic of `history.go` on a sequence of points; the ring fed with any snapshots and compared with a log of what was observed |
| `MetricsCache` | `collector.go` over the sampler's snapshots and direct collections, `/readyz` |
| `RelayedStream` | `GET /api/stream` and `serveRelayStream`, both legs with their deadlines |
| `DeviceManager` | `device_activity*.go`: the camera switch |
| `MuteControl` | the microphone toggle of `static/app.js` against `control_linux.go` and the device lane |
| `UpdateSwap` | `update_swap.go`, `update_apply_windows.go`: the helper, the service, the files |
| `UpdateControl`, `SettingsValues` | `update.go`, `settings.go`: settings posts, the checker's loop, ApplyNow, restarts |
| `Versions` | `parseSemver`, `compareSemver`, `comparePrerelease`, and chains of updates |
| `Service` | `main.go`, `listen.go`, `service_windows.go`: start, serving, shutdown |
| `Peers` | `peers.go`: scans, ids, requests that wait for a scan |
| `ClaudeQuota` | `quota.go` |
| `CodexUsage` | `codex_quota.go`, the usage sampler of `token_usage.go` |
| `TokenCounts` | the transcript scans of `token_usage.go` |
| `LhmBridge` | `lhm_bridge_windows.go` and its two users in `collector_windows.go` |
| `CounterRates` | the rates of processor, energy, network, drives and processes |
| `SnapshotFields` | the lanes' collectors, `finishMetrics`, the shape check |
| `StorageRefresh`, `WindowsDrives`, `LinuxDrives` | the drive list's cache, its discovery, the mount table |
| `ProcessView`, `TopRows` | the process tree, apps and the agent's own processes; the rows sent |
| `CpuSensors` | which sensor is the processor's temperature, the clock's ceiling |
| `Dashboard` | how `static/app.js` keeps its view current |
| `MCServices`, `MCBackground`, `MCReadings` | hosts: several of the modules above checked in one run |
| `*Proofs` | the theorems about the module they extend |

The hosts. The runs that check many modules take one module per *part*: the
variable `part` is chosen in the initial state, only that module's next-state
relation runs, and the variables of the others stay as they are. No interaction
between parts is claimed and none is checked; the hosts fix each module's
constants and conjoin its properties, with its type invariant, under one name.
The parts that do interact in the code are composed inside a module: the sampler
with its history and subscribers, the stream with its relay, settings with the
checker, the button with handler and device lane, the process with its server and
its service manager. `Sampler`, `Peers` and the violation runs have runs of their own.

Each operation or handler is one action; where the code releases a lock, starts
an operating-system call or can be killed with a visible effect in between, it
is one action per atomic section and a program counter says where it is. Error
paths are actions or disjuncts of their own. Definitions whose comment begins
with *Mutant of* are deliberate defects; no specification uses them. They
document which slip of the code each property would catch.

### Notes on the modules

**Sampler.** A loop is at `wait`, `collect`, `merge`, `observe`, `store` or
`broadcast`. `Merge` is the first critical section of `applyLaneAndPublish`,
`ObserveHistory` the call of `history.observe` outside the mutex, `Store` the
second critical section, `Broadcast` the third. A *reading* is the version of the
world it was taken in, so "this reading or a newer one" can be said; 0 is the
placeholder of `warmingMetrics`. `recent` stands for a demand mark younger than
`samplerIdleAfter`; it may age at any time, which includes every real timer.
`Stop` lets a loop whose timer fired together with the cancellation make one more
pass, as `select` may.

**CoalesceChan.** The refinement mapping counts a snapshot as put from the moment
the holder drained the channel (`Slot`). What it rests on is proved: the last
`default` case, which would discard the newest snapshot, is never taken because
every sender holds the mutex.

**History** observes arbitrary snapshots, so it covers clocks that stand still,
jump over the whole window or step back. `log` is a history variable, emptied when
the code decides that the clock stepped back.

**DeviceManager.** `ours` and `foreign` are history variables: cameras the agent
turned off and nobody turned on since, and cameras `Apply` found off without a
record. When several recorded cameras share a port, `Erase` removes all records
with the ID, as the loop at `device_activity.go:329` does.

**MuteControl.** A request's handler goes through the sources one by one, in any
order; two handlers overlap because `Apply` takes no lock. A frame carries the
mute state the device lane read some time before, and the newest frame replaces one
under way, as the mailbox does. The tools' failures, lost requests, changes
from outside and a switch to another host and back share one bound (`slips`).

**UpdateSwap.** Files hold a version, a partial copy or nothing. A file that is the
image of a running process can be renamed but not removed, which is why the
rollback copy is queued for deletion at the next boot. That queue names a path: if
a later update is interrupted by that boot, its rollback copy is what is
deleted. `PreviousKept` makes exactly that exception (`swept`), and the model shows
it is the only one. `lingering` is the agent process that already reported STOPPED
(`service_windows.go:176-180`) and still holds its image. One helper is at work at a
time: an agent spawns one at most (`UpdatesSound`), but the agent that a helper has
started could spawn the next before the first helper ended, and two helpers side by
side are left out.

**UpdateControl.** `switching` is the value a settings post has saved but not yet
passed to `SetEnabled`, which happens after the lock is released.

**Versions.** An identifier is opaque, with a number or none and a place in the order
of strings, so the comparison is proved a strict order for any identifiers.

**Peers.** A row is named by its key; the code lists configured entries first and
sorts machines by name, so keys are naturals and their order is the list's. What
an address answers is arbitrary in each scan. `ScanApplies` stands for `runScan` to
the end of `applyScan`, because nothing before that is visible to others;
`ScanEnds` is the separate critical section of `startScanLocked` with the `close`
after it. `IdsSurvive` states how far "a dashboard's remembered selection survives
rescans" (`peers.go:598-600`) goes: an id may move when the row that first had it,
left out of a scan meanwhile, comes back; the property shows this is the only case.

**ClaudeQuota, CodexUsage, MetricsCache, StorageRefresh, LhmBridge, RelayedStream,
Service** have an integer clock whose unit is the shortest delay of the code they
model; where the code keeps a deadline, the clock does not pass it before the step
that meets it. A reading is the time it describes.

**MetricsCache.** A lane copies and stamps the working snapshot under one lock and
stores the copy under the next (`sampler.go:353-375`), and another lane may store its
own in between. Nobody sees a copy before it is stored, so `LaneStores(t)` chooses
when the copy was made: any t not longer ago than `Delay`, the time a goroutine that
is ready to run may be held up, with what the working snapshot was at t (`Copies`).
An older copy thus replaces a newer one in `published` and, through a request that
read it, in the cache. `ReadingAgeBounded` says how far this goes: an answer to a
request is behind the snapshots stored a cache life and a delay before it by no more
than that delay, or than the time its own collection took. `/readyz` is asked of each
answer the cache can give.

**LhmBridge.** A daemon whose script cannot be written is given up at once
(`ScriptFails`); the one-shot script that replaces it may also run while the agent
closes.

**CounterRates** keeps counters modulo a small width. A pass stamps, reads, looks at
what was kept, stores and reports in separate steps, and two passes interleave at any
of them; where the code stamps first (energy, Linux processes) the reading comes
later, where it stamps last the stamp may be any time from the reading to the store.
What is reported carries what the machine really did between the two readings, and
whether the readings were mistaken for what they are not. `NeverOverstated` leaves
those out, because the code does not notice them: a reading of a counter before it
began again, stamped after one of the counter that replaced it; and an energy counter
of known range that is lower without having wrapped, because it was set back or was
read by a pass that stamped later and read earlier. 

**WindowsDrives** has one outstanding bounded read per device; a hung device never
answers.

**ProcessView** lets processes start, exit and reuse ids between two reads of one
pass. Which processes are the agent's own is modelled (`AgentSubtree`, the least set
that holds the agent and the children of its members); their sums, and the time of
children that exited between two passes, are not.

**Dashboard** has one handler at a time, and requests whose answers come in any order,
also after a switch of hosts. A request is answered in two steps, because
`fetchWithTimeout` (`app.js:923-949`) stops its timer when the headers arrive and the
body may take for ever. `SchedulePolling` includes `openStream`'s catch
(`app.js:574-580`): `threw` says that the last EventSource could not be made, and the
view is left without a source until the next call. A stream may fail, open and break
off any number of times.

## Checks

| run | instance | states | shows |
|---|---|---|---|
| `sampler_safety` | lanes, or whole and device loop; 1 client; 3 clock values | 1 003 028 | publication, history and Stop are safe |
| `sampler_liveness` | lanes; 1 client; 2 readings; the clock stands still | 108 088 | readings arrive, idle loops park, Stop returns |
| `peer_registry` | 2 entries of `-peers`, 1 machine, 1 other agent, 2 names, 1 request | 62 020 | ids unique and stable, agents listed once and not lost |
| `services` | host of 9 parts, see below | 1 047 634 | what is served is fresh enough, honest and ends when it should; updates keep the previous binary |
| `background` | host of 7 parts, see below | 352 047 | what runs beside the sampling neither goes wrong nor stops |
| `readings` | host of 9 parts, see below | 1 944 276 | what is shown was so |
| `sampler_history_lost`, `update_left_stopped`, `update_hard_off`, `service_stop`, `column_leaders`, `excluded_left_alone` | one module each | – | the six findings |

The properties of the hosts, with the modules' properties they conjoin:

| run | property | says |
|---|---|---|
| `services` | `AnswersFresh` | no quota answer lacks a scan older than the cache's life; every row is dated by its source |
| | `RetriesPaced` | polls after a success, an error, a rate limit or without credentials, and respawns of the sensor process, keep their delays |
| | `ReadingAgeBounded` | however collections and lanes overlap, an answer lacks no snapshot older than the cache's life and a delay, but for the delay of an overtaken lane or its own collection's time; no failed flight stays to be followed |
| | `ReadyOnlyMeasured` | `/readyz` never answers ready on the placeholders of CPU and memory |
| | `StreamsEndWhenDead` | a vanished end costs its handlers the deadlines, a live stream is not cut, a serving process samples |
| | `RingAnswersForWindow` | the ring holds the peaks of exactly the buckets in the window, oldest first |
| | `OutcomeHonest`, `PreviousKept`, `FilesMovedWhileStopped` | the update helper's report, the previous binary, no file moved under a running service |
| | `BridgeSound` | an answer belongs to its request, two processes never hold the driver, a daemon that worked is tried again, drives are rescanned in time |
| `background` | `DisabledIsRecorded`, `ForeignStaysOff`, `PublishedIsCurrent`, `RecoveryCompletes` | the camera switch |
| | `UpdatesSound`, `ReleaseNoticed` | saved settings, one helper, no leaked slot; an enabled checker finds the release |
| | `VersionsOrdered` | a chain of updates never returns to an older version; semantic versioning's precedence |
| | `BrokenAgesToStale`, `CallersReturn` | a broken sampler and poll show as stale; Stop returns with no child left, `coalesceSend` returns to its loop |
| | `MailboxSpec` | `CoalesceChan` implements `LatestMailbox` |
| | `DashboardHonest`, `ViewRefreshed` | no foreign reading, one source unless no EventSource could be made, one request; a toggle is not painted over by what was sampled before it and is not doubled; a view stays outdated only for one of four named reasons, and no button does |
| `readings` | `NeverOverstated` | no rate above what the machine did, over wraps, resets and overlapping passes, but for the two mistakes named above |
| | `SnapshotHonest` | no gap without a reason, no reading that outlives a panicking pass, ready once measured |
| | `ProcessesFiledRight` | filed under a true ancestor, counted as the agent's only below it, the busiest rows sent |
| | `DrivesCountedOnce`, `DriveListHonest` | no drive lost to a hung device, capacity once per file system, faults told from expected gaps; the list blank or stale no longer than the grace period |
| | `TemperatureKeepsMeaning`, `TokensCountedOnce` | the sensor does not change while the sensors stay; each response once, on its day |

### Bounds

*Sampler.* One client suffices because `broadcast` treats each alike and the
mailbox of each is its own. Three clock values and a fresh window of one give a
fresh, a just stale and a long stale slow pass, and let two lanes fall on both
sides of a bucket boundary.

*Peers.* Three rows are enough for a row to be merged away, its id to be given to a
second one and a third to collide with both; the names are the reserved id and the
first numbered form of it. One request that gives up and asks again meets the scan
it started earlier, as a second one would.

*`services`.* The quota runs in three settings, because all actors together for as
long as a backoff takes would be too many states: two dashboards with the files
(`asked`), the poll alone over seven units, longer than its longest backoff of three
(`polled`), and a dashboard beside the poll (`beside`). The cache has two callers, a
life, a timeout, a delay and an accepted age of one unit each in five units, with the
first fast pass in the first two: a lane can be overtaken, and a request can store
what it read of the overtaking copy after another stored a newer one and the entry of
that one has expired. The stream
has keepalives every two units, write deadlines of one and an idle limit of three
within nine: each deadline expires twice. The bridge makes five requests
(`MaxRequests`) with two failures to disable and a backoff of two. The ring needs
two buckets in the window, one at its edge and one outside: timestamps to six,
buckets of two, a window of four, three observations. Three versions beside the
installed one (`MaxVersion`) are the shortest chain in which a queued deletion of the
first update meets the interrupted copy of a later one. The process has a grace of two
in four units. The parts end when their time is up, so deadlock is not checked there.

*`background`.* Three cameras on two ports and three mishaps let a crash, a failed
operation and a change from outside meet; with the bound exhausted the system runs
undisturbed, which is what `RecoveryCompletes` needs. Two posters and two appliers
are the smallest number that can race. The identifiers 9, 10, 1a and rc disagree in
every pair of numeric and alphabetic order; 14 tags of them, two updates.
`CodexUsage` has an interval of two, a timeout of one, four units and one change
of the files (`MaxEvents`): a second poll fails while the first still counts. The
dashboard switches hosts once (`MaxSwitches`), and its limit of failures is two
(three in the code). The
microphones are two, one of them the default, with three toggles (`MaxPresses`)
and one mishap: sent, left behind by a switch of hosts, and sent again twice.

*`readings`.* Two passes overlap; counters have sixteen values, and one of them may
begin again once or vanish (`Unsteady`); three time units give each pass two readings
and a reset between them. The drive list runs
eleven units over a cache life of three and a grace of four. Four processes, one
fork and any exits during a pass reuse an id and its parent's. Two disks with
one volume over either or both, one change; one Linux drive with two partitions,
three mounts and one failing call. Two degrees, three clock values of which one is
not believable. Two transcripts with three records over three days.

### Fairness

Loops that can go on are scheduled and collections return (every operating-system
call of the collectors has a timeout); a handler that stays connected reads its
channel; `json.Marshal` does not refuse every snapshot. Of the camera manager it is
assumed that Apply and sample end, that a dead agent is started again by its service
manager and that somebody keeps pressing the button; Go's mutex starves no waiter,
hence strong fairness of `Press`. Of the checker, that its ticker fires and that the
channel is not unreachable for ever. Of a lookup of the Codex CLI, that its
goroutine goes on once its context is cancelled; of the lanes, that they are
scheduled; nothing of the subscriber that reads. Of the dashboard, that timers
fire, the one that ends a request before its headers among them; nothing of the
stream, of a body that began or of what the host answers, so `ViewRefreshed` names
each of these that can hold a view up: a body that never ends, an EventSource that
could not be made, requests that fail again and again, and a stream that opens and
breaks off before a frame again and again. Of the microphone button, that
handlers end by their deadline, that the device lane runs, that frames arrive, that
the settle timer fires and the status comes. Nothing is assumed of users, crashes, the
clock or the outside world. In `background` only one part moves, so the fairness of
each part is stated over the variables of the part that runs (`moving`) and one
condition stands for an action of each part (`Fair1`..`Fair4`, `FairStrongly`).

## Findings

1. **History lost on a steady clock.** `history.go:26-27` promises CPU and memory
   history "complete for as long as the agent has run". A lane that is overtaken
   across a bucket boundary arrives with the older bucket, which `history.go:92-96`
   takes for a clock that stepped back and answers by emptying the ring
   (`sampler_history_lost`).
2. **Service left stopped.** `update_swap.go:65-66` promises that on error the
   previous binary has been "restored and restarted whenever that was possible";
   when the stale rollback copy cannot be removed (`update_swap.go:81-83`) the
   helper returns without a start (`update_left_stopped`).
3. **Hard-off does not win.** `update.go:239-241` says the flag keeps `Enabled()`
   false "regardless of calls here"; `SetEnabled` assigns the flag and every
   settings post calls it (`update_hard_off`).
4. **Shutdown with a viewer is not graceful.** `main.go:279-281` promises "a graceful
   shutdown on stop"; an open event stream does not end by itself, Shutdown times
   out and the process exits with code 1 before any deferred stop
   (`service_stop`).
5. **Column leaders are cut.** `processes.go:149-151` says a re-sort by any column
   sees that column's true leaders; the union is cut by processor time alone
   (`column_leaders`).
6. **Excluded drives are asked.** `collector_windows_storage.go:218-219` says of an
   excluded drive that "its free space is never asked for"; the disk rows of the
   same pass ask every fixed volume (`excluded_left_alone`).

Observations that contradict no statement of the repository, or only a comment's
wording, and are in the models or beside them:

- *Updates.* The deletion queued for the next boot names a path and may hit a later
  update's rollback copy (`swept`). The slot of ApplyNow stays claimed for the life of
  the process once a helper is spawned (`update.go:425`). `update.go:632` says the
  helper reuses `updateStagedExePrefix` to clean up; only staging uses it, so an agent
  that dies between staging and spawning leaks the file. `updateReadyURL` parses
  `-port` but not `--port`. `parsePreIdentifier` takes "-0" for a number, and
  over-long or zero-led digits for words.
- *Settings.* Two posts at once can leave the checker on the other value than the
  setting, because it is switched after the lock is released (`settings.go:341`).
- *Sampler and caches.* The lane that stores last wins, so a published snapshot can be
  replaced by an older copy until the next pass (`sampler.go:371`), and a request
  that read the older one may store it last in the cache, with a later date
  (`collector.go:49-52`). The service is
  reported running before its listener is bound (`main.go:279`).
- *Microphone.* Two toggles at once can leave the microphones apart although
  `control_linux.go:151-154` wants them to "end up consistent"; the button then says
  so. A toggle that failed for one microphone answers with the target state, which
  the button holds up to `controlSettleMS`, and the message is not shown. The error
  path of `sendControl` shows its status also after a switch to another host.
- *Dashboard.* A stream that opens and ends before a frame, over and over, resets the
  failure count at each opening (`app.js:585-588`) and is never given up; a body that
  never ends holds the flag of requests, because the timeout ends with the headers
  (`app.js:923-949`). `openStream`'s `catch` selects polling without starting its timer
  (`app.js:574-580`), so the view has no source until the next `schedulePolling`. An
  older answer to a poll may be painted over a newer frame.
- *Quota and tokens.* A request in progress may store older token counts again
  (`quota.go:832`). A Codex counter that starts again can hide tokens.
- *Rates.* `/proc/stat` counts guest time twice; overlapping Windows CPU passes can show
  0 % or 100 %. An energy counter of known range that is lower than before is taken for
  one that wrapped (`collector_linux.go:594-601`), also after a reset, or when a pass
  that stamped later has read earlier (`collector_linux.go:516-517`); the power shown is
  then up to the whole range. Linux takes a pass's time before it asks `nvidia-smi`
  (`collector_linux.go:1884-1885`). The exited-children counter is read before the lock
  (`agent_cost.go:95-100`): passes of a request and of the slow lane that overlap may
  store it in the other order and charge a child twice, although
  `agent_cost.go:75-76` has each pass charge "only what exited since the last one".
- *Drives.* A reused `PhysicalDriveN` shows the previous drive's last size and
  temperature for one failed read. A volume over an excluded and a listed drive is
  asked for its free space. Mounts of LUKS and LVM volumes map to no drive. A failing
  `statfs` on a drive mounted only under `/run/media` is an expected note, and only
  the first mount point is asked. Excluding every drive leaves "no block devices
  found" for good.
- *GPUs.* Two adapters of one name get the same adapter's engines.

## Proofs

| module | theorems | argument |
|---|---|---|
| `HistoryBucketsProofs` | `ObserveKeepsRing`, `ObserveAnswers` | trimming drops a prefix, appending adds a later bucket, raising leaves the times alone; stated for any set that holds the points, so that its users choose what is known of a point. Against a log of what was observed: the newest bucket's peak is raised by the new reading and by nothing else, and trimming loses no bucket inside the window |
| `SamplerProofs` | `TypeCorrect`, `SubscribersServed`, `HistoryAlwaysWellFormed`, `GapsStayGaps`, `ClosedCollectorUnused` | the four invariants with "a new sampler has no loop" and "a closed one has only finished loops"; the history step cites `ObserveKeepsRing`, once for well-formed points and once for points no later than the freshness of the slow lane allows; a fresh copy is not much later than the last slow pass, which only moves forward |
| `ServicesProofs` | `AnswersAreBounded`, `ReadyMeansMeasured` | cache: a stored copy was stamped no more than one delay ago, so whatever is published or on its way into the cache is behind the stored snapshots by no more than a delay, and a collection of a request's own by no more than its timeout; an entry is dated by its store, which comes at most a delay after the reading was handed over. A follower's flight is a caller's own or a leader's, never a failed one that stays |
| | `BridgeIsSound` | a request in flight belongs to the process that holds the driver, and a process that is being torn down answers nobody; the count of failures starts again with every success |
| | `StreamsEnd` | each handler that is blocked has a deadline ahead of it, the relay's as well, and bytes under way are younger than the keepalive |
| | `RingAlwaysAnswers` | cites `ObserveAnswers`; the log is what was observed since the clock last stepped back |
| | `QuotaAnswersFresh`, `AlwaysPaced` | from `ClaudeQuotaProofs` in the three settings of the host; for the bridge, the next attempt is a backoff after the last |
| | `SwapTypeCorrect`, `ReportsAreHonest`, `PreviousAlwaysKept`, `FilesMoveOnlyWhileStopped` | for each position of the helper, what is at the two paths and whether the service runs |
| `ClaudeQuotaProofs` | lemmas, for all constants | a scan's result is dated by its start and stored only over an older one, a row keeps the date of its source through every merge, the poll's next time is ahead of its last |
| `BackgroundProofs` | `CameraTypeCorrect`, `AlwaysRestorable`, `ForeignNeverTouched`, `MemoryIsDisk`, `PublishedAlwaysCurrent` | what the program counter implies: the camera being turned off is already recorded, the one whose record is being erased is already on, what is left to do was listed and on; only Apply changes the journal, an observation agrees with it, and what `sample` observed stays true until it is published |
| | `UpdatesAreSound` | at most one attempt is past the slot, and none once a helper exists; a post holds the lock from its reading of the settings to their adoption |
| | `VersionsAreOrdered` | from `VersionsProofs`: the comparison is a strict order, and is the rank of the numbers, then of the suffixes |
| | `BrokenAlwaysAges`, `NoProcessLeft` | what a scan or poll hands over was taken within its timeout; a child lives only while its lookup waits, and Stop waits for the lookup |
| | `DashboardIsHonest` | each request carries the generation it was sent in, at most one is of the present one and the flag stands for it, and at most one of stream and timer runs, both absent only where the last EventSource could not be made; for the button, a toggle in flight is the newest of its viewer, so one that settles is its own |
| | `DrainedStaysEmptyAlways`, `ImplementsMailbox` | only the mutex holder is inside `coalesceSend`, and it carries a message; each step maps to a step of the mailbox or a stutter |
| `PeersProofs` | `TypeCorrect`, `IdsAlwaysUnique`, `OnlineUnderOneRow`, `NobodyLost`, `WaitedAlwaysScanned`, `SelectionSurvives` | one lemma for each thing that applying a scan establishes; a kept id is taken from the earliest row that has it, a new one is chosen free of all before it; of the addresses that reached one agent the earliest is listed |
| `ReadingsProofs` | `RatesTypeCorrect`, `RatesHonest` | of any two readings still held anywhere, how far the counter can have gone for how far it really moved; a reading stamped earlier than another was made before it, unless a pass read late what it had stamped early or its counter began again in between; each report is made of two such readings in the order the guards leave, or of two that `NeverOverstated` names as mistaken |
| | `SnapshotIsHonest` | every patch a lane can publish names the reason for each metric it leaves without a value, names a sensor with its reading and never gives a platform what it has not; so it keeps both snapshots free of gaps |
| | `DriveListIsHonest` | rows without a failure since are as old as the last attempt; a pass that waits does so for a discovery that runs, or for one that ended after it asked |
| | `TemperatureKeepsItsMeaning` | the sensors left by the choice are of one class, which depends on what can be read and not on how warm it is; among any of them one is the warmest |
| | `ProcessesAreFiledRight` | a row read of a process whose id has not changed hands is that process, and of two processes that run the one whose number the other has for a parent is an ancestor, unless it is the younger; so a walk up rows to be relied on meets only ancestors, however long it is, and a member of the least set below the agent has it above. Of the rows: the busiest are picked by the first column and outlast the trimming, by the sizes of the sets that are left |
| | `DrivesAreCountedOnce` | Windows: a drive whose read is not back has its identity, and one read is outstanding at most; Linux: a device's first mount stands for all its mounts, so the devices counted are those mounted, and a sum over a set depends on the set alone |
| | `TokensAreCountedOnce` | the tokens of distinct records (Claude), or what each record adds to the one before (Codex), sum up on each day to what was used on it, and no more than that once a count started again; a new record changes one day's sum by its own tokens, and a repeated one by none; a transcript with a record of the chart's days is always read |
| `VersionsProofs` | `UpdatesOnlyGoForward` | comparison of identifiers, then of suffixes by their first difference, then of tags is irreflexive and transitive; so every installed version is above all before it |

They assume the named assumptions on the constants, which TLC evaluates on the
instances (`ASSUME` in the module or in the host that instantiates it). The hosts
keep the constants of their parts as CONSTANTS, so a theorem about `HostSpec` holds
for every number of callers, cameras, lanes, versions and toggles and for every
delay that meets the assumptions, and not only for the values of `MCServices.cfg`,
`MCBackground.cfg` and `MCReadings.cfg`. The argument for a host is the same throughout: an inductive
invariant of each part (`CacheInv`, `BridgeInv`, `CameraInv`, `PageInv`, ...), a lemma
that each of its actions preserves it, and a lemma that the steps of other parts
leave its variables alone. The invariants were checked by TLC on the instances as well, but
for the types of the process table, which it cannot enumerate. A theorem whose property a run checks names that property in `PROJECT.json`.

Model-checked only: everything under fairness (`ReadingReachesClient`,
`IdleLoopsPark`, `StopCompletes`, `RecoveryCompletes`, `ReleaseNoticed`,
`CallersReturn`, `ViewRefreshed`), because the proof system does not handle ENABLED.

Three proofs need an induction: over the length of a walk up the process table, the
size of a set of rows, and the terms of a sum over a set of mounts or records. The
library's induction theorems take a predicate, which the provers cannot instantiate,
so each is by a least counterexample instead: of a well-founded order, a set that is not
empty has a least member (`WFMin`), and the step shows that it is none. Sums are
therefore written over sets (`SumFunctionOnSet`), for which `SumAdds`, `SumExtended` and
`SumRaised` give what they are of one element more or one term raised.

## Not modelled

- On-screen display readings (`osd*.go`): one more demand-driven loop over another
  program's shared memory, whose only state is its last reading.
- Volume, media keys and the screen lock, and the Windows audio endpoints: single calls.
- Hardware readers (`gpu.go`, `pressure.go`, `collector_linux_identity.go`): reads and
  parses of single files and tools; what becomes of a reading or a failure is in
  `SnapshotFields`.
- Identity and access URLs: lookup and formatting. Routing, origin checks, encoding,
  static files, checksum and payload parsing: no state that more than one actor
  shares. Rendering and the dashboard's other pages.
- Installers and deployment scripts.
- Interactions across the parts of a host, and real time: clocks and timers are
  nondeterministic choices or an integer clock with the order of the code's delays.
- The processor time of the agent's children that exited (`agent_cost.go:34-57`,
  `90-138`), and the retries of the installers' health check (`healthcheck.go`).
- Two update helpers at work at once.
- A check under way when checks are switched off or a helper is spawned stores its
  result all the same (`update.go:323`): it is in `UpdateControl`, but no property
  speaks of it, because it only brings an offer back.
- Overmounts, and drives that change between the two reads of one Linux pass.

## Plan

1. An abstract host directory that `Peers` implements; an abstract "last reading not
   older than" that `MetricsCache`, `StorageRefresh` and `CodexUsage` implement.
2. `Service` composed with `UpdateSwap` through the state of the service.
3. The camera button beside the microphone's in `MuteControl`; the reload of the
   dashboard after an update.
4. `osd.go`.

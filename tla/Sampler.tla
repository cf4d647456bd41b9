------------------------------ MODULE Sampler ------------------------------
(***************************************************************************)
(* The resident sampler of sampler.go: the sampling loops, the working and *)
(* the published snapshot they share, the subscribers of /api/stream, the  *)
(* demand that keeps the expensive loops awake, and Start and Stop.        *)
(*                                                                         *)
(* A loop is a goroutine that waits, collects, merges what it collected    *)
(* into the working snapshot, folds the result into the history, stores it *)
(* as the published snapshot and broadcasts it.  The code releases the     *)
(* mutex between these steps, so each is an action of its own.             *)
(*                                                                         *)
(* A reading is abstracted to the version of the world it was taken in: 0  *)
(* is the warm-up placeholder, 1 .. MaxReading are readings.  A            *)
(* subscriber's channel is the one-place mailbox that CoalesceChan         *)
(* implements.                                                             *)
(***************************************************************************)
EXTENDS Integers, Sequences, HistoryBuckets

CONSTANTS
  Platforms,    \* the sets of loops that a platform may run
  Clients,      \* handlers of /api/stream
  None,         \* no snapshot
  MaxReading,   \* bound on the versions of what is measured
  MaxClock,     \* bound on the clock
  FreshWindow   \* slowFreshWindow, in clock units

\* Platforms with lane support run a fast and a slow loop, the others one
\* loop for everything; both run the device loop when there is a device
\* manager (there is one whenever the HTTP handler is built on the sampler).
ASSUME PlatformsAssumption ==
  Platforms \subseteq {{"fast", "slow"}, {"fast", "slow", "device"}, {"whole", "device"}}
ASSUME BoundsAssumption ==
  MaxReading \in Nat \ {0} /\ MaxClock \in Nat \ {0} /\ FreshWindow \in Nat

VARIABLES
  loops,      \* the loops of this platform
  clock,      \* the host's clock; 0 is the zero time
  world,      \* the current version of what is measured
  pc,         \* where each loop is
  patch,      \* what each loop collected in its current pass
  copy,       \* the snapshot each loop is publishing
  copyFresh,  \* whether that snapshot's slow readings count as fresh
  working,    \* sampler.working
  lastSlowAt, \* sampler.lastSlowAt
  snapshot,   \* sampler.snapshot and snapshotJSON, or None (haveSnapshot)
  recent,     \* a request or subscription within samplerIdleAfter
  subs,       \* sampler.subs
  chan,       \* what waits in each subscriber's channel
  seen,       \* what each subscriber received last in this connection
  points,     \* the metrics history
  run         \* "new", "running", "stopping" or "closed"

laneVars == <<pc, patch, copy, copyFresh>>
subVars == <<subs, chan, seen>>
sharedVars == <<working, lastSlowAt, snapshot, points>>
vars == <<loops, clock, world, laneVars, sharedVars, recent, subVars, run>>

Fields == {"fast", "slow", "device"}
AllLoops == Fields \cup {"whole"}
LaneSteps == {"off", "wait", "collect", "merge", "observe", "store",
              "broadcast", "done"}
Readings == 0 .. MaxReading
Snapshots == [ts : 0 .. MaxClock, read : [Fields -> Readings]]

ASSUME NoneAssumption == None \notin Snapshots

\* newSampler: the working snapshot starts out as warmingMetrics.
Warming == [ts |-> 0, read |-> [f \in Fields |-> 0]]

TypeOK ==
  /\ loops \in Platforms
  /\ clock \in 1 .. MaxClock
  /\ world \in 1 .. MaxReading
  /\ pc \in [AllLoops -> LaneSteps]
  /\ patch \in [AllLoops -> Readings]
  /\ copy \in [AllLoops -> Snapshots]
  /\ copyFresh \in [AllLoops -> BOOLEAN]
  /\ working \in Snapshots
  /\ lastSlowAt \in 0 .. MaxClock
  /\ snapshot \in Snapshots \cup {None}
  /\ recent \in BOOLEAN
  /\ subs \subseteq Clients
  /\ chan \in [Clients -> Snapshots \cup {None}]
  /\ seen \in [Clients -> Snapshots \cup {None}]
  /\ points \in Seq([t : 0 .. MaxClock, cpu : Readings \cup {Nil},
                     gpu : Readings \cup {Nil}])
  /\ run \in {"new", "running", "stopping", "closed"}

Init ==
  /\ loops \in Platforms
  /\ clock = 1
  /\ world = 1
  /\ pc = [l \in AllLoops |-> "off"]
  /\ patch = [l \in AllLoops |-> 0]
  /\ copy = [l \in AllLoops |-> Warming]
  /\ copyFresh = [l \in AllLoops |-> FALSE]
  /\ working = Warming
  /\ lastSlowAt = 0
  /\ snapshot = None
  /\ recent = FALSE
  /\ subs = {}
  /\ chan = [c \in Clients |-> None]
  /\ seen = [c \in Clients |-> None]
  /\ points = <<>>
  /\ run = "new"

\* Mutant of HasDemand: an open stream does not count.
RequestsOnly == recent

HasDemand == subs # {} \/ recent

At(l, from, to) == pc[l] = from /\ pc' = [pc EXCEPT ![l] = to]

-----------------------------------------------------------------------------
\* Start: the first call starts the loops, further calls are no-ops.  The
\* fast, slow and whole loops collect at once, the device loop first looks
\* for demand.
Start ==
  /\ run = "new"
  /\ run' = "running"
  /\ pc' = [l \in AllLoops |-> IF l \notin loops THEN "off"
                           ELSE IF l = "device" THEN "wait" ELSE "collect"]
  /\ UNCHANGED <<loops, clock, world, patch, copy, copyFresh, sharedVars, recent, subVars>>

\* Mutant of Wake: no loop parks.
WakeNeverParked(l) ==
  /\ run = "running"
  /\ At(l, "wait", "collect")
  /\ UNCHANGED <<loops, clock, world, patch, copy, copyFresh, sharedVars, recent, subVars, run>>

\* A loop's timer fires (or, for the device loop, a toggle wakes it).  The
\* fast loop always goes on; the others only while somebody is watching.
Wake(l) ==
  /\ run = "running"
  /\ l # "fast" => HasDemand
  /\ At(l, "wait", "collect")
  /\ UNCHANGED <<loops, clock, world, patch, copy, copyFresh, sharedVars, recent, subVars, run>>

\* CollectFast, CollectSlow and devices.sample measure their quantity.
Collect(l) ==
  /\ l # "whole"
  /\ At(l, "collect", "merge")
  /\ patch' = [patch EXCEPT ![l] = world]
  /\ UNCHANGED <<loops, clock, world, copy, copyFresh, sharedVars, recent, subVars, run>>

\* The whole loop's inner.Collect measures everything, adds the device
\* loop's last observation, and counts as fresh...
CollectWhole ==
  /\ At("whole", "collect", "observe")
  /\ copy' = [copy EXCEPT !["whole"] =
                [ts |-> clock,
                 read |-> [f \in Fields |-> IF f = "device" THEN patch[f] ELSE world]]]
  /\ copyFresh' = [copyFresh EXCEPT !["whole"] = TRUE]
  /\ UNCHANGED <<loops, clock, world, patch, sharedVars, recent, subVars, run>>

\* ... or fails, and nothing is published in this pass.
CollectWholeFails ==
  /\ At("whole", "collect", "wait")
  /\ UNCHANGED <<loops, clock, world, patch, copy, copyFresh, sharedVars, recent, subVars, run>>

\* Mutants of Merge: any slow pass counts as fresh for ever, and the time
\* at which freshness ends is stored instead of the time of the pass.
MergeFreshForEver(l) ==
  LET merged == [ts |-> clock, read |-> [working.read EXCEPT ![l] = patch[l]]]
      slowAt == IF l = "slow" THEN clock ELSE lastSlowAt
  IN  /\ At(l, "merge", "observe")
      /\ working' = merged
      /\ copy' = [copy EXCEPT ![l] = merged]
      /\ lastSlowAt' = slowAt
      /\ copyFresh' = [copyFresh EXCEPT ![l] = slowAt # 0]
      /\ UNCHANGED <<loops, clock, world, patch, snapshot, points, recent, subVars, run>>
MergeDeadline(l) ==
  LET merged == [ts |-> clock, read |-> [working.read EXCEPT ![l] = patch[l]]]
      slowAt == IF l = "slow" THEN clock + FreshWindow ELSE lastSlowAt
  IN  /\ At(l, "merge", "observe")
      /\ working' = merged
      /\ copy' = [copy EXCEPT ![l] = merged]
      /\ lastSlowAt' = slowAt
      /\ copyFresh' = [copyFresh EXCEPT ![l] = slowAt # 0 /\ clock <= slowAt]
      /\ UNCHANGED <<loops, clock, world, patch, snapshot, points, recent, subVars, run>>

\* applyLaneAndPublish, first critical section: apply the patch, stamp the
\* working snapshot and take a copy of it.
Merge(l) ==
  LET merged == [ts |-> clock, read |-> [working.read EXCEPT ![l] = patch[l]]]
      slowAt == IF l = "slow" THEN clock ELSE lastSlowAt
  IN  /\ At(l, "merge", "observe")
      /\ working' = merged
      /\ copy' = [copy EXCEPT ![l] = merged]
      /\ lastSlowAt' = slowAt
      /\ copyFresh' = [copyFresh EXCEPT ![l] = slowAt # 0 /\ clock - slowAt <= FreshWindow]
      /\ UNCHANGED <<loops, clock, world, patch, snapshot, points, recent, subVars, run>>

\* The placeholder of warmingMetrics is not available and counts for nothing.
Countable(reading) == IF reading = 0 THEN Nil ELSE reading

\* history.observe, under the history's own mutex.
ObserveHistory(l) ==
  /\ At(l, "observe", "store")
  /\ points' = Observe(points,
                               [ts |-> copy[l].ts,
                                cpu |-> Countable(copy[l].read["fast"]),
                                gpu |-> Countable(copy[l].read["slow"])],
                               copyFresh[l])
  /\ UNCHANGED <<loops, clock, world, patch, copy, copyFresh, working, lastSlowAt, snapshot,
                 recent, subVars, run>>

\* The locals of a pass die with it; the device manager alone remembers what
\* it observed last.
EndPass(l) ==
  /\ patch' = [patch EXCEPT ![l] = IF l = "device" THEN @ ELSE 0]
  /\ copy' = [copy EXCEPT ![l] = Warming]
  /\ copyFresh' = [copyFresh EXCEPT ![l] = FALSE]

\* Second critical section: the copy becomes the published snapshot.
Store(l) ==
  /\ At(l, "store", "broadcast")
  /\ snapshot' = copy[l]
  /\ UNCHANGED <<loops, clock, world, patch, copy, copyFresh, working, lastSlowAt, points,
                 recent, subVars, run>>

\* json.Marshal refuses the snapshot and the pass ends early.
MarshalFails(l) ==
  /\ At(l, "store", "wait")
  /\ EndPass(l)
  /\ UNCHANGED <<loops, clock, world, sharedVars, recent, subVars, run>>

\* broadcast: every subscriber's mailbox gets the new snapshot.
Broadcast(l) ==
  /\ At(l, "broadcast", "wait")
  /\ chan' = [c \in Clients |-> IF c \in subs THEN copy[l] ELSE chan[c]]
  /\ EndPass(l)
  /\ UNCHANGED <<loops, clock, world, sharedVars, recent, subs, seen, run>>

\* Mutant of Exit: a parked loop does not look at the cancellation.
ExitIfWatched(l) ==
  /\ run = "stopping"
  /\ l # "fast" => HasDemand
  /\ At(l, "wait", "done")
  /\ UNCHANGED <<loops, clock, world, patch, copy, copyFresh, sharedVars, recent, subVars, run>>

\* A cancelled loop leaves the next time it would wait.
Exit(l) ==
  /\ run = "stopping"
  /\ At(l, "wait", "done")
  /\ UNCHANGED <<loops, clock, world, patch, copy, copyFresh, sharedVars, recent, subVars, run>>

\* Stop: cancel the loops; one whose timer has fired as well may still make a
\* pass, since select picks either ...
Stop ==
  /\ run = "running"
  /\ run' = "stopping"
  /\ \E S \in SUBSET {l \in loops : pc[l] = "wait" /\ (l # "fast" => HasDemand)} :
       pc' = [l \in AllLoops |-> IF l \in S THEN "collect" ELSE pc[l]]
  /\ UNCHANGED <<loops, clock, world, patch, copy, copyFresh, sharedVars, recent, subVars>>

\* Mutant of CloseInner: the collector is closed without waiting.
CloseInnerAtOnce ==
  /\ run = "stopping"
  /\ run' = "closed"
  /\ UNCHANGED <<loops, clock, world, laneVars, sharedVars, recent, subVars>>

\* ... wait for all of them, and close the platform collector.
CloseInner ==
  /\ run = "stopping"
  /\ \A l \in loops : pc[l] = "done"
  /\ run' = "closed"
  /\ UNCHANGED <<loops, clock, world, laneVars, sharedVars, recent, subVars>>

-----------------------------------------------------------------------------
\* Collect, for /api/metrics and /readyz: it only leaves a mark of demand.
Request ==
  /\ recent' = TRUE
  /\ UNCHANGED <<loops, clock, world, laneVars, sharedVars, subVars, run>>

\* Mutant of Subscribe: the new channel is not seeded.
SubscribeUnseeded(c) ==
  /\ c \notin subs
  /\ subs' = subs \cup {c}
  /\ recent' = TRUE
  /\ chan' = [chan EXCEPT ![c] = None]
  /\ seen' = [seen EXCEPT ![c] = None]
  /\ UNCHANGED <<loops, clock, world, laneVars, sharedVars, run>>

\* Subscribe: a new channel, seeded with the published snapshot if there is one.
Subscribe(c) ==
  /\ c \notin subs
  /\ subs' = subs \cup {c}
  /\ recent' = TRUE
  /\ chan' = [chan EXCEPT ![c] = snapshot]
  /\ seen' = [seen EXCEPT ![c] = None]
  /\ UNCHANGED <<loops, clock, world, laneVars, sharedVars, run>>

\* The handler takes the waiting snapshot and writes it to the client.
Receive(c) ==
  /\ c \in subs
  /\ chan[c] # None
  /\ seen' = [seen EXCEPT ![c] = chan[c]]
  /\ chan' = [chan EXCEPT ![c] = None]
  /\ UNCHANGED <<loops, clock, world, laneVars, sharedVars, recent, subs, run>>

\* The client disconnects or a write fails: the deferred cancel deletes the
\* subscriber and closes its channel.
Unsubscribe(c) ==
  /\ c \in subs
  /\ subs' = subs \ {c}
  /\ chan' = [chan EXCEPT ![c] = None]
  /\ seen' = [seen EXCEPT ![c] = None]
  /\ UNCHANGED <<loops, clock, world, laneVars, sharedVars, recent, run>>

-----------------------------------------------------------------------------
\* Time passes, measured quantities change, and demand ages out.
Tick ==
  /\ clock < MaxClock
  /\ clock' = clock + 1
  /\ UNCHANGED <<loops, world, laneVars, sharedVars, recent, subVars, run>>

WorldChanges ==
  /\ world < MaxReading
  /\ world' = world + 1
  /\ UNCHANGED <<loops, clock, laneVars, sharedVars, recent, subVars, run>>

DemandAges ==
  /\ recent
  /\ recent' = FALSE
  /\ UNCHANGED <<loops, clock, world, laneVars, sharedVars, subVars, run>>

\* What a loop does between waking up and waiting again.
Pass(l) ==
  \/ Collect(l) \/ Merge(l) \/ ObserveHistory(l) \/ Store(l) \/ Broadcast(l)
  \/ l = "whole" /\ (CollectWhole \/ CollectWholeFails)

Loop(l) == Wake(l) \/ Pass(l) \/ MarshalFails(l) \/ Exit(l)

Next ==
  \/ Start \/ Stop \/ CloseInner
  \/ \E l \in loops : Loop(l)
  \/ Request
  \/ \E c \in Clients : Subscribe(c) \/ Receive(c) \/ Unsubscribe(c)
  \/ Tick \/ DemandAges \/ WorldChanges

Spec == Init /\ [][Next]_vars

(***************************************************************************)
(* Fairness: the Go scheduler runs every loop that can go on, collections  *)
(* return (they are bounded by timeouts), and a handler that stays         *)
(* connected reads its channel.  json.Marshal may refuse a snapshot, but   *)
(* not every snapshot for ever, hence the strong fairness of Store.        *)
(***************************************************************************)
FairLoop(l) ==
  /\ WF_vars(Wake(l)) /\ WF_vars(Pass(l)) /\ WF_vars(Exit(l))
  /\ SF_vars(Store(l))

FairSpec ==
  /\ Spec
  /\ \A l \in UNION Platforms : FairLoop(l)
  /\ \A c \in Clients : WF_vars(Receive(c))
  /\ WF_vars(CloseInner)

-----------------------------------------------------------------------------
Publishing(l) == pc[l] = "broadcast"

\* No subscriber is left without a first snapshot: once one is published and
\* no broadcast of it is under way, whoever is subscribed holds one or has
\* read one, however Subscribe fell between a loop's store and its broadcast.
NoSubscriberLeftOut ==
  snapshot # None /\ (\A l \in loops : ~Publishing(l))
    => \A c \in subs : chan[c] # None \/ seen[c] # None

\* A parked slow lane shows as a gap in the history: a slow reading is only
\* recorded in a bucket that starts within the fresh window of a slow pass.
ParkedLaneLeavesGap ==
  "whole" \notin loops =>
    \A i \in DOMAIN points :
      points[i].gpu # Nil => points[i].t <= lastSlowAt + FreshWindow

\* Stop waits for every loop before it closes the platform collector, so no
\* loop takes a step on a closed collector.
NothingSampledAfterClose == [][run = "closed" => UNCHANGED pc]_vars

\* Whatever is measured while a client is connected reaches that client, in
\* spite of parking, of overlapping publications and of replaced messages.
ReadingReachesClient ==
  \A c \in Clients, f \in Fields \cap UNION Platforms, v \in 1 .. MaxReading :
    (f \in loops /\ run = "running" /\ c \in subs /\ world >= v)
      ~> (\/ run # "running" \/ c \notin subs
          \/ seen[c] # None /\ seen[c].read[f] >= v)

\* When nobody watches any more, the loops that cost something come to rest
\* (the promise of samplerIdleAfter).
IdleLoopsPark ==
  \A l \in (UNION Platforms) \ {"fast"} : <>[]~HasDemand => <>[](pc[l] \in {"off", "wait", "done"})

\* The fast loop never parks: as long as the agent runs it keeps publishing,
\* with or without demand, so /readyz never finds a stale timestamp.
FastNeverParks ==
  "fast" \in loops => (run = "running" ~> (Publishing("fast") \/ run # "running"))

\* Stop returns: every loop notices the cancellation.
StopCompletes == run = "stopping" ~> run = "closed"

\* The ring that /api/history serves stays ordered and within its retention
\* although loops fold snapshots in concurrently and out of order.
HistoryWellFormed == InOrder(points) /\ (points # <<>> => InWindow(points))

-----------------------------------------------------------------------------
(***************************************************************************)
(* A claim of a comment that the code does not keep (see the README).      *)
(***************************************************************************)
\* metricsHistory: CPU and memory "history is complete for as long as the
\* agent has run".  On a clock that never steps back a bucket would only be
\* dropped by leaving the retention window.
HistoryComplete ==
  [][\A i \in DOMAIN points :
       \/ \E j \in DOMAIN points' : points'[j].t = points[i].t
       \/ points[i].t <= Newest(points') - Keep]_vars
=============================================================================

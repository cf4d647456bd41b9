--------------------------- MODULE SamplerProofs ---------------------------
(***************************************************************************)
(* Sampler, for every platform, number of clients, clock, reading and      *)
(* history size: its state is well-formed, every subscriber gets a first   *)
(* snapshot, the history ring stays ordered and within its retention, a    *)
(* parked loop leaves no points, and nothing samples once the platform     *)
(* collector is closed.                                                    *)
(***************************************************************************)
EXTENDS Sampler, HistoryBucketsProofs

\* Start finds every loop off, and Stop closes only when all are done.
NewMeansOff == run = "new" => \A l \in AllLoops : pc[l] = "off"
ClosedMeansDone == run = "closed" => \A l \in loops : pc[l] = "done"

IInv ==
  /\ TypeOK
  /\ NewMeansOff
  /\ ClosedMeansDone
  /\ NoSubscriberLeftOut
  /\ HistoryWellFormed

Times == 0 .. MaxClock
Values == Readings \cup {Nil}

LEMMA LoopsAreLoops == Platforms \subseteq SUBSET AllLoops
  BY PlatformsAssumption DEF AllLoops, Fields

LEMMA BucketInTimes ==
  ASSUME NEW ts \in Times
  PROVE  BucketOf(ts) \in Times /\ BucketOf(ts) <= ts
<1>1. ts % Step \in 0 .. ts
  BY StepAssumption DEF Times
<1> QED
  BY <1>1, BoundsAssumption DEF BucketOf, Times

LEMMA InitIInv == Init => IInv
<1> SUFFICES ASSUME Init PROVE IInv
  OBVIOUS
<1>1. TypeOK
  <2>1. clock \in 1 .. MaxClock /\ world \in 1 .. MaxReading
    BY BoundsAssumption DEF Init
  <2>2. Warming \in Snapshots /\ 0 \in Readings
    BY BoundsAssumption DEF Warming, Snapshots, Readings
  <2>3. points \in Seq([t : 0 .. MaxClock, cpu : Readings \cup {Nil},
                       gpu : Readings \cup {Nil}])
    BY DEF Init
  <2>4. 0 \in 0 .. MaxClock
    BY BoundsAssumption
  <2> HIDE DEF Readings, Snapshots, Warming
  <2> QED
    BY <2>1, <2>2, <2>3, <2>4 DEF Init, TypeOK, LaneSteps
<1>2. NewMeansOff /\ ClosedMeansDone /\ NoSubscriberLeftOut
  BY DEF Init, NewMeansOff, ClosedMeansDone, NoSubscriberLeftOut
<1>3. HistoryWellFormed
  BY DEF Init, HistoryWellFormed, InOrder
<1> QED
  BY <1>1, <1>2, <1>3 DEF IInv

-----------------------------------------------------------------------------
\* Everything but the ring: no action but ObserveHistory touches it.
Ringless ==
  /\ loops \in Platforms
  /\ clock \in 1 .. MaxClock
  /\ world \in 1 .. MaxReading
  /\ pc \in [AllLoops -> LaneSteps]
  /\ patch \in [AllLoops -> Readings]
  /\ copy \in [AllLoops -> Snapshots]
  /\ copyFresh \in [AllLoops -> BOOLEAN]
  /\ working \in Snapshots
  /\ lastSlowAt \in 0 .. MaxClock
  /\ snapshot \in Snapshots \cup {None}
  /\ recent \in BOOLEAN
  /\ subs \subseteq Clients
  /\ chan \in [Clients -> Snapshots \cup {None}]
  /\ seen \in [Clients -> Snapshots \cup {None}]
  /\ run \in {"new", "running", "stopping", "closed"}

RingOK == points \in Seq(PointOf(Times, Values)) /\ HistoryWellFormed

LEMMA IInvSplit ==
  IInv <=> Ringless /\ RingOK /\ NewMeansOff /\ ClosedMeansDone /\ NoSubscriberLeftOut
  BY DEF IInv, TypeOK, Ringless, RingOK, PointOf, Times, Values

\* A snapshot's fields, for the steps that build or take one apart.
LEMMA SnapshotFields ==
  ASSUME NEW s \in Snapshots
  PROVE  /\ s.ts \in Times
         /\ s.read \in [Fields -> Readings]
  BY DEF Snapshots, Times

LEMMA WarmingIsSnapshot == Warming \in Snapshots /\ 0 \in Readings
  BY BoundsAssumption DEF Warming, Snapshots, Readings

LEMMA EndPassTypes ==
  ASSUME Ringless, NEW l \in AllLoops, EndPass(l)
  PROVE  /\ patch' \in [AllLoops -> Readings]
         /\ copy' \in [AllLoops -> Snapshots]
         /\ copyFresh' \in [AllLoops -> BOOLEAN]
  BY WarmingIsSnapshot DEF Ringless, EndPass

\* Each step keeps the types of everything but the ring.
LEMMA StepRingless == IInv /\ [Next]_vars => Ringless'
<1> SUFFICES ASSUME IInv, [Next]_vars PROVE Ringless'
  OBVIOUS
<1>0. Ringless
  BY IInvSplit
<1>l. \A l \in loops : l \in AllLoops
  BY <1>0, LoopsAreLoops DEF Ringless
<1> USE DEF sharedVars, subVars, laneVars, LaneSteps
<1>1. CASE Start
  BY <1>0, <1>1 DEF Start, Ringless
<1>2. CASE Stop \/ CloseInner
  BY <1>0, <1>l, <1>2 DEF Stop, CloseInner, Ringless
<1>3. ASSUME NEW l \in loops, Loop(l) PROVE Ringless'
  <2> USE <1>l
  <2>1. CASE Wake(l) \/ Exit(l)
    BY <1>0, <2>1 DEF Wake, Exit, At, Ringless
  <2>2. CASE Collect(l)
    <3>1. world \in Readings
      BY <1>0, BoundsAssumption DEF Ringless, Readings
    <3> QED
      BY <1>0, <2>2, <3>1 DEF Collect, At, Ringless
  <2>3. CASE Merge(l)
    <3> DEFINE merged == [ts |-> clock, read |-> [working.read EXCEPT ![l] = patch[l]]]
    <3>1. merged \in Snapshots
      <4>1. clock \in 0 .. MaxClock /\ patch[l] \in Readings
        BY <1>0, BoundsAssumption DEF Ringless
      <4>2. working.read \in [Fields -> Readings]
        BY <1>0, SnapshotFields DEF Ringless
      <4>3. [working.read EXCEPT ![l] = patch[l]] \in [Fields -> Readings]
        BY <4>1, <4>2
      <4> HIDE DEF Readings
      <4> QED
        BY <4>1, <4>3 DEF Snapshots
    <3> HIDE DEF merged
    <3>2. working' = merged /\ copy' = [copy EXCEPT ![l] = merged]
      BY <2>3 DEF Merge, merged
    <3>3. lastSlowAt' \in 0 .. MaxClock
      BY <1>0, <2>3, BoundsAssumption DEF Merge, Ringless
    <3>4. /\ UNCHANGED <<loops, clock, world, patch, snapshot, recent, subs, chan, seen, run>>
          /\ pc' \in [AllLoops -> LaneSteps]
      BY <1>0, <2>3 DEF Merge, At, Ringless
    <3>5. copyFresh' \in [AllLoops -> BOOLEAN]
      BY <1>0, <2>3, Zenon DEF Merge, Ringless
    <3> QED
      BY <1>0, <3>1, <3>2, <3>3, <3>4, <3>5 DEF Ringless
  <2>4. CASE ObserveHistory(l)
    BY <1>0, <2>4 DEF ObserveHistory, At, Ringless
  <2>5. CASE Store(l)
    BY <1>0, <2>5 DEF Store, At, Ringless
  <2>6. CASE MarshalFails(l)
    <3>1. EndPass(l)
      BY <2>6 DEF MarshalFails
    <3> QED
      BY <1>0, <2>6, <3>1, EndPassTypes DEF MarshalFails, At, Ringless
  <2>7. CASE Broadcast(l)
    <3>1. EndPass(l)
      BY <2>7 DEF Broadcast
    <3> QED
      BY <1>0, <2>7, <3>1, EndPassTypes DEF Broadcast, At, Ringless
  <2>8. CASE CollectWhole
    <3> DEFINE all == [ts |-> clock,
                       read |-> [f \in Fields |-> IF f = "device" THEN patch[f] ELSE world]]
    <3>1. all \in Snapshots
      <4>1. clock \in 0 .. MaxClock /\ world \in Readings
            /\ patch["device"] \in Readings
        BY <1>0, BoundsAssumption DEF Ringless, Readings, AllLoops, Fields
      <4>2. [f \in Fields |-> IF f = "device" THEN patch[f] ELSE world]
              \in [Fields -> Readings]
        BY <4>1
      <4> QED
        BY <4>1, <4>2 DEF Snapshots
    <3>2. "whole" \in AllLoops
      BY DEF AllLoops
    <3> HIDE DEF all
    <3>3. copy' = [copy EXCEPT !["whole"] = all]
      BY <2>8 DEF CollectWhole, all
    <3> QED
      BY <1>0, <2>8, <3>1, <3>2, <3>3 DEF CollectWhole, At, Ringless
  <2>9. CASE CollectWholeFails
    BY <1>0, <2>9 DEF CollectWholeFails, At, Ringless
  <2> QED
    BY <1>3, <2>1, <2>2, <2>3, <2>4, <2>5, <2>6, <2>7, <2>8, <2>9 DEF Loop, Pass
<1>4. CASE Request \/ DemandAges
  BY <1>0, <1>4 DEF Request, DemandAges, Ringless
<1>5. ASSUME NEW c \in Clients, Subscribe(c) \/ Receive(c) \/ Unsubscribe(c)
      PROVE Ringless'
  BY <1>0, <1>5 DEF Subscribe, Receive, Unsubscribe, Ringless
<1>6. CASE Tick
  BY <1>0, <1>6, BoundsAssumption DEF Tick, Ringless
<1>7. CASE WorldChanges
  BY <1>0, <1>7, BoundsAssumption DEF WorldChanges, Ringless
<1>8. CASE UNCHANGED vars
  BY <1>0, <1>8 DEF vars, Ringless
<1> QED
  BY <1>1, <1>2, <1>3, <1>4, <1>5, <1>6, <1>7, <1>8 DEF Next

-----------------------------------------------------------------------------
\* What a loop folds into the history.
Observed(l) == [ts |-> copy[l].ts,
                cpu |-> Countable(copy[l].read["fast"]),
                gpu |-> Countable(copy[l].read["slow"])]

LEMMA ObservedTypes ==
  ASSUME Ringless, NEW l \in AllLoops
  PROVE  /\ Observed(l).ts \in Times /\ BucketOf(Observed(l).ts) \in Times
         /\ Observed(l).cpu \in Values /\ Observed(l).gpu \in Values
<1>1. copy[l] \in Snapshots
  BY DEF Ringless
<1>2. copy[l].ts \in Times /\ copy[l].read["fast"] \in Readings
      /\ copy[l].read["slow"] \in Readings
  BY <1>1, SnapshotFields DEF Fields
<1> QED
  BY <1>2, BucketInTimes DEF Observed, Countable, Values

LEMMA NumbersAreIntegers == Times \subseteq Int /\ Values \subseteq Int /\ Nil \in Values
  BY BoundsAssumption DEF Times, Values, Readings, Nil

\* Each step keeps the ring well-formed; only ObserveHistory changes it.
LEMMA StepRing == IInv /\ [Next]_vars => RingOK'
<1> SUFFICES ASSUME IInv, [Next]_vars PROVE RingOK'
  OBVIOUS
<1>0. Ringless /\ RingOK
  BY IInvSplit
<1>1. ASSUME NEW l \in loops, ObserveHistory(l) PROVE RingOK'
  <2> DEFINE m == Observed(l)
             P == PointOf(Times, Values)
  <2>1. l \in AllLoops
    BY <1>0, LoopsAreLoops DEF Ringless
  <2>2. m.ts \in Times /\ BucketOf(m.ts) \in Times /\ m.cpu \in Values /\ m.gpu \in Values
    BY <1>0, <2>1, ObservedTypes
  <2>3. points' = Observe(points, m, copyFresh[l])
    BY <1>1 DEF ObserveHistory, Observed
  <2> HIDE DEF m
  <2>4. EmptyPoint(BucketOf(m.ts)) \in P
    BY <2>2, NumbersAreIntegers DEF EmptyPoint, PointOf
  <2>5. \A p \in P : Raised(p, m, copyFresh[l]) \in P
    BY <2>2 DEF Raised, Peak, PointOf
  <2>6. Timed(P) /\ P \subseteq PointOf(Int, Int) /\ BucketOf(m.ts) \in Int
    BY <2>2, NumbersAreIntegers DEF Timed, PointOf
  <2> HIDE DEF P
  <2>7. /\ Observe(points, m, copyFresh[l]) \in Seq(P)
        /\ InOrder(Observe(points, m, copyFresh[l]))
        /\ Observe(points, m, copyFresh[l]) # <<>> => InWindow(Observe(points, m, copyFresh[l]))
    <3>1. points \in Seq(P) /\ InOrder(points) /\ (points # <<>> => InWindow(points))
      BY <1>0 DEF RingOK, HistoryWellFormed, P
    <3> QED
      BY <3>1, <2>4, <2>5, <2>6, ObserveKeepsRing
  <2> QED
    BY <2>3, <2>7 DEF RingOK, HistoryWellFormed, P
<1>2. CASE UNCHANGED points
  BY <1>0, <1>2 DEF RingOK, HistoryWellFormed
<1>3. (\E l \in loops : ObserveHistory(l)) \/ UNCHANGED points
  BY DEF Next, Loop, Pass, vars, sharedVars, Start, Stop, CloseInner, Wake, Collect, Merge,
         Store, Broadcast, CollectWhole, CollectWholeFails, MarshalFails, Exit, Request,
         Subscribe, Receive, Unsubscribe, Tick, DemandAges, WorldChanges
<1> QED
  BY <1>1, <1>2, <1>3

LEMMA StepPhases == IInv /\ [Next]_vars => (NewMeansOff /\ ClosedMeansDone)'
<1> SUFFICES ASSUME IInv, [Next]_vars PROVE (NewMeansOff /\ ClosedMeansDone)'
  OBVIOUS
<1>0. Ringless /\ NewMeansOff /\ ClosedMeansDone
  BY IInvSplit
<1> USE DEF NewMeansOff, ClosedMeansDone
\* A loop only steps while the sampler is running or stopping.
<1>1. ASSUME NEW l \in loops, Loop(l) PROVE run' = run /\ run \notin {"new", "closed"}
  <2>1. pc[l] \notin {"off", "done"} /\ run' = run
    BY <1>1 DEF Loop, Pass, Wake, Collect, Merge, ObserveHistory, Store, Broadcast,
                CollectWhole, CollectWholeFails, MarshalFails, Exit, At
  <2> QED
    BY <1>0, <2>1, LoopsAreLoops DEF Ringless
<1>2. ASSUME NEW l \in loops, Loop(l) PROVE (NewMeansOff /\ ClosedMeansDone)'
  BY <1>1, <1>2
<1>3. CASE Start \/ Stop \/ CloseInner
  BY <1>0, <1>3, LoopsAreLoops DEF Ringless, Start, Stop, CloseInner, laneVars
<1>4. CASE UNCHANGED <<loops, pc, run>>
  BY <1>0, <1>4
<1>5. \/ \E l \in loops : Loop(l)
      \/ Start \/ Stop \/ CloseInner
      \/ UNCHANGED <<loops, pc, run>>
  BY DEF Next, vars, laneVars, Request, Subscribe, Receive, Unsubscribe, Tick, DemandAges,
         WorldChanges
<1> QED
  BY <1>2, <1>3, <1>4, <1>5

\* A publication under way will reach every subscriber; once it is over each
\* of them holds it, and a later subscriber is seeded.
LEMMA StepSubscribers == IInv /\ [Next]_vars => NoSubscriberLeftOut'
<1> SUFFICES ASSUME IInv, [Next]_vars PROVE NoSubscriberLeftOut'
  OBVIOUS
<1>0. Ringless /\ NewMeansOff /\ NoSubscriberLeftOut
  BY IInvSplit
<1>l. \A l \in loops : l \in AllLoops
  BY <1>0, LoopsAreLoops DEF Ringless
<1> USE DEF NoSubscriberLeftOut, Publishing
<1>1. ASSUME NEW l \in loops, Broadcast(l) PROVE NoSubscriberLeftOut'
  <2>1. copy[l] # None
    BY <1>0, <1>l, NoneAssumption DEF Ringless
  <2>2. \A c \in subs' : c \in Clients /\ chan'[c] = copy[l]
    BY <1>0, <1>1 DEF Broadcast, Ringless
  <2> QED
    BY <2>1, <2>2
<1>2. ASSUME NEW l \in loops, Store(l) PROVE NoSubscriberLeftOut'
  <2>1. pc'[l] = "broadcast" /\ loops' = loops
    BY <1>0, <1>l, <1>2 DEF Store, At, Ringless
  <2> QED
    BY <2>1
<1>3. ASSUME NEW l \in loops,
             \/ Wake(l) \/ Collect(l) \/ Merge(l) \/ ObserveHistory(l) \/ MarshalFails(l) \/ Exit(l)
             \/ l = "whole" /\ (CollectWhole \/ CollectWholeFails)
      PROVE  NoSubscriberLeftOut'
  <2>1. /\ UNCHANGED <<loops, snapshot, subs, chan, seen>>
        /\ pc[l] # "broadcast"
        /\ \A k \in AllLoops : k # l => pc'[k] = pc[k]
    BY <1>0, <1>l, <1>3
    DEF Ringless, sharedVars, subVars, At, Wake, Collect, Merge, ObserveHistory,
        MarshalFails, Exit, CollectWhole, CollectWholeFails
  <2> QED
    BY <1>0, <1>l, <2>1
<1>4. CASE Start
  BY <1>0, <1>4, <1>l DEF Start, Ringless, NewMeansOff, sharedVars, subVars
<1>5. ASSUME NEW c \in Clients, Subscribe(c) PROVE NoSubscriberLeftOut'
  <2>1. /\ subs' = subs \cup {c} /\ UNCHANGED <<loops, pc, snapshot>>
        /\ chan'[c] = snapshot
        /\ \A d \in Clients \ {c} : chan'[d] = chan[d] /\ seen'[d] = seen[d]
    BY <1>0, <1>5 DEF Subscribe, Ringless, laneVars, sharedVars
  <2> QED
    BY <1>0, <2>1 DEF Ringless
<1>6. ASSUME NEW c \in Clients, Receive(c) PROVE NoSubscriberLeftOut'
  <2>1. /\ UNCHANGED <<loops, pc, snapshot, subs>>
        /\ seen'[c] = chan[c] /\ chan[c] # None
        /\ \A d \in Clients \ {c} : chan'[d] = chan[d] /\ seen'[d] = seen[d]
    BY <1>0, <1>6 DEF Receive, Ringless, laneVars, sharedVars
  <2> QED
    BY <1>0, <2>1 DEF Ringless
<1>7. ASSUME NEW c \in Clients, Unsubscribe(c) PROVE NoSubscriberLeftOut'
  <2>1. /\ UNCHANGED <<loops, pc, snapshot>> /\ subs' = subs \ {c}
        /\ \A d \in Clients \ {c} : chan'[d] = chan[d] /\ seen'[d] = seen[d]
    BY <1>0, <1>7 DEF Unsubscribe, Ringless, laneVars, sharedVars
  <2> QED
    BY <1>0, <2>1 DEF Ringless
<1>8. CASE UNCHANGED <<loops, pc, snapshot, subs, chan, seen>>
  BY <1>0, <1>8
<1>s. CASE Stop
  <2>1. UNCHANGED <<loops, snapshot, subs, chan, seen>>
    BY <1>s DEF Stop, sharedVars, subVars
  <2>2. \A l \in loops : pc[l] = "broadcast" <=> pc'[l] = "broadcast"
    BY <1>0, <1>l, <1>s DEF Stop, Ringless
  <2> QED
    BY <1>0, <2>1, <2>2
<1>9. \/ \E l \in loops : Loop(l)
      \/ Start \/ Stop
      \/ \E c \in Clients : Subscribe(c) \/ Receive(c) \/ Unsubscribe(c)
      \/ UNCHANGED <<loops, pc, snapshot, subs, chan, seen>>
  BY DEF Next, vars, laneVars, sharedVars, subVars, CloseInner, Request, Tick,
         DemandAges, WorldChanges
<1> HIDE DEF NoSubscriberLeftOut, Publishing
<1>10. ASSUME NEW l \in loops, Loop(l) PROVE NoSubscriberLeftOut'
  <2>1. CASE Broadcast(l)
    BY <1>1, <2>1
  <2>2. CASE Store(l)
    BY <1>2, <2>2
  <2>3. CASE \/ Wake(l) \/ Collect(l) \/ Merge(l) \/ ObserveHistory(l) \/ MarshalFails(l) \/ Exit(l)
             \/ l = "whole" /\ (CollectWhole \/ CollectWholeFails)
    BY <1>3, <2>3
  <2> QED
    BY <1>10, <2>1, <2>2, <2>3 DEF Loop, Pass
<1> QED
  BY <1>4, <1>5, <1>6, <1>7, <1>8, <1>s, <1>9, <1>10

LEMMA NextIInv == IInv /\ [Next]_vars => IInv'
<1>1. IInv' <=> (Ringless /\ RingOK /\ NewMeansOff /\ ClosedMeansDone /\ NoSubscriberLeftOut)'
  BY DEF IInv, TypeOK, Ringless, RingOK, PointOf, Times, Values
<1> QED
  BY <1>1, StepRingless, StepRing, StepPhases, StepSubscribers

-----------------------------------------------------------------------------
\* Why a parked loop leaves no points: a snapshot that counts as fresh is not
\* much later than the slow lane's last pass, which only moves forward, and
\* the points got their values from such snapshots.
SlowNotAhead == lastSlowAt <= clock
FreshAreRecent ==
  \A l \in loops : copyFresh[l] => copy[l].ts <= lastSlowAt + FreshWindow
GapPoints(limit) == {p \in PointOf(Times, Values) : p.gpu # Nil => p.t <= limit}

GapInv ==
  "whole" \notin loops =>
    /\ SlowNotAhead
    /\ FreshAreRecent
    /\ points \in Seq(GapPoints(lastSlowAt + FreshWindow))

LEMMA GapPointsGrow ==
  ASSUME NEW a \in Int, NEW b \in Int, a <= b, NEW s \in Seq(GapPoints(a))
  PROVE  s \in Seq(GapPoints(b))
<1>1. GapPoints(a) \subseteq GapPoints(b)
  <2> SUFFICES ASSUME NEW p \in GapPoints(a) PROVE p \in GapPoints(b)
    OBVIOUS
  <2>1. p \in PointOf(Times, Values) /\ (p.gpu # Nil => p.t <= a)
    BY DEF GapPoints
  <2>2. p.t \in Int
    BY <2>1, NumbersAreIntegers DEF PointOf
  <2>3. p.t <= a => p.t <= b
    BY <2>2
  <2> QED
    BY <2>1, <2>3 DEF GapPoints
<1> QED
  BY <1>1, SeqMonotonic

LEMMA InitGap == Init => GapInv
<1> SUFFICES ASSUME Init PROVE GapInv
  OBVIOUS
<1>1. SlowNotAhead /\ points = <<>>
  BY DEF Init, SlowNotAhead
<1>2. \A l \in loops : ~ copyFresh[l]
  BY LoopsAreLoops DEF Init
<1> QED
  BY <1>1, <1>2 DEF GapInv, FreshAreRecent

\* The lanes' first critical section: freshness is judged by its own clock.
LEMMA MergeGap ==
  ASSUME IInv, GapInv, "whole" \notin loops, NEW l \in loops, Merge(l)
  PROVE  GapInv'
<1>0. Ringless /\ l \in AllLoops /\ lastSlowAt \in Int /\ clock \in Int /\ FreshWindow \in Int
  BY IInvSplit, LoopsAreLoops, BoundsAssumption DEF Ringless
<1>1. /\ UNCHANGED <<loops, clock, points>>
      /\ lastSlowAt' = IF l = "slow" THEN clock ELSE lastSlowAt
      /\ copyFresh' = [copyFresh EXCEPT ![l] = lastSlowAt' # 0 /\ clock - lastSlowAt' <= FreshWindow]
  BY DEF Merge
<1>2. copy'[l].ts = clock /\ \A k \in AllLoops \ {l} : copy'[k] = copy[k]
  BY <1>0 DEF Merge, Ringless
<1>3. lastSlowAt' \in Int /\ lastSlowAt <= lastSlowAt' /\ lastSlowAt' <= clock
  BY <1>0, <1>1 DEF GapInv, SlowNotAhead
<1>4. ASSUME NEW k \in loops, copyFresh'[k] PROVE copy'[k].ts <= lastSlowAt' + FreshWindow
  <2>1. k \in AllLoops /\ copy[k].ts \in Int
    <3>1. k \in AllLoops /\ copy[k] \in Snapshots
      BY <1>0, LoopsAreLoops DEF Ringless
    <3> QED
      BY <3>1, SnapshotFields, NumbersAreIntegers
  <2>2. CASE k = l
    <3>0. copyFresh \in [AllLoops -> BOOLEAN] /\ l \in AllLoops
      BY <1>0 DEF Ringless
    <3>1. clock - lastSlowAt' <= FreshWindow
      BY <1>1, <1>4, <2>2, <3>0, Zenon
    <3>2. clock <= lastSlowAt' + FreshWindow
      <4>1. \A a, b, c \in Int : a - b <= c => a <= b + c
        OBVIOUS
      <4> QED
        BY <1>0, <1>3, <3>1, <4>1, Zenon
    <3> QED
      BY <1>2, <2>2, <3>2
  <2>3. CASE k # l
    <3>1. copyFresh[k]
      BY <1>0, <1>1, <1>4, <2>1, <2>3 DEF Ringless
    <3> QED
      BY <1>0, <1>2, <1>3, <2>1, <2>3, <3>1 DEF GapInv, FreshAreRecent
  <2> QED
    BY <2>2, <2>3
<1>5. points \in Seq(GapPoints(lastSlowAt' + FreshWindow))
  <2>1. points \in Seq(GapPoints(lastSlowAt + FreshWindow))
    BY DEF GapInv
  <2> QED
    BY <1>0, <1>3, <2>1, GapPointsGrow
<1> QED
  BY <1>1, <1>3, <1>4, <1>5 DEF GapInv, SlowNotAhead, FreshAreRecent

\* history.observe: the bucket of a snapshot starts no later than it was taken.
LEMMA ObserveGap ==
  ASSUME IInv, GapInv, "whole" \notin loops, NEW l \in loops, ObserveHistory(l)
  PROVE  GapInv'
<1> DEFINE m == Observed(l)
           limit == lastSlowAt + FreshWindow
           P == GapPoints(limit)
<1>0. Ringless /\ RingOK /\ l \in AllLoops /\ limit \in Int
  BY IInvSplit, LoopsAreLoops, BoundsAssumption DEF Ringless
<1>1. m.ts \in Times /\ BucketOf(m.ts) \in Times /\ m.cpu \in Values /\ m.gpu \in Values
  BY <1>0, ObservedTypes
<1>2. BucketOf(m.ts) <= m.ts
  BY <1>1, BucketInTimes
<1>3. copyFresh[l] => m.ts <= limit
  <2>1. m.ts = copy[l].ts
    BY DEF Observed
  <2> HIDE DEF m
  <2> QED
    BY <2>1, Zenon DEF GapInv, FreshAreRecent
<1>4. /\ points' = Observe(points, m, copyFresh[l])
      /\ UNCHANGED <<loops, clock, lastSlowAt, copy, copyFresh>>
  BY DEF ObserveHistory, Observed
<1> HIDE DEF m, limit
<1>5. EmptyPoint(BucketOf(m.ts)) \in P
  BY <1>1, NumbersAreIntegers DEF EmptyPoint, GapPoints, PointOf
<1>6. \A p \in P : p.t = BucketOf(m.ts) => Raised(p, m, copyFresh[l]) \in P
  <2> SUFFICES ASSUME NEW p \in P, p.t = BucketOf(m.ts) PROVE Raised(p, m, copyFresh[l]) \in P
    OBVIOUS
  <2>1. p \in PointOf(Times, Values) /\ (p.gpu # Nil => p.t <= limit)
    BY DEF GapPoints
  <2> DEFINE q == Raised(p, m, copyFresh[l])
  <2>2. q \in PointOf(Times, Values) /\ q.t = p.t /\ (copyFresh[l] \/ q.gpu = p.gpu)
    BY <1>1, <2>1 DEF Raised, Peak, PointOf
  <2>3. m.ts <= limit => p.t <= limit
    <3>1. m.ts \in Int /\ BucketOf(m.ts) \in Int /\ limit \in Int
      BY <1>0, <1>1, NumbersAreIntegers
    <3> QED
      BY <1>2, <3>1
  <2> HIDE DEF q
  <2>4. q \in P
    BY <1>3, <2>1, <2>2, <2>3 DEF GapPoints
  <2> QED
    BY <2>4 DEF q
<1>7. Timed(P) /\ P \subseteq PointOf(Int, Int) /\ BucketOf(m.ts) \in Int
  BY <1>1, NumbersAreIntegers DEF Timed, GapPoints, PointOf
<1>8. points \in Seq(P) /\ InOrder(points) /\ (points # <<>> => InWindow(points))
  BY <1>0 DEF RingOK, HistoryWellFormed, GapInv, limit
<1> HIDE DEF P
<1>9. Observe(points, m, copyFresh[l]) \in Seq(P)
  BY <1>5, <1>6, <1>7, <1>8, ObserveKeepsRing
<1> QED
  BY <1>4, <1>9 DEF GapInv, SlowNotAhead, FreshAreRecent, P, limit

LEMMA NextGap == IInv /\ GapInv /\ [Next]_vars => GapInv'
<1> SUFFICES ASSUME IInv, GapInv, [Next]_vars, "whole" \notin loops' PROVE GapInv'
  BY DEF GapInv
<1>0. Ringless
  BY IInvSplit
<1>l. \A l \in loops : l \in AllLoops
  BY <1>0, LoopsAreLoops DEF Ringless
<1>1. UNCHANGED loops
  BY DEF Next, Loop, Pass, vars, Start, Stop, CloseInner, Wake, Collect, Merge,
         ObserveHistory, Store, Broadcast, CollectWhole, CollectWholeFails, MarshalFails, Exit,
         Request, Subscribe, Receive, Unsubscribe, Tick, DemandAges, WorldChanges
<1>2. CASE \E l \in loops : Merge(l)
  BY <1>1, <1>2, MergeGap
<1>3. CASE \E l \in loops : ObserveHistory(l)
  BY <1>1, <1>3, ObserveGap
<1>4. ASSUME NEW l \in loops, Broadcast(l) \/ MarshalFails(l) PROVE GapInv'
  <2>1. UNCHANGED <<clock, lastSlowAt, points>> /\ EndPass(l)
    BY <1>4 DEF Broadcast, MarshalFails, sharedVars
  <2>2. \A k \in loops : copyFresh'[k] => copyFresh[k] /\ copy'[k] = copy[k]
    BY <1>0, <1>l, <2>1 DEF EndPass, Ringless
  <2> QED
    BY <1>1, <2>1, <2>2 DEF GapInv, SlowNotAhead, FreshAreRecent
<1>5. CASE Tick
  <2>1. clock \in Int /\ lastSlowAt \in Int /\ clock' = clock + 1
        /\ UNCHANGED <<lastSlowAt, points, copy, copyFresh>>
    BY <1>0, <1>5, BoundsAssumption DEF Tick, Ringless, laneVars, sharedVars
  <2> QED
    BY <1>1, <2>1 DEF GapInv, SlowNotAhead, FreshAreRecent
<1>6. CASE UNCHANGED <<clock, lastSlowAt, points, copy, copyFresh>>
  BY <1>1, <1>6 DEF GapInv, SlowNotAhead, FreshAreRecent
<1>7. \/ \E l \in loops : Merge(l) \/ ObserveHistory(l) \/ Broadcast(l) \/ MarshalFails(l)
      \/ Tick
      \/ UNCHANGED <<clock, lastSlowAt, points, copy, copyFresh>>
  <2>1. ASSUME NEW l \in loops, Loop(l)
        PROVE  \/ Merge(l) \/ ObserveHistory(l) \/ Broadcast(l) \/ MarshalFails(l)
               \/ UNCHANGED <<clock, lastSlowAt, points, copy, copyFresh>>
    <3>1. l # "whole"
      BY <1>1
    <3> QED
      BY <2>1, <3>1 DEF Loop, Pass, Wake, Collect, Store, Exit, sharedVars
  <2> QED
    BY <2>1 DEF Next, vars, laneVars, sharedVars, Start, Stop, CloseInner, Request, Subscribe,
                Receive, Unsubscribe, DemandAges, WorldChanges
<1> QED
  BY <1>2, <1>3, <1>4, <1>5, <1>6, <1>7

-----------------------------------------------------------------------------
\* The sampler's state stays well-formed.
THEOREM TypeCorrect == Spec => []TypeOK
<1>1. IInv => TypeOK
  BY DEF IInv
<1> QED
  BY InitIInv, NextIInv, <1>1, PTL DEF Spec

\* Whatever the number of clients and the interleaving of Subscribe with the
\* loops' two critical sections, no subscriber is left without a snapshot.
THEOREM SubscribersServed == Spec => []NoSubscriberLeftOut
<1>1. IInv => NoSubscriberLeftOut
  BY DEF IInv
<1> QED
  BY InitIInv, NextIInv, <1>1, PTL DEF Spec

\* Although loops fold snapshots in concurrently and out of order, the ring of
\* /api/history is ordered, without duplicates and within its retention.
THEOREM HistoryAlwaysWellFormed == Spec => []HistoryWellFormed
<1>1. IInv => HistoryWellFormed
  BY DEF IInv
<1> QED
  BY InitIInv, NextIInv, <1>1, PTL DEF Spec

\* While the slow loop is parked the history has no values of its quantities
\* later than slowFreshWindow after its last pass.
THEOREM GapsStayGaps == Spec => []ParkedLaneLeavesGap
<1>1. GapInv => ParkedLaneLeavesGap
  <2> SUFFICES ASSUME GapInv, "whole" \notin loops, NEW i \in DOMAIN points, points[i].gpu # Nil
               PROVE  points[i].t <= lastSlowAt + FreshWindow
    BY DEF ParkedLaneLeavesGap
  <2>1. points[i] \in GapPoints(lastSlowAt + FreshWindow)
    BY ElementOfSeq, LenProperties DEF GapInv
  <2> QED
    BY <2>1 DEF GapPoints
<1> QED
  BY InitIInv, InitGap, NextIInv, NextGap, <1>1, PTL DEF Spec

\* Stop closes the platform collector only after the last step of every loop.
THEOREM ClosedCollectorUnused == Spec => NothingSampledAfterClose
<1>1. IInv /\ [Next]_vars => [run = "closed" => UNCHANGED pc]_vars
  <2> SUFFICES ASSUME IInv, [Next]_vars, run = "closed" PROVE UNCHANGED pc
    OBVIOUS
  <2>1. \A l \in loops : pc[l] = "done"
    BY DEF IInv, ClosedMeansDone
  <2>2. ASSUME NEW l \in loops, Loop(l) PROVE FALSE
    BY <2>1, <2>2 DEF Loop, Pass, Wake, Collect, Merge, ObserveHistory, Store, Broadcast,
                      CollectWhole, CollectWholeFails, MarshalFails, Exit, At
  <2> QED
    BY <2>2 DEF Next, vars, laneVars, Start, Stop, CloseInner, Request, Subscribe, Receive,
                Unsubscribe, Tick, DemandAges, WorldChanges
<1> QED
  BY InitIInv, NextIInv, <1>1, PTL DEF Spec, NothingSampledAfterClose
=============================================================================

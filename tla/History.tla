------------------------------ MODULE History ------------------------------
(***************************************************************************)
(* metricsHistory of history.go, fed with any sequence of snapshots: the   *)
(* host clock may stand still, jump ahead (the host slept) or step back,   *)
(* readings may be missing, and the slow lane may be parked.  The variable *)
(* log is not in the program: it remembers what was observed since the     *)
(* last time the code decided that the clock had stepped backwards, and    *)
(* gives the invariants something to compare the ring with.                *)
(***************************************************************************)
EXTENDS HistoryBuckets, FiniteSetsExt

CONSTANTS MaxTime,      \* bound on timestamps
          MaxReading,   \* bound on readings
          MaxLog        \* bound on the observations remembered

\* What is assumed of the bounds.
HistoryAssumption == {MaxTime, MaxReading, MaxLog} \subseteq Nat

VARIABLES points,       \* the ring, oldest first
          log           \* the observations the ring answers for

Readings == {Nil} \cup 0 .. MaxReading

Snapshots == [ts : 0 .. MaxTime, cpu : Readings, gpu : Readings]

Points == [t : 0 .. MaxTime, cpu : Readings, gpu : Readings]

TypeOK ==
  /\ points \in Seq(Points)
  /\ log \subseteq [ts : 1 .. MaxTime, cpu : Readings, gpu : Readings]

Init == points = <<>> /\ log = {}

StepsBack(ts) == points # <<>> /\ BucketOf(ts) < Newest(points)

\* What observe counts of a snapshot: slow readings only while fresh.
Counted(m, slowFresh) == IF slowFresh THEN m ELSE [m EXCEPT !.gpu = Nil]

\* observe, called by the lanes and by the whole-collector loop.
ObserveSnapshot(m, slowFresh) ==
  /\ points' = Observe(points, m, slowFresh)
  /\ log' = IF m.ts = 0 THEN log
            ELSE (IF StepsBack(m.ts) THEN {} ELSE log) \cup {Counted(m, slowFresh)}
  /\ Cardinality(log') <= MaxLog

Next == \E m \in Snapshots, slowFresh \in BOOLEAN : ObserveSnapshot(m, slowFresh)

Spec == Init /\ [][Next]_<<points, log>>

-----------------------------------------------------------------------------
InBucket(t) == {o \in log : BucketOf(o.ts) = t}

\* Every point is the peak of exactly the snapshots of its bucket, and nil
\* where none of them carried a countable reading, however the bucket was
\* reached (the "PEAK of every snapshot" and the "gap" of the comment on
\* metricsHistory).
PointsArePeaks ==
  \A i \in DOMAIN points :
    /\ points[i].cpu = Max({Nil} \cup {o.cpu : o \in InBucket(points[i].t)})
    /\ points[i].gpu = Max({Nil} \cup {o.gpu : o \in InBucket(points[i].t)})

\* No observed bucket inside the retention window is missing, no bucket
\* outside it is kept, and none was invented: trimming happens only when a
\* bucket is appended, yet the window holds after every observation.
ExactlyTheWindow ==
  LET observed == {BucketOf(o.ts) : o \in log}
  IN  {points[i].t : i \in DOMAIN points}
        = {t \in observed : \A u \in observed : t > u - Keep}

\* Points are oldest first and at distinct times, so a client can place them
\* by T: no clock behaviour leaves a point from the future behind a newer one.
OldestFirst == InOrder(points)
=============================================================================

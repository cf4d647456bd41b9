--------------------------- MODULE HistoryBuckets ---------------------------
(***************************************************************************)
(* The arithmetic of history.go: how one published snapshot is folded into *)
(* the ring of peak buckets behind GET /api/history.  A snapshot is a      *)
(* record with a timestamp ts (0: the zero time), a fast-lane reading cpu  *)
(* (cpu and memory are treated alike) and a slow-lane reading gpu (gpu,    *)
(* network and disk are treated alike).  Rounding to two decimals is       *)
(* monotone and left out; a reading that is not finite counts as none.     *)
(***************************************************************************)
EXTENDS Integers, Sequences

CONSTANTS Step,     \* historyStep: the width of a bucket
          Keep      \* historyRetention: how far back points are kept

ASSUME StepAssumption == Step \in Nat \ {0}
ASSUME KeepAssumption == Keep \in Nat \ {0}

\* A nil field: no reading in that bucket.  Readings are non-negative.
Nil == -1

BucketOf(ts) == ts - (ts % Step)

EmptyPoint(t) == [t |-> t, cpu |-> Nil, gpu |-> Nil]

Newest(points) == points[Len(points)].t

\* peak: a nil slot takes the value, another one keeps the larger.
Peak(slot, value) == IF value > slot THEN value ELSE slot

\* Mutant of Trimmed: a point exactly one window old is kept.
TrimmedLate(points, newest) ==
  SelectSeq(points, LAMBDA p : p.t >= newest - Keep)

\* trimLocked: drop the leading points that left the retention window.  The
\* loop stops at the first point that did not, or at the end of the ring.
Trimmed(points, newest) ==
  LET stops(n) == n = Len(points) \/ points[n + 1].t > newest - Keep
      drop == CHOOSE n \in 0 .. Len(points) :
                stops(n) /\ \A m \in 0 .. n - 1 : ~stops(m)
  IN  SubSeq(points, drop + 1, Len(points))

\* The switch of observe: append a bucket, or start over when the newest
\* bucket lies ahead of the snapshot, or go on with the open one.
Opened(points, bucket) ==
  IF points = <<>> \/ Newest(points) < bucket
  THEN Trimmed(Append(points, EmptyPoint(bucket)), bucket)
  ELSE IF Newest(points) > bucket THEN <<EmptyPoint(bucket)>> ELSE points

Raised(point, m, slowFresh) ==
  [point EXCEPT !.cpu = Peak(@, m.cpu),
                !.gpu = IF slowFresh THEN Peak(@, m.gpu) ELSE @]

Observe(points, m, slowFresh) ==
  IF m.ts = 0 THEN points
  ELSE LET open == Opened(points, BucketOf(m.ts))
       IN  [open EXCEPT ![Len(open)] = Raised(@, m, slowFresh)]
-----------------------------------------------------------------------------
\* Oldest first, at distinct times, and nothing older than the window.
InOrder(points) ==
  \A i, j \in DOMAIN points : i < j => points[i].t < points[j].t
InWindow(points) ==
  \A i \in DOMAIN points : points[i].t > Newest(points) - Keep
=============================================================================

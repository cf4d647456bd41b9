------------------------ MODULE HistoryBucketsProofs ------------------------
(***************************************************************************)
(* What folding a snapshot into the history ring preserves, for every      *)
(* bucket width, retention, ring and snapshot.  P stands for whatever is   *)
(* known of the points of a ring.                                          *)
(***************************************************************************)
EXTENDS HistoryBuckets, SequenceTheorems, WellFoundedInduction, TLAPS

PointOf(T, R) == [t : T, cpu : R, gpu : R]

\* Sets of points: with integer times.
Timed(P) == \A p \in P : p.t \in Int

LEMMA PointTime ==
  ASSUME NEW P, Timed(P), NEW points \in Seq(P), NEW i \in 1 .. Len(points)
  PROVE  points[i].t \in Int
<1>1. points[i] \in P
  BY ElementOfSeq
<1> QED
  BY <1>1 DEF Timed

\* The loop of trimLocked stops somewhere, and at a first place.
LEMMA FirstStop ==
  ASSUME NEW P, NEW points \in Seq(P), NEW limit \in Int
  PROVE  LET stops(n) == n = Len(points) \/ points[n + 1].t > limit
         IN  \E n \in 0 .. Len(points) : stops(n) /\ \A m \in 0 .. n - 1 : ~stops(m)
<1> DEFINE stops(n) == n = Len(points) \/ points[n + 1].t > limit
           S == {n \in 0 .. Len(points) : stops(n)}
<1>1. Len(points) \in Nat
  OBVIOUS
<1>2. S \subseteq Nat /\ Len(points) \in S
  BY <1>1
<1>3. \E n \in S : \A m \in S : ~ (<<m, n>> \in OpToRel(<, Nat))
  <2>1. S # {}
    BY <1>2
  <2> HIDE DEF S
  <2> QED
    BY <1>2, <2>1, NatLessThanWellFounded, WFMin
<1>4. PICK n \in S : \A m \in S : ~ (<<m, n>> \in OpToRel(<, Nat))
  BY <1>3
<1>5. \A m \in 0 .. n - 1 : ~stops(m)
  <2> SUFFICES ASSUME NEW m \in 0 .. n - 1, stops(m) PROVE FALSE
    OBVIOUS
  <2>1. m \in S /\ m \in Nat /\ n \in Nat /\ m < n
    BY <1>1
  <2>2. <<m, n>> \in OpToRel(<, Nat)
    BY <2>1 DEF OpToRel
  <2> QED
    BY <1>4, <2>1, <2>2
<1> QED
  BY <1>4, <1>5

\* The points of one ring that are in another one.
KeptFrom(points, ring) ==
  \A j \in 1 .. Len(ring) : \E i \in 1 .. Len(points) : ring[j] = points[i]

\* The points of a ring inside the window of one at newest are in another one.
WindowKept(points, ring, newest) ==
  \A i \in 1 .. Len(points) : points[i].t > newest - Keep =>
    \E j \in 1 .. Len(ring) : ring[j] = points[i]

\* Trimming an ordered ring by its own newest point keeps a suffix of it that
\* ends in that point, so what is left is ordered and exactly the window.
LEMMA TrimmedRing ==
  ASSUME NEW P, Timed(P), NEW points \in Seq(P),
         InOrder(points), points # <<>>, NEW newest \in Int, Newest(points) = newest
  PROVE  /\ Trimmed(points, newest) \in Seq(P)
         /\ Trimmed(points, newest) # <<>>
         /\ Newest(Trimmed(points, newest)) = newest
         /\ InOrder(Trimmed(points, newest))
         /\ InWindow(Trimmed(points, newest))
         /\ KeptFrom(points, Trimmed(points, newest))
         /\ WindowKept(points, Trimmed(points, newest), newest)
         /\ Trimmed(points, newest)[Len(Trimmed(points, newest))] = points[Len(points)]
<1> USE KeepAssumption
<1> DEFINE stops(n) == n = Len(points) \/ points[n + 1].t > newest - Keep
           first(n) == stops(n) /\ \A m \in 0 .. n - 1 : ~stops(m)
           d == CHOOSE n \in 0 .. Len(points) : first(n)
<1>1. newest - Keep \in Int /\ Len(points) \in Nat /\ Len(points) > 0
  BY EmptySeq
<1>2. \E n \in 0 .. Len(points) : first(n)
  <2> DEFINE limit == newest - Keep
  <2>1. limit \in Int
    BY <1>1
  <2> HIDE DEF limit
  <2>2. LET s(n) == n = Len(points) \/ points[n + 1].t > limit
        IN  \E n \in 0 .. Len(points) : s(n) /\ \A m \in 0 .. n - 1 : ~s(m)
    BY <2>1, FirstStop
  <2> QED
    BY <2>2 DEF limit
<1>3. d \in 0 .. Len(points) /\ first(d)
  <2> HIDE DEF first
  <2> QED
    BY <1>2
<1>4. Trimmed(points, newest) = SubSeq(points, d + 1, Len(points))
  BY DEF Trimmed
<1> HIDE DEF d
<1>5. d # Len(points)
  <2> SUFFICES ASSUME d = Len(points) PROVE FALSE
    OBVIOUS
  <2>1. Len(points) - 1 \in 0 .. d - 1 /\ (Len(points) - 1) + 1 = Len(points)
    BY <1>1
  <2>2. ~stops(Len(points) - 1)
    BY <1>3, <2>1
  <2> QED
    BY <2>1, <2>2 DEF Newest
<1>6. d \in 0 .. Len(points) - 1 /\ points[d + 1].t > newest - Keep
  BY <1>1, <1>3, <1>5
<1>15. \A i \in 1 .. Len(points) : points[i].t > newest - Keep => i > d
  <2> SUFFICES ASSUME NEW i \in 1 .. d, points[i].t > newest - Keep PROVE FALSE
    BY <1>1, <1>6
  <2>1. i - 1 \in 0 .. d - 1 /\ (i - 1) + 1 = i
    BY <1>6
  <2>2. ~stops(i - 1)
    BY <1>3, <2>1
  <2> QED
    BY <2>1, <2>2
<1> HIDE DEF stops, first
<1>7. \A i \in d + 1 .. Len(points) : points[i] \in P
  BY <1>1, <1>6, ElementOfSeq
<1>8. /\ Trimmed(points, newest) \in Seq(P)
      /\ Len(Trimmed(points, newest)) = Len(points) - d
      /\ \A i \in 1 .. Len(points) - d : Trimmed(points, newest)[i] = points[d + i]
  <2>1. d + 1 \in Int /\ Len(points) \in Int
    BY <1>1, <1>6
  <2>2. /\ SubSeq(points, d + 1, Len(points)) \in Seq(P)
        /\ Len(SubSeq(points, d + 1, Len(points)))
             = IF d + 1 <= Len(points) THEN Len(points) - (d + 1) + 1 ELSE 0
        /\ \A i \in 1 .. Len(points) - (d + 1) + 1 :
             SubSeq(points, d + 1, Len(points))[i] = points[d + 1 + i - 1]
    BY <2>1, <1>7, SubSeqProperties
  <2> QED
    BY <1>1, <1>4, <1>6, <2>2
<1>9. \A i \in 1 .. Len(points) - d : points[d + i].t > newest - Keep
  <2> SUFFICES ASSUME NEW i \in 1 .. Len(points) - d
               PROVE  points[d + i].t > newest - Keep
    OBVIOUS
  <2>1. d + i \in 1 .. Len(points) /\ d + 1 \in 1 .. Len(points)
    BY <1>1, <1>6
  <2>2. points[d + i].t \in Int /\ points[d + 1].t \in Int
    BY <2>1, PointTime
  <2>3. CASE i = 1
    BY <2>3, <1>6
  <2>4. CASE i > 1
    <3>1. points[d + 1].t < points[d + i].t
      BY <2>1, <2>4, <1>6, LenProperties DEF InOrder
    <3> QED
      BY <1>1, <1>6, <2>2, <3>1
  <2> QED
    BY <2>3, <2>4
<1> DEFINE ring == Trimmed(points, newest)
<1> HIDE DEF ring
<1>10. /\ ring \in Seq(P) /\ DOMAIN ring = 1 .. Len(ring)
       /\ Len(ring) = Len(points) - d /\ Len(ring) \in Nat /\ Len(ring) > 0
       /\ \A i \in 1 .. Len(ring) : ring[i] = points[d + i]
  BY <1>1, <1>6, <1>8, LenProperties DEF ring
<1>11. InOrder(ring)
  <2> SUFFICES ASSUME NEW i \in 1 .. Len(ring), NEW j \in 1 .. Len(ring), i < j
               PROVE  ring[i].t < ring[j].t
    BY <1>10 DEF InOrder
  <2>1. d + i \in DOMAIN points /\ d + j \in DOMAIN points /\ d + i < d + j
    BY <1>1, <1>6, <1>10, LenProperties
  <2> QED
    BY <2>1, <1>10 DEF InOrder
<1>12. Newest(ring) = newest
  <2>1. Len(ring) \in 1 .. Len(ring) /\ d + Len(ring) = Len(points)
    BY <1>1, <1>6, <1>10
  <2> QED
    BY <2>1, <1>10 DEF Newest
<1>13. InWindow(ring)
  BY <1>9, <1>10, <1>12 DEF InWindow
<1>14. ring # <<>>
  BY <1>10
<1>16. KeptFrom(points, ring) /\ ring[Len(ring)] = points[Len(points)]
  <2>1. \A j \in 1 .. Len(ring) : d + j \in 1 .. Len(points)
    BY <1>1, <1>6, <1>10
  <2>2. Len(ring) \in 1 .. Len(ring) /\ d + Len(ring) = Len(points)
    BY <1>1, <1>6, <1>10
  <2> QED
    BY <1>10, <2>1, <2>2 DEF KeptFrom
<1>17. WindowKept(points, ring, newest)
  <2> SUFFICES ASSUME NEW i \in 1 .. Len(points), points[i].t > newest - Keep
               PROVE  \E j \in 1 .. Len(ring) : ring[j] = points[i]
    BY DEF WindowKept
  <2>1. i > d
    BY <1>15
  <2>2. i - d \in 1 .. Len(ring) /\ d + (i - d) = i
    BY <1>1, <1>6, <1>10, <2>1
  <2> QED
    BY <1>10, <2>2
<1> QED
  BY <1>10, <1>11, <1>12, <1>13, <1>14, <1>16, <1>17 DEF ring

-----------------------------------------------------------------------------
\* A new bucket behind an ordered ring.
LEMMA AppendedRing ==
  ASSUME NEW P, Timed(P), NEW points \in Seq(P), InOrder(points),
         NEW new \in P, new.t \in Int, points = <<>> \/ Newest(points) < new.t
  PROVE  LET longer == Append(points, new)
         IN  /\ longer \in Seq(P) /\ longer # <<>> /\ Len(points) \in Nat
             /\ Len(longer) = Len(points) + 1
             /\ \A i \in 1 .. Len(points) : longer[i] = points[i]
             /\ longer[Len(points) + 1] = new
             /\ \A i \in 1 .. Len(points) : points[i].t \in Int /\ points[i].t < new.t
             /\ InOrder(longer) /\ Newest(longer) = new.t
<1> DEFINE longer == Append(points, new)
<1>1. longer \in Seq(P) /\ Len(points) \in Nat
  OBVIOUS
<1>2. /\ Len(longer) = Len(points) + 1
      /\ \A i \in 1 .. Len(points) : longer[i] = points[i]
      /\ longer[Len(points) + 1] = new
  BY AppendProperties
<1> HIDE DEF longer
<1>3. longer # <<>>
  BY <1>1, <1>2, EmptySeq
<1>4. Newest(longer) = new.t
  BY <1>2 DEF Newest
<1>5. \A i \in 1 .. Len(points) : points[i].t \in Int /\ points[i].t < new.t
  <2> SUFFICES ASSUME NEW i \in 1 .. Len(points)
               PROVE  points[i].t \in Int /\ points[i].t < new.t
    OBVIOUS
  <2>1. Len(points) \in 1 .. Len(points) /\ points # <<>>
    BY <1>1, EmptySeq
  <2>2. points[i].t \in Int /\ points[Len(points)].t \in Int
    BY <2>1, PointTime
  <2>3. points[i].t <= points[Len(points)].t
    <3>1. CASE i = Len(points)
      BY <3>1, <2>2
    <3>2. CASE i < Len(points)
      BY <3>2, <2>1, <2>2, LenProperties DEF InOrder
    <3> QED
      BY <3>1, <3>2, <1>1
  <2> QED
    BY <2>1, <2>2, <2>3 DEF Newest
<1>6. InOrder(longer)
  <2> SUFFICES ASSUME NEW i \in 1 .. Len(points) + 1, NEW j \in 1 .. Len(points) + 1, i < j
               PROVE  longer[i].t < longer[j].t
    BY <1>1, <1>2, LenProperties DEF InOrder
  <2>1. i \in 1 .. Len(points)
    BY <1>1
  <2>2. CASE j = Len(points) + 1
    BY <1>2, <1>5, <2>1, <2>2
  <2>3. CASE j \in 1 .. Len(points)
    BY <1>2, <2>1, <2>3, LenProperties DEF InOrder
  <2> QED
    BY <1>1, <2>2, <2>3
<1> QED
  BY <1>1, <1>2, <1>3, <1>4, <1>5, <1>6 DEF longer

\* The ring the switch of observe leaves: well-formed, ordered, within the
\* window, not empty, and ending in the snapshot's bucket.
LEMMA OpenedRing ==
  ASSUME NEW P, Timed(P), NEW points \in Seq(P), InOrder(points),
         points # <<>> => InWindow(points),
         NEW bucket \in Int, EmptyPoint(bucket) \in P
  PROVE  LET open == Opened(points, bucket)
         IN  /\ open \in Seq(P) /\ open # <<>> /\ Newest(open) = bucket
             /\ InOrder(open) /\ InWindow(open)
<1> USE KeepAssumption
<1> DEFINE new == EmptyPoint(bucket)
           open == Opened(points, bucket)
<1>1. new \in P /\ new.t = bucket /\ bucket \in Int
  BY DEF EmptyPoint
<1> HIDE DEF new
<1>2. CASE points = <<>> \/ Newest(points) < bucket
  <2> DEFINE longer == Append(points, new)
  <2>1. longer \in Seq(P) /\ longer # <<>> /\ InOrder(longer) /\ Newest(longer) = bucket
    BY <1>1, <1>2, AppendedRing
  <2>2. open = Trimmed(longer, bucket)
    BY <1>2 DEF Opened, new
  <2> HIDE DEF longer, open
  <2> QED
    BY <1>1, <2>1, <2>2, TrimmedRing DEF open
<1>3. CASE points # <<>> /\ ~(Newest(points) < bucket) /\ Newest(points) > bucket
  <2>1. open = <<new>>
    BY <1>3 DEF Opened, new
  <2> HIDE DEF open
  <2>2. open \in Seq(P) /\ Len(open) = 1 /\ open[1] = new /\ open # <<>>
    BY <1>1, <2>1
  <2> QED
    BY <1>1, <2>2, LenProperties DEF InOrder, InWindow, Newest, open
<1>4. CASE points # <<>> /\ ~(Newest(points) < bucket) /\ ~(Newest(points) > bucket)
  <2>1. Len(points) \in 1 .. Len(points)
    BY <1>4, EmptySeq
  <2>2. Newest(points) \in Int
    BY <2>1, PointTime DEF Newest
  <2> QED
    BY <1>1, <1>4, <2>2 DEF Opened
<1> QED
  BY <1>2, <1>3, <1>4

\* The points of a ring before its newest one are those of another ring in the
\* window of a bucket.
Follows(ring, points, bucket) ==
  /\ ring[Len(ring)] = EmptyPoint(bucket)
  /\ \A j \in 1 .. Len(ring) - 1 : \E i \in 1 .. Len(points) : ring[j] = points[i]
  /\ \A i \in 1 .. Len(points) : points[i].t > bucket - Keep =>
       \E j \in 1 .. Len(ring) - 1 : ring[j] = points[i]

\* What the switch of observe does: it goes on with the open bucket, or starts
\* over, or leaves exactly the points of the window behind a new one.
LEMMA OpenedPoints ==
  ASSUME NEW P, Timed(P), NEW points \in Seq(P), InOrder(points),
         points # <<>> => InWindow(points),
         NEW bucket \in Int, EmptyPoint(bucket) \in P
  PROVE  LET open == Opened(points, bucket)
         IN  \/ points # <<>> /\ Newest(points) = bucket /\ open = points
             \/ points # <<>> /\ Newest(points) > bucket /\ open = <<EmptyPoint(bucket)>>
             \/ /\ points = <<>> \/ Newest(points) < bucket
                /\ Follows(open, points, bucket)
<1> USE KeepAssumption
<1> DEFINE new == EmptyPoint(bucket)
           open == Opened(points, bucket)
<1>1. new \in P /\ new.t = bucket /\ bucket \in Int
  BY DEF EmptyPoint
<1> HIDE DEF new
<1>2. CASE points = <<>> \/ Newest(points) < bucket
  <2> DEFINE longer == Append(points, new)
  <2>1. /\ longer \in Seq(P) /\ longer # <<>> /\ Len(points) \in Nat
        /\ Len(longer) = Len(points) + 1
        /\ \A i \in 1 .. Len(points) : longer[i] = points[i]
        /\ longer[Len(points) + 1] = new
        /\ \A i \in 1 .. Len(points) : points[i].t \in Int /\ points[i].t < bucket
        /\ InOrder(longer) /\ Newest(longer) = bucket
    BY <1>1, <1>2, AppendedRing
  <2>2. open = Trimmed(longer, bucket)
    BY <1>2 DEF Opened, new
  <2> HIDE DEF longer, open
  <2>3. /\ open \in Seq(P) /\ open # <<>> /\ Newest(open) = bucket /\ InOrder(open)
        /\ KeptFrom(longer, open) /\ WindowKept(longer, open, bucket)
        /\ open[Len(open)] = longer[Len(longer)]
    BY <1>1, <2>1, <2>2, TrimmedRing
  <2>4. Len(open) \in Nat /\ Len(open) > 0 /\ Len(open) \in 1 .. Len(open)
    BY <2>3, EmptySeq
  <2>5. open[Len(open)] = new
    BY <2>1, <2>3
  <2>6. ASSUME NEW j \in 1 .. Len(open) - 1
         PROVE  \E i \in 1 .. Len(points) : open[j] = points[i]
    <3>1. PICK i \in 1 .. Len(longer) : open[j] = longer[i]
      <4>1. j \in 1 .. Len(open)
        BY <2>4
      <4> QED
        BY <2>3, <4>1 DEF KeptFrom
    <3>2. i # Len(points) + 1
      <4>1. open[j].t < open[Len(open)].t
        BY <2>3, <2>4, LenProperties DEF InOrder
      <4>2. open[Len(open)].t = bucket
        BY <2>3 DEF Newest
      <4> QED
        BY <1>1, <2>1, <3>1, <4>1, <4>2
    <3> QED
      BY <2>1, <3>1, <3>2
  <2>7. ASSUME NEW i \in 1 .. Len(points), points[i].t > bucket - Keep
         PROVE  \E j \in 1 .. Len(open) - 1 : open[j] = points[i]
    <3>1. i \in 1 .. Len(longer) /\ longer[i] = points[i]
      BY <2>1
    <3>2. PICK j \in 1 .. Len(open) : open[j] = points[i]
      BY <2>3, <2>7, <3>1 DEF WindowKept
    <3>3. j # Len(open)
      <4>1. open[Len(open)].t = bucket /\ points[i].t \in Int /\ points[i].t < bucket
        BY <2>1, <2>3 DEF Newest
      <4> QED
        BY <1>1, <3>2, <4>1
    <3> QED
      BY <2>4, <3>2, <3>3
  <2>8. Follows(open, points, bucket)
    BY <2>5, <2>6, <2>7 DEF Follows, new
  <2> QED
    BY <1>2, <2>8 DEF open
<1>3. CASE points # <<>> /\ ~(Newest(points) < bucket) /\ Newest(points) > bucket
  BY <1>3 DEF Opened
<1>4. CASE points # <<>> /\ ~(Newest(points) < bucket) /\ ~(Newest(points) > bucket)
  <2>1. Len(points) \in 1 .. Len(points)
    BY <1>4, EmptySeq
  <2>2. Newest(points) \in Int
    BY <2>1, PointTime DEF Newest
  <2> QED
    BY <1>1, <1>4, <2>2 DEF Opened
<1> QED
  BY <1>2, <1>3, <1>4

\* observe keeps the ring well-formed, oldest first at distinct times, and
\* within the retention window, whatever snapshot it is given: also one whose
\* timestamp lies behind the newest bucket.  Whatever holds of its points, of
\* an empty one and of one that the snapshot raises, holds of the new points.
THEOREM ObserveKeepsRing ==
  ASSUME NEW P, Timed(P), P \subseteq PointOf(Int, Int),
         NEW points \in Seq(P), InOrder(points),
         points # <<>> => InWindow(points),
         NEW m, BucketOf(m.ts) \in Int, NEW fresh,
         m.ts # 0 => /\ EmptyPoint(BucketOf(m.ts)) \in P
                     /\ \A p \in P : p.t = BucketOf(m.ts) => Raised(p, m, fresh) \in P
  PROVE  LET ring == Observe(points, m, fresh)
         IN  /\ ring \in Seq(P)
             /\ InOrder(ring)
             /\ ring # <<>> => InWindow(ring)
<1>1. CASE m.ts = 0
  BY <1>1 DEF Observe
<1>2. CASE m.ts # 0
  <2> DEFINE open == Opened(points, BucketOf(m.ts))
             last == Raised(open[Len(open)], m, fresh)
             ring == [open EXCEPT ![Len(open)] = last]
  <2>1. /\ open \in Seq(P) /\ open # <<>> /\ Newest(open) = BucketOf(m.ts)
        /\ InOrder(open) /\ InWindow(open)
    BY <1>2, OpenedRing
  <2>2. Observe(points, m, fresh) = ring
    BY <1>2 DEF Observe
  <2> HIDE DEF open
  <2>3. Len(open) \in Nat /\ Len(open) \in 1 .. Len(open) /\ DOMAIN open = 1 .. Len(open)
    BY <2>1, EmptySeq, LenProperties
  <2>4. open[Len(open)] \in P /\ open[Len(open)].t = BucketOf(m.ts)
    BY <2>1, <2>3, ElementOfSeq DEF Newest
  <2>5. last \in P /\ last.t = open[Len(open)].t
    BY <1>2, <2>4 DEF Raised, PointOf
  <2> HIDE DEF last
  <2>6. /\ ring \in Seq(P) /\ Len(ring) = Len(open)
        /\ \A i \in 1 .. Len(open) : ring[i].t = open[i].t
    <3>1. /\ ring \in Seq(P) /\ Len(ring) = Len(open)
          /\ \A i \in 1 .. Len(open) : ring[i] = IF i = Len(open) THEN last ELSE open[i]
      BY <2>1, <2>3, <2>5, ExceptSeq
    <3> QED
      BY <3>1, <2>5
  <2> HIDE DEF ring
  <2>7. DOMAIN ring = 1 .. Len(open)
    BY <2>6, LenProperties
  <2>8. InOrder(ring)
    BY <2>1, <2>3, <2>6, <2>7 DEF InOrder
  <2>9. Newest(ring) = Newest(open)
    BY <2>3, <2>6 DEF Newest
  <2>10. InWindow(ring)
    BY <2>1, <2>3, <2>6, <2>7, <2>9 DEF InWindow
  <2> QED
    BY <2>2, <2>6, <2>8, <2>10
<1> QED
  BY <1>1, <1>2

-----------------------------------------------------------------------------
(* A ring beside the log of what was observed: records with the timestamp   *)
(* and the readings of a snapshot that count.                               *)

Entries == [ts : Int, cpu : Int, gpu : Int]

InBucketOf(t, log) == {o \in log : BucketOf(o.ts) = t}
CpuIn(t, log) == {Nil} \cup {o.cpu : o \in InBucketOf(t, log)}
GpuIn(t, log) == {Nil} \cup {o.gpu : o \in InBucketOf(t, log)}

Highest(v, S) == v \in S /\ \A x \in S : v >= x

\* A point is the peak of what was observed in its bucket.
PeakOfBucket(p, log) == Highest(p.cpu, CpuIn(p.t, log)) /\ Highest(p.gpu, GpuIn(p.t, log))

\* The points of a ring that ends at newest are peaks, and nothing observed in
\* its window is missing or lies ahead.
PointsAnswer(points, newest, log) ==
  /\ \A i \in 1 .. Len(points) : PeakOfBucket(points[i], log)
  /\ \A o \in log : BucketOf(o.ts) <= newest
  /\ \A o \in log : BucketOf(o.ts) > newest - Keep =>
       \E i \in 1 .. Len(points) : points[i].t = BucketOf(o.ts)

\* Besides, each bucket of the ring was observed.
RingAnswers(points, log) ==
  /\ points = <<>> => log = {}
  /\ points # <<>> => PointsAnswer(points, Newest(points), log)
  /\ \A i \in 1 .. Len(points) : InBucketOf(points[i].t, log) # {}

\* A raised slot is the highest with the reading that raised it.
LEMMA PeakRaises ==
  ASSUME NEW S \in SUBSET Int, NEW v \in Int, NEW x \in Int, Highest(v, S)
  PROVE  Highest(Peak(v, x), S \cup {x})
  BY DEF Highest, Peak

\* What one more entry adds to the readings of a bucket.
LEMMA EntryAdded ==
  ASSUME NEW log \in SUBSET Entries, NEW c \in Entries, NEW t
  PROVE  /\ CpuIn(t, log) \in SUBSET Int /\ GpuIn(t, log) \in SUBSET Int
         /\ CpuIn(t, log \cup {c})
              = IF BucketOf(c.ts) = t THEN CpuIn(t, log) \cup {c.cpu} ELSE CpuIn(t, log)
         /\ GpuIn(t, log \cup {c})
              = IF BucketOf(c.ts) = t THEN GpuIn(t, log) \cup {c.gpu} ELSE GpuIn(t, log)
<1>1. c.cpu \in Int /\ c.gpu \in Int /\ \A o \in log : o.cpu \in Int /\ o.gpu \in Int
  BY DEF Entries
<1>2. InBucketOf(t, log \cup {c})
        = IF BucketOf(c.ts) = t THEN InBucketOf(t, log) \cup {c} ELSE InBucketOf(t, log)
  BY DEF InBucketOf
<1>3. InBucketOf(t, log) \subseteq log /\ Nil \in Int
  BY DEF InBucketOf, Nil
<1> HIDE DEF InBucketOf
<1>4. CpuIn(t, log) \in SUBSET Int /\ GpuIn(t, log) \in SUBSET Int
  BY <1>1, <1>3 DEF CpuIn, GpuIn
<1>5. CpuIn(t, log \cup {c})
        = IF BucketOf(c.ts) = t THEN CpuIn(t, log) \cup {c.cpu} ELSE CpuIn(t, log)
  BY <1>2 DEF CpuIn
<1>6. GpuIn(t, log \cup {c})
        = IF BucketOf(c.ts) = t THEN GpuIn(t, log) \cup {c.gpu} ELSE GpuIn(t, log)
  BY <1>2 DEF GpuIn
<1> QED
  BY <1>4, <1>5, <1>6

\* A snapshot raises the point of its bucket, with the slow reading while fresh.
LEMMA RaisedIsPeak ==
  ASSUME NEW log \in SUBSET Entries, NEW c \in Entries, NEW p \in PointOf(Int, Int),
         PeakOfBucket(p, log), BucketOf(c.ts) = p.t, NEW m, NEW fresh,
         c.cpu = m.cpu, c.gpu = IF fresh THEN m.gpu ELSE Nil
  PROVE  PeakOfBucket(Raised(p, m, fresh), log \cup {c})
<1> DEFINE q == Raised(p, m, fresh)
<1>1. /\ q.t = p.t /\ q.cpu = Peak(p.cpu, c.cpu)
      /\ q.gpu = IF fresh THEN Peak(p.gpu, c.gpu) ELSE p.gpu
  BY DEF Raised, PointOf
<1>2. /\ p.cpu \in Int /\ p.gpu \in Int /\ c.cpu \in Int /\ c.gpu \in Int
  BY DEF PointOf, Entries
<1> HIDE DEF q
<1>3. /\ CpuIn(p.t, log \cup {c}) = CpuIn(p.t, log) \cup {c.cpu}
      /\ GpuIn(p.t, log \cup {c}) = GpuIn(p.t, log) \cup {c.gpu}
      /\ CpuIn(p.t, log) \in SUBSET Int /\ GpuIn(p.t, log) \in SUBSET Int
  <2> DEFINE t == p.t
  <2>1. BucketOf(c.ts) = t
    OBVIOUS
  <2> HIDE DEF t
  <2>2. /\ CpuIn(t, log \cup {c}) = CpuIn(t, log) \cup {c.cpu}
        /\ GpuIn(t, log \cup {c}) = GpuIn(t, log) \cup {c.gpu}
        /\ CpuIn(t, log) \in SUBSET Int /\ GpuIn(t, log) \in SUBSET Int
    BY <2>1, EntryAdded
  <2> QED
    BY <2>2 DEF t
<1>4. Highest(p.cpu, CpuIn(p.t, log)) /\ Highest(p.gpu, GpuIn(p.t, log))
  BY DEF PeakOfBucket
<1>5. Highest(q.cpu, CpuIn(q.t, log \cup {c}))
  BY <1>1, <1>2, <1>3, <1>4, PeakRaises
<1>6. Highest(q.gpu, GpuIn(q.t, log \cup {c}))
  <2>1. CASE fresh
    <3>1. q.gpu = Peak(p.gpu, c.gpu) /\ q.t = p.t
      BY <2>1, <1>1
    <3>2. Highest(Peak(p.gpu, c.gpu), GpuIn(p.t, log) \cup {c.gpu})
      BY <1>2, <1>3, <1>4, PeakRaises
    <3> QED
      BY <3>1, <3>2, <1>3
  <2>2. CASE ~fresh
    <3>1. GpuIn(p.t, log) \cup {c.gpu} = GpuIn(p.t, log)
      BY <2>2 DEF GpuIn
    <3> QED
      BY <2>2, <3>1, <1>1, <1>3, <1>4
  <2> QED
    BY <2>1, <2>2
<1> QED
  BY <1>5, <1>6 DEF PeakOfBucket, q

LEMMA EmptyIsPeak ==
  ASSUME NEW log, NEW bucket, InBucketOf(bucket, log) = {}
  PROVE  PeakOfBucket(EmptyPoint(bucket), log)
<1>1. CpuIn(bucket, log) = {Nil} /\ GpuIn(bucket, log) = {Nil}
  BY DEF CpuIn, GpuIn
<1>2. Highest(Nil, {Nil})
  BY DEF Highest, Nil
<1> QED
  BY <1>1, <1>2 DEF PeakOfBucket, EmptyPoint

\* What was observed lies at the newest bucket or before it.
LEMMA NoneAhead ==
  ASSUME NEW log \in SUBSET Entries, \A o \in log : BucketOf(o.ts) \in Int,
         NEW newest \in Int, \A o \in log : BucketOf(o.ts) <= newest,
         NEW bucket \in Int, newest < bucket
  PROVE  InBucketOf(bucket, log) = {}
  BY DEF InBucketOf

\* The ring the switch of observe leaves answers for what it kept of the log.
LEMMA OpenedAnswers ==
  ASSUME NEW P, Timed(P), NEW points \in Seq(P), InOrder(points),
         points # <<>> => InWindow(points),
         NEW bucket \in Int, EmptyPoint(bucket) \in P,
         NEW log \in SUBSET Entries, \A o \in log : BucketOf(o.ts) \in Int,
         RingAnswers(points, log)
  PROVE  LET open == Opened(points, bucket)
             kept == IF points # <<>> /\ bucket < Newest(points) THEN {} ELSE log
         IN  /\ PointsAnswer(open, bucket, kept)
             /\ \A j \in 1 .. Len(open) - 1 : InBucketOf(open[j].t, kept) # {}
<1> USE KeepAssumption
<1> DEFINE open == Opened(points, bucket)
           kept == IF points # <<>> /\ bucket < Newest(points) THEN {} ELSE log
           new == EmptyPoint(bucket)
<1>1. /\ open \in Seq(P) /\ open # <<>> /\ Newest(open) = bucket
  BY OpenedRing
<1>2. new.t = bucket
  BY DEF EmptyPoint
<1>3. \/ points # <<>> /\ Newest(points) = bucket /\ open = points
      \/ points # <<>> /\ Newest(points) > bucket /\ open = <<new>>
      \/ (points = <<>> \/ Newest(points) < bucket) /\ Follows(open, points, bucket)
  BY OpenedPoints
<1>4. points # <<>> => Newest(points) \in Int
  <2> SUFFICES ASSUME points # <<>> PROVE Newest(points) \in Int
    OBVIOUS
  <2>1. Len(points) \in 1 .. Len(points)
    BY EmptySeq
  <2> QED
    BY <2>1, PointTime DEF Newest
<1>5. Len(open) \in Nat /\ Len(open) > 0
  BY <1>1, EmptySeq
<1> HIDE DEF open, new
<1>6. CASE points # <<>> /\ Newest(points) = bucket /\ open = points
  <2>1. kept = log
    BY <1>4, <1>6
  <2>2. PointsAnswer(points, bucket, log)
    BY <1>6 DEF RingAnswers
  <2>3. \A j \in 1 .. Len(points) - 1 : InBucketOf(points[j].t, log) # {}
    BY <1>5, <1>6 DEF RingAnswers
  <2> HIDE DEF kept
  <2> QED
    BY <1>6, <2>1, <2>2, <2>3 DEF kept, open
<1>7. CASE points # <<>> /\ Newest(points) > bucket /\ open = <<new>>
  <2>1. kept = {}
    BY <1>4, <1>7
  <2>2. Len(open) = 1 /\ open[1] = new
    BY <1>7
  <2>3. PeakOfBucket(new, {})
    BY EmptyIsPeak DEF new, InBucketOf
  <2> HIDE DEF kept
  <2>4. PointsAnswer(open, bucket, kept)
    BY <2>1, <2>2, <2>3 DEF PointsAnswer
  <2>5. \A j \in 1 .. Len(open) - 1 : FALSE
    BY <2>2
  <2> QED
    BY <2>4, <2>5 DEF kept, open
<1>8. CASE (points = <<>> \/ Newest(points) < bucket) /\ Follows(open, points, bucket)
  <2>1. kept = log
    BY <1>4, <1>8
  <2>2. PeakOfBucket(new, log)
    <3>1. InBucketOf(bucket, log) = {}
      <4>1. CASE points = <<>>
        BY <4>1 DEF RingAnswers, InBucketOf
      <4>2. CASE points # <<>>
        BY <4>2, <1>4, <1>8, NoneAhead DEF RingAnswers, PointsAnswer
      <4> QED
        BY <4>1, <4>2
    <3> QED
      BY <3>1, EmptyIsPeak DEF new
  <2>3. ASSUME NEW j \in 1 .. Len(open) - 1
        PROVE  PeakOfBucket(open[j], log) /\ InBucketOf(open[j].t, log) # {}
    <3>1. PICK i \in 1 .. Len(points) : open[j] = points[i]
      BY <1>8 DEF Follows
    <3>2. points # <<>>
      BY <3>1
    <3> QED
      BY <3>1, <3>2 DEF RingAnswers, PointsAnswer
  <2>4. \A j \in 1 .. Len(open) : PeakOfBucket(open[j], log)
    <3>1. open[Len(open)] = new
      BY <1>8 DEF Follows, new
    <3>2. \A j \in 1 .. Len(open) : j = Len(open) \/ j \in 1 .. Len(open) - 1
      BY <1>5
    <3> QED
      BY <2>2, <2>3, <3>1, <3>2
  <2>5. ASSUME NEW o \in log
        PROVE  /\ BucketOf(o.ts) <= bucket
               /\ BucketOf(o.ts) > bucket - Keep =>
                    \E j \in 1 .. Len(open) : open[j].t = BucketOf(o.ts)
    <3> DEFINE t == BucketOf(o.ts)
    <3>1. /\ points # <<>> /\ t \in Int /\ t <= Newest(points)
          /\ t > Newest(points) - Keep => \E i \in 1 .. Len(points) : points[i].t = t
      BY DEF RingAnswers, PointsAnswer
    <3> HIDE DEF t
    <3>2. t <= bucket
      BY <1>4, <1>8, <3>1
    <3>3. ASSUME t > bucket - Keep PROVE \E j \in 1 .. Len(open) : open[j].t = t
      <4>1. t > Newest(points) - Keep
        BY <1>4, <1>8, <3>1, <3>3
      <4>2. PICK i \in 1 .. Len(points) : points[i].t = t
        BY <3>1, <4>1
      <4>3. PICK j \in 1 .. Len(open) - 1 : open[j] = points[i]
        BY <1>8, <3>3, <4>2 DEF Follows
      <4>4. j \in 1 .. Len(open)
        BY <1>5
      <4> QED
        BY <4>2, <4>3, <4>4
    <3> QED
      BY <3>2, <3>3 DEF t
  <2>6. PointsAnswer(open, bucket, log)
    BY <2>4, <2>5 DEF PointsAnswer
  <2> HIDE DEF kept
  <2> QED
    BY <2>1, <2>3, <2>6 DEF kept, open
<1> QED
  BY <1>3, <1>6, <1>7, <1>8

\* After one observation the ring again answers for what was observed: each of
\* its points is the peak of its bucket, and no observed bucket inside the
\* window is missing, also when the clock stepped back and it started over.
THEOREM ObserveAnswers ==
  ASSUME NEW P, Timed(P), P \subseteq PointOf(Int, Int),
         NEW points \in Seq(P), InOrder(points),
         points # <<>> => InWindow(points),
         NEW m, m.ts # 0, BucketOf(m.ts) \in Int, NEW fresh,
         EmptyPoint(BucketOf(m.ts)) \in P,
         NEW log \in SUBSET Entries, \A o \in log : BucketOf(o.ts) \in Int,
         RingAnswers(points, log),
         NEW c \in Entries, c.ts = m.ts, c.cpu = m.cpu,
         c.gpu = IF fresh THEN m.gpu ELSE Nil
  PROVE  LET kept == IF points # <<>> /\ BucketOf(m.ts) < Newest(points) THEN {} ELSE log
         IN  RingAnswers(Observe(points, m, fresh), kept \cup {c})
<1> DEFINE bucket == BucketOf(m.ts)
           kept == IF points # <<>> /\ bucket < Newest(points) THEN {} ELSE log
           open == Opened(points, bucket)
           last == Raised(open[Len(open)], m, fresh)
           ring == [open EXCEPT ![Len(open)] = last]
<1>1. bucket \in Int /\ BucketOf(c.ts) = bucket /\ kept \in SUBSET Entries
  OBVIOUS
<1>2. open \in Seq(P) /\ open # <<>> /\ Newest(open) = bucket
  BY OpenedRing
<1>3. /\ PointsAnswer(open, bucket, kept)
      /\ \A j \in 1 .. Len(open) - 1 : InBucketOf(open[j].t, kept) # {}
  BY OpenedAnswers
<1>4. Observe(points, m, fresh) = ring
  BY DEF Observe
<1>12. \A o \in kept : BucketOf(o.ts) \in Int
  OBVIOUS
<1> HIDE DEF kept, open, bucket
<1>5. Len(open) \in Nat /\ Len(open) \in 1 .. Len(open)
  BY <1>2, EmptySeq
<1>6. open[Len(open)] \in PointOf(Int, Int) /\ open[Len(open)].t = bucket
  BY <1>2, <1>5, ElementOfSeq DEF Newest
<1>7. last.t = bucket /\ last \in PointOf(Int, Int)
  <2>1. last.t = bucket
    BY <1>6 DEF Raised, PointOf
  <2>2. m.cpu \in Int /\ (fresh => m.gpu \in Int)
    BY DEF Entries
  <2> QED
    BY <1>6, <2>1, <2>2 DEF Raised, PointOf, Peak
<1>8. PeakOfBucket(last, kept \cup {c})
  <2>1. PeakOfBucket(open[Len(open)], kept)
    BY <1>3, <1>5 DEF PointsAnswer
  <2> QED
    BY <1>1, <1>6, <2>1, RaisedIsPeak
<1> HIDE DEF last
<1>9. /\ Len(ring) = Len(open)
      /\ \A i \in 1 .. Len(open) : ring[i] = IF i = Len(open) THEN last ELSE open[i]
  <2> DEFINE S == PointOf(Int, Int)
  <2>1. open \in Seq(S) /\ last \in S
    BY <1>2, <1>7
  <2> HIDE DEF S
  <2> QED
    BY <1>5, <2>1, ExceptSeq
<1> HIDE DEF ring
<1>10. PointsAnswer(ring, bucket, kept \cup {c})
  <2>1. ASSUME NEW i \in 1 .. Len(ring) PROVE PeakOfBucket(ring[i], kept \cup {c})
    <3>1. CASE i = Len(open)
      BY <1>8, <1>9, <3>1
    <3>2. CASE i # Len(open)
      <4>1. ring[i] = open[i] /\ PeakOfBucket(open[i], kept)
        BY <1>3, <1>9, <3>2 DEF PointsAnswer
      <4>2. BucketOf(c.ts) # open[i].t
        <5>1. open[i].t < open[Len(open)].t
          <6>1. InOrder(open)
            BY OpenedRing DEF open, bucket
          <6> QED
            BY <1>2, <1>5, <1>9, <3>2, <6>1, LenProperties DEF InOrder
        <5>2. open[i] \in P
          BY <1>2, <1>9, ElementOfSeq
        <5> QED
          BY <1>1, <1>6, <5>1, <5>2 DEF Timed
      <4>3. /\ CpuIn(open[i].t, kept \cup {c}) = CpuIn(open[i].t, kept)
            /\ GpuIn(open[i].t, kept \cup {c}) = GpuIn(open[i].t, kept)
        <5> DEFINE t == open[i].t
        <5> HIDE DEF t
        <5> QED
          BY <1>1, <4>2, EntryAdded DEF t
      <4> QED
        BY <4>1, <4>3 DEF PeakOfBucket
    <3> QED
      BY <3>1, <3>2
  <2>2. ASSUME NEW o \in kept \cup {c} PROVE BucketOf(o.ts) <= bucket
    BY <1>1, <1>3, <2>2 DEF PointsAnswer
  <2>3. ASSUME NEW o \in kept \cup {c}, BucketOf(o.ts) > bucket - Keep
        PROVE  \E i \in 1 .. Len(ring) : ring[i].t = BucketOf(o.ts)
    <3>1. \A i \in 1 .. Len(open) : ring[i].t = open[i].t
      BY <1>6, <1>7, <1>9
    <3>2. CASE o = c
      BY <1>1, <1>5, <1>6, <1>9, <3>1, <3>2
    <3>3. CASE o \in kept
      BY <1>3, <1>9, <2>3, <3>1, <3>3 DEF PointsAnswer
    <3> QED
      BY <3>2, <3>3
  <2> QED
    BY <2>1, <2>2, <2>3 DEF PointsAnswer
<1>11. /\ ring # <<>> /\ Newest(ring) = bucket
       /\ \A i \in 1 .. Len(ring) : InBucketOf(ring[i].t, kept \cup {c}) # {}
  <2>1. ring # <<>>
    BY <1>5, <1>9
  <2>2. Newest(ring) = bucket
    BY <1>5, <1>7, <1>9 DEF Newest
  <2>3. ASSUME NEW i \in 1 .. Len(ring) PROVE InBucketOf(ring[i].t, kept \cup {c}) # {}
    <3>1. CASE i = Len(open)
      BY <1>1, <1>7, <1>9, <3>1 DEF InBucketOf
    <3>2. CASE i # Len(open)
      BY <1>3, <1>5, <1>9, <3>2 DEF InBucketOf
    <3> QED
      BY <3>1, <3>2
  <2> QED
    BY <2>1, <2>2, <2>3
<1> QED
  BY <1>4, <1>10, <1>11 DEF RingAnswers, kept, bucket
=============================================================================

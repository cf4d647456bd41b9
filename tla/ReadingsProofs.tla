---------------------------- MODULE ReadingsProofs ----------------------------
(***************************************************************************)
(* Why what the agent shows is right: its rates and loads, what it says of *)
(* a metric it has not, how old its list of drives may be and what each    *)
(* drive counts for, what its CPU temperature means, where its process     *)
(* table files a process and how it counts tokens, each with its inductive *)
(* invariant, for every value of the delays, sizes and bounds that         *)
(* MCReadings leaves open.  The theorems are at the end.                   *)
(***************************************************************************)
EXTENDS MCReadings, Sequences, FiniteSetTheorems, WellFoundedInduction, TLAPS

-----------------------------------------------------------------------------
(* Counters and rates: CounterRates.                                        *)

ReadingSet ==
  [set : BOOLEAN, at : Nat, count : [Keys -> Int], moved : [Keys -> Nat], born : [Keys -> Nat]]

\* A reading of a counter there is, no later than now.
Taken(r) ==
  /\ r \in ReadingSet /\ r.set
  /\ r.at <= now
  /\ \A k \in Keys :
       /\ r.moved[k] <= moved[k] /\ r.born[k] <= born[k]
       /\ r.count[k] = Absent \/ r.count[k] \in 0 .. MaxTime

\* Of two readings of one counter, how far it can have gone for how far it moved.
Carried(c, d, m) == IF d >= c THEN d - c <= m ELSE MaxEnergy + 1 - c + d <= m
PowerApart(a, b, k) ==
  /\ a.count[k] # Absent => a.count[k] <= MaxEnergy
  /\ a.count[k] # Absent /\ b.count[k] # Absent /\ a.moved[k] <= b.moved[k] =>
       /\ a.born[k] = b.born[k] => Carried(a.count[k], b.count[k], b.moved[k] - a.moved[k])
       /\ a.born[k] < b.born[k] => b.count[k] <= b.moved[k] - a.moved[k]
CpuApart(a, b, k) ==
  /\ a.count[k] = a.moved[k] + 1
  /\ a.at <= b.at => a.moved[k] <= b.moved[k]
OtherApart(a, b, k) ==
  a.count[k] # Absent /\ b.count[k] # Absent /\ a.born[k] <= b.born[k] =>
    b.count[k] - a.count[k] <= b.moved[k] - a.moved[k]
Consistent(a, b) ==
  \A k \in Live :
    /\ kind \in Power => PowerApart(a, b, k)
    /\ kind \in Cpu => CpuApart(a, b, k)
    /\ kind \notin Power \cup Cpu => OtherApart(a, b, k)

Readings == {kept} \cup {pass[p].got : p \in Passes} \cup {pass[p].prev : p \in Passes}
Seen == {r \in Readings : r.set} \cup {Sample}

Stages == {"idle", "stamped", "read", "looked", "waiting", "read again"}
PassSet ==
  [at : Stages, got : ReadingSet, prev : ReadingSet]
Held(q) ==
  /\ q.at \notin {"idle", "stamped"} => q.got.set
  /\ q.at = "stamped" => StampsFirst /\ ~q.got.set /\ q.got.at <= now
  /\ q.at = "looked" => kind \in Processes
  /\ q.at = "read again" => q.prev.set /\ q.prev.at <= q.got.at

Typed ==
  /\ kind \in Kinds /\ now \in Nat \ {0} /\ now <= MaxTime
  /\ count \in [Keys -> Int] /\ moved \in [Keys -> Nat] /\ born \in [Keys -> Nat]
  /\ \A k \in Keys : moved[k] < now /\ born[k] <= now
       /\ (count[k] = Absent \/ count[k] \in 0 .. now)
  /\ kept \in ReadingSet /\ pass \in [Passes -> PassSet]

RateInv ==
  /\ Typed
  /\ \A p \in Passes : Held(pass[p])
  /\ \A r \in Seen : Taken(r)
  /\ \A a, b \in Seen : Consistent(a, b)

\* What was read in one of the readings, under a stamp that is no later than now.
Alike(x) ==
  /\ x \in ReadingSet /\ x.set /\ x.at <= now
  /\ \E y \in Seen : /\ x.count = y.count /\ x.moved = y.moved /\ x.born = y.born
                     /\ x = y \/ kind \notin Cpu

LEMMA KeysAre == Keys = {"one", "two"} /\ Busy = "one" /\ Idle = "two" /\ Absent = -1
BY DEF Keys, Busy, Idle, Absent

LEMMA NowhereIs == Nowhere \in [Keys -> Nat] /\ \A k \in Keys : Nowhere[k] = 0
BY DEF Nowhere

LEMMA NoReadingIs == NoReading \in ReadingSet /\ ~NoReading.set
<1>1. [k \in Keys |-> Absent] \in [Keys -> Int] BY DEF Absent
<1>2. \A r \in ReadingSet : [r EXCEPT !.set = FALSE] \in ReadingSet
        /\ ~[r EXCEPT !.set = FALSE].set
  BY DEF ReadingSet
<1>3. Reading(0, [k \in Keys |-> Absent], Nowhere, Nowhere) \in ReadingSet
  BY <1>1, NowhereIs DEF Reading, ReadingSet
<1> QED BY <1>2, <1>3, Zenon DEF NoReading

LEMMA SampleIs ==
  ASSUME Typed
  PROVE /\ Sample \in ReadingSet /\ Sample.set /\ Sample.at = now
        /\ Sample.count = count /\ Sample.moved = moved /\ Sample.born = born
<1>1. now \in Nat /\ count \in [Keys -> Int] /\ moved \in [Keys -> Nat] /\ born \in [Keys -> Nat]
  BY DEF Typed
<1> QED BY <1>1 DEF Sample, Reading, ReadingSet

LEMMA SampleNext ==
  ASSUME Typed'
  PROVE /\ Sample' \in ReadingSet /\ Sample'.set /\ Sample'.at = now'
        /\ Sample'.count = count' /\ Sample'.moved = moved' /\ Sample'.born = born'
<1>1. now' \in Nat /\ count' \in [Keys -> Int] /\ moved' \in [Keys -> Nat]
        /\ born' \in [Keys -> Nat]
  BY DEF Typed
<1> QED BY <1>1 DEF Sample, Reading, ReadingSet

LEMMA InitRates == ASSUME RatesAssumption, Init PROVE RateInv
<1>1. Typed
  <2>0. count \in [Keys -> Int] /\ moved \in [Keys -> Nat] /\ born \in [Keys -> Nat]
        /\ now = 1 /\ 1 <= MaxTime /\ kind \in Kinds
    <3>1. count = [k \in Keys |-> 1] /\ moved = Nowhere /\ born = Nowhere /\ now = 1
            /\ kind \in Kinds
      BY DEF Init
    <3>2. 1 <= MaxTime BY DEF RatesAssumption
    <3>3. [k \in Keys |-> 1] \in [Keys -> Int] OBVIOUS
    <3> QED BY <3>1, <3>2, <3>3, NowhereIs
  <2>1. Sample \in ReadingSet
    BY <2>0 DEF Sample, Reading, ReadingSet
  <2>2. AtRest \in PassSet BY NoReadingIs DEF AtRest, PassSet, Stages
  <2>3. kept \in ReadingSet /\ pass \in [Passes -> PassSet]
    BY <2>1, <2>2, NoReadingIs DEF Init
  <2>4. \A k \in Keys : moved[k] = 0 /\ born[k] = 0 /\ count[k] = 1
    BY DEF Init, Nowhere
  <2> QED BY <2>0, <2>3, <2>4 DEF Typed
<1>2. \A p \in Passes : Held(pass[p])
  <2>1. Held(AtRest) BY DEF AtRest, Held
  <2> QED BY <2>1 DEF Init
<1>3. Seen = {Sample}
  <2>1. ~AtRest.got.set /\ ~AtRest.prev.set BY NoReadingIs DEF AtRest
  <2> QED BY <2>1, NoReadingIs DEF Init, Seen, Readings
<1>4. Taken(Sample)
  <2>1. now \in Nat /\ MaxTime \in Nat /\ now <= MaxTime BY <1>1 DEF Typed, RatesAssumption
  <2>2. moved \in [Keys -> Nat] /\ born \in [Keys -> Nat] BY <1>1 DEF Typed
  <2>3. \A k \in Keys : count[k] = Absent \/ count[k] \in 0 .. now BY <1>1 DEF Typed
  <2> QED BY <1>1, <2>1, <2>2, <2>3, SampleIs DEF Taken
<1>5. Consistent(Sample, Sample)
  <2>1. \A k \in Keys : count[k] = 1 /\ moved[k] = 0 BY DEF Init, Nowhere
  <2>2. Live \subseteq Keys BY DEF Live, Keys
  <2>3. \A k \in Keys : /\ Sample.count[k] = 1 /\ Sample.moved[k] = 0
                        /\ Sample.count[k] = Sample.moved[k] + 1 /\ Sample.born[k] \in Nat
    BY <1>1, <2>1, SampleIs DEF Typed
  <2>4. MaxEnergy \in Nat /\ 1 <= MaxEnergy BY DEF RatesAssumption
  <2>5. ASSUME NEW k \in Keys
        PROVE PowerApart(Sample, Sample, k) /\ CpuApart(Sample, Sample, k)
                /\ OtherApart(Sample, Sample, k)
    <3>1. Sample.count[k] = 1 /\ Sample.moved[k] = 0 /\ ~(Sample.born[k] < Sample.born[k]) BY <2>3
    <3>2. CpuApart(Sample, Sample, k) BY <3>1 DEF CpuApart
    <3>3. OtherApart(Sample, Sample, k) BY <3>1 DEF OtherApart
    <3>4. PowerApart(Sample, Sample, k) BY <3>1, <2>4 DEF PowerApart, Carried
    <3> QED BY <3>2, <3>3, <3>4
  <2> QED BY <2>2, <2>5 DEF Consistent
<1> QED BY <1>1, <1>2, <1>3, <1>4, <1>5 DEF RateInv

LEMMA Fields ==
  ASSUME NEW r \in ReadingSet, NEW k \in Keys
  PROVE  r.at \in Nat /\ r.count[k] \in Int /\ r.moved[k] \in Nat /\ r.born[k] \in Nat
BY DEF ReadingSet

LEMMA LiveKeys == Live \subseteq Keys
BY DEF Live, Keys

LEMMA ModUp ==
  ASSUME NEW R \in Nat, NEW c \in 0 .. R, NEW n \in 0 .. 1
  PROVE  (c + n) % (R + 1) = IF c + n = R + 1 THEN 0 ELSE c + n
OBVIOUS

\* The readings after a step that reads nothing and keeps nothing.
LEMMA MachineMoves ==
  ASSUME RateInv, kept' = kept, pass' = pass, kind' = kind,
         \A k \in Keys : moved[k] <= moved'[k] /\ born[k] <= born'[k], now <= now',
         Typed', Taken(Sample)',
         \A a \in Seen : Consistent(a, Sample)' /\ Consistent(Sample, a)',
         Consistent(Sample, Sample)'
  PROVE  RateInv'
<1>1. \A r \in Seen' : r \in Seen \/ r = Sample'
  BY DEF Seen, Readings
<1>2. ASSUME NEW r \in Seen PROVE Taken(r)'
  <2>1. Taken(r) BY DEF RateInv
  <2>2. \A k \in Keys : r.moved[k] <= moved'[k] /\ r.born[k] <= born'[k]
    <3> SUFFICES ASSUME NEW k \in Keys PROVE r.moved[k] <= moved'[k] /\ r.born[k] <= born'[k]
      OBVIOUS
    <3>1. r.moved[k] \in Nat /\ r.born[k] \in Nat BY <2>1, Fields DEF Taken
    <3>2. moved[k] \in Nat /\ born[k] \in Nat /\ moved'[k] \in Nat /\ born'[k] \in Nat
      BY DEF RateInv, Typed
    <3>3. r.moved[k] <= moved[k] /\ r.born[k] <= born[k] BY <2>1 DEF Taken
    <3> QED BY <3>1, <3>2, <3>3
  <2>3. r.at <= now'
    <3>1. r.at \in Nat /\ now \in Nat
            /\ now' \in Nat BY <2>1 DEF Taken, ReadingSet, RateInv, Typed
    <3> QED BY <3>1, <2>1 DEF Taken
  <2> QED BY <2>1, <2>2, <2>3 DEF Taken
<1>3. ASSUME NEW a \in Seen, NEW b \in Seen PROVE Consistent(a, b)'
  <2>1. Consistent(a, b) BY DEF RateInv
  <2> QED BY <2>1 DEF Consistent, Live
<1>4. \A r \in Seen' : Taken(r)'
  <2> SUFFICES ASSUME NEW r \in Seen' PROVE Taken(r)'
    OBVIOUS
  <2>1. CASE r = Sample' BY <2>1, Zenon
  <2>2. CASE r \in Seen BY <2>2, <1>2
  <2> QED BY <1>1, <2>1, <2>2
<1>5. \A a, b \in Seen' : Consistent(a, b)'
  <2> SUFFICES ASSUME NEW a \in Seen', NEW b \in Seen' PROVE Consistent(a, b)'
    OBVIOUS
  <2>1. CASE a = Sample' /\ b = Sample' BY <2>1, Zenon
  <2>2. CASE a = Sample' /\ b \in Seen BY <2>2, Zenon
  <2>3. CASE a \in Seen /\ b = Sample' BY <2>3, Zenon
  <2>4. CASE a \in Seen /\ b \in Seen BY <2>4, <1>3
  <2> QED BY <1>1, <2>1, <2>2, <2>3, <2>4
<1>6. ASSUME NEW p \in Passes PROVE Held(pass[p])'
  <2>1. /\ Held(pass[p]) /\ pass'[p] = pass[p] /\ pass[p].got.at \in Nat
        /\ now \in Nat /\ now' \in Nat
    BY DEF RateInv, Typed, PassSet, ReadingSet
  <2>2. StampsFirst' = StampsFirst BY DEF StampsFirst
  <2>3. pass[p].got.at <= now => pass[p].got.at <= now' BY <2>1
  <2> QED BY <2>1, <2>2, <2>3 DEF Held
<1> QED BY <1>4, <1>5, <1>6 DEF RateInv

LEMMA KindsApart ==
  /\ ~(kind \in Power /\ kind \in Cpu)
BY DEF Power, Cpu

LEMMA TickCount ==
  ASSUME RatesAssumption, RateInv, NEW n \in [Keys -> 0 .. 1], Tick(n), NEW k \in Keys
  PROVE  /\ count'[k] = Grown(k, n[k])
         /\ moved'[k] = IF count[k] = Absent THEN moved[k] ELSE moved[k] + n[k]
         /\ count[k] = Absent => count'[k] = Absent
         /\ count[k] # Absent => count'[k] \in 0 .. now + 1
         /\ count[k] # Absent /\ kind \notin Power => count'[k] = count[k] + n[k]
         /\ count[k] # Absent /\ kind \in Power =>
              count'[k] = IF count[k] + n[k] = MaxEnergy + 1 THEN 0 ELSE count[k] + n[k]
         /\ n[k] \in 0 .. 1
<1>1. count'[k] = Grown(k, n[k])
      /\ moved'[k] = IF count[k] = Absent THEN moved[k] ELSE moved[k] + n[k]
  BY DEF Tick
<1>2. now \in Nat /\ (count[k] = Absent \/ count[k] \in 0 .. now) /\ n[k] \in 0 .. 1
  BY DEF RateInv, Typed
<1>3. Absent = -1 BY DEF Absent
<1>4. CASE count[k] = Absent BY <1>1, <1>2, <1>4, <1>3 DEF Grown
<1>5. CASE count[k] # Absent /\ kind \notin Power
  <2>1. count'[k] = count[k] + n[k] BY <1>1, <1>5 DEF Grown
  <2> QED BY <2>1, <1>1, <1>2, <1>3, <1>5
<1>6. CASE count[k] # Absent /\ kind \in Power
  <2>1. count'[k] = (count[k] + n[k]) % (MaxEnergy + 1) BY <1>1, <1>6 DEF Grown
  <2>2. MaxEnergy \in Nat BY DEF RatesAssumption
  <2>3. count[k] \in Nat BY <1>2, <1>6
  <2>4. count[k] <= MaxEnergy
    <3>1. Sample \in Seen /\ k \in Live BY <1>6 DEF Seen, Live
    <3>2. PowerApart(Sample, Sample, k) BY <3>1, <1>6 DEF RateInv, Consistent
    <3> QED BY <3>2, <1>6, SampleIs DEF PowerApart, RateInv
  <2>5. count[k] \in 0 .. MaxEnergy BY <2>2, <2>3, <2>4
  <2>6. count'[k] = IF count[k] + n[k] = MaxEnergy + 1 THEN 0 ELSE count[k] + n[k]
    BY <2>1, <2>2, <2>5, <1>2, ModUp
  <2>7. count'[k] \in 0 .. now + 1
    <3>1. CASE count[k] + n[k] = MaxEnergy + 1 BY <3>1, <2>6, <1>2
    <3>2. CASE count[k] + n[k] # MaxEnergy + 1 BY <3>2, <2>6, <2>3, <1>2, <1>3
    <3> QED BY <3>1, <3>2
  <2> QED BY <2>6, <2>7, <1>1, <1>2, <1>6
<1> QED BY <1>4, <1>5, <1>6

LEMMA CarriedOn ==
  ASSUME MaxEnergy \in Nat, NEW c \in 0 .. MaxEnergy, NEW d \in 0 .. MaxEnergy, NEW m \in Int,
         NEW n \in 0 .. 1, Carried(c, d, m)
  PROVE  Carried(c, IF d + n = MaxEnergy + 1 THEN 0 ELSE d + n, m + n)
<1> DEFINE e == IF d + n = MaxEnergy + 1 THEN 0 ELSE d + n
<1>1. CASE d + n = MaxEnergy + 1
  <2>1. d = MaxEnergy /\ n = 1 /\ e = 0 BY <1>1
  <2>2. MaxEnergy - c <= m BY <2>1 DEF Carried
  <2> QED BY <2>1, <2>2 DEF Carried
<1>2. CASE d + n # MaxEnergy + 1
  <2>1. e = d + n /\ e \in 0 .. MaxEnergy BY <1>2
  <2>2. CASE d >= c BY <2>1, <2>2 DEF Carried
  <2>3. CASE d < c /\ e < c BY <2>1, <2>3 DEF Carried
  <2>4. CASE d < c /\ e >= c BY <2>1, <2>4 DEF Carried
  <2> QED BY <2>1, <2>2, <2>3, <2>4
<1> QED BY <1>1, <1>2

LEMMA NoMove ==
  ASSUME NEW m \in Nat, NEW g \in Nat, NEW c \in 0 .. 1, g <= m, NEW l, l = m + c, l <= g
  PROVE  c = 0 /\ m = g /\ l = m
OBVIOUS

LEMMA TickApart ==
  ASSUME RatesAssumption, RateInv, Typed', NEW n \in [Keys -> 0 .. 1], Tick(n), NEW a \in Seen
  PROVE  Consistent(a, Sample)' /\ Consistent(Sample, a)'
<1>0. kind' = kind /\ Live' = Live /\ now' = now + 1 /\ now \in Nat
  BY DEF Tick, RateInv, Typed, Live
<1>1. Taken(a) /\ a \in ReadingSet /\ a.at \in Nat
        /\ a.at <= now BY DEF RateInv, Taken, ReadingSet
<1>2. Consistent(a, Sample) /\ Consistent(Sample, a) /\ Consistent(a, a) BY DEF RateInv, Seen
<1>3. /\ Sample.at = now /\ Sample.count = count /\ Sample.moved = moved /\ Sample.born = born
      /\ Sample'.at = now' /\ Sample'.count = count' /\ Sample'.moved = moved'
           /\ Sample'.born = born'
  <2>1. Typed BY DEF RateInv
  <2> QED BY <2>1, SampleIs, SampleNext, Zenon
<1>4. born' = born BY DEF Tick
<1> SUFFICES ASSUME NEW k \in Live
             PROVE /\ kind \in Power => PowerApart(a, Sample, k)' /\ PowerApart(Sample, a, k)'
                   /\ kind \in Cpu => CpuApart(a, Sample, k)' /\ CpuApart(Sample, a, k)'
                   /\ kind \notin Power \cup Cpu =>
                        OtherApart(a, Sample, k)' /\ OtherApart(Sample, a, k)'
  BY <1>0 DEF Consistent
<1>5. k \in Keys BY LiveKeys
<1>6. /\ count[k] \in Int /\ moved[k] \in Nat /\ n[k] \in 0 .. 1 /\ moved'[k] \in Nat
      /\ a.count[k] \in Int /\ a.moved[k] \in Nat /\ a.moved[k] <= moved[k]
      /\ (a.count[k] = Absent \/ a.count[k] \in Nat)
      /\ (count[k] = Absent \/ count[k] \in Nat)
  <2>1. count[k] \in Int /\ moved[k] \in Nat /\ (count[k] = Absent \/ count[k] \in Nat)
        /\ moved'[k] \in Nat
    BY <1>5, <1>0 DEF RateInv, Typed
  <2>2. a.count[k] \in Int /\ a.moved[k] \in Nat BY <1>1, <1>5, Fields
  <2>3. a.moved[k] <= moved[k] /\ (a.count[k] = Absent \/ a.count[k] \in Nat)
    BY <1>1, <1>5 DEF Taken
  <2> QED BY <2>1, <2>2, <2>3, <1>5
<1>7. /\ moved'[k] = IF count[k] = Absent THEN moved[k] ELSE moved[k] + n[k]
      /\ count[k] = Absent => count'[k] = Absent
  BY <1>5, TickCount
<1>8. ASSUME kind \in Power PROVE PowerApart(a, Sample, k)' /\ PowerApart(Sample, a, k)'
  <2>1. PowerApart(a, Sample, k) /\ PowerApart(Sample, a, k) BY <1>2, <1>8 DEF Consistent
  <2>2. a.count[k] # Absent => a.count[k] <= MaxEnergy BY <2>1 DEF PowerApart
  <2>3. count[k] # Absent => count[k] <= MaxEnergy BY <2>1, <1>3 DEF PowerApart
  <2>4. count[k] # Absent =>
          count'[k] = IF count[k] + n[k] = MaxEnergy + 1 THEN 0 ELSE count[k] + n[k]
    BY <1>5, <1>8, TickCount
  <2>5. MaxEnergy \in Nat /\ a.born[k] \in Nat /\ born[k] \in Nat /\ a.born[k] <= born[k]
    BY <1>1, <1>5, Fields DEF RatesAssumption, RateInv, Typed, Taken
  <2>6. CASE count'[k] = Absent
    BY <2>2, <2>6, <1>3 DEF PowerApart
  <2>7. CASE count'[k] # Absent
    <3>1. count[k] # Absent /\ count[k] \in 0 .. MaxEnergy BY <1>6, <1>7, <2>3, <2>5, <2>7
    <3>2. count'[k] <= MaxEnergy /\ count'[k] \in Nat /\ count'[k] <= count[k] + n[k]
      BY <3>1, <2>4, <2>5, <1>6
    <3>3. moved'[k] = moved[k] + n[k] /\ (moved[k] - a.moved[k]) + n[k] = moved'[k] - a.moved[k]
      BY <1>6, <1>7, <3>1
    <3>4. CASE a.count[k] = Absent
      BY <2>2, <3>2, <3>4, <1>3, <1>4 DEF PowerApart
    <3>5. CASE a.count[k] # Absent
      <4>1. a.count[k] \in 0 .. MaxEnergy BY <1>6, <2>2, <2>5, <3>5
      <4>2. ASSUME a.born[k] = born[k]
            PROVE  Carried(a.count[k], count'[k], moved'[k] - a.moved[k])
        <5>1. Carried(a.count[k], count[k], moved[k] - a.moved[k])
          BY <2>1, <3>1, <3>5, <4>2, <1>3, <1>6 DEF PowerApart
        <5>2. moved[k] - a.moved[k] \in Int /\ n[k] \in 0 .. 1 BY <1>6
        <5>3. Carried(a.count[k], IF count[k] + n[k] = MaxEnergy + 1 THEN 0 ELSE count[k] + n[k],
                      (moved[k] - a.moved[k]) + n[k])
          BY <5>1, <4>1, <3>1, <2>5, <5>2, CarriedOn
        <5>4. Carried(a.count[k], count'[k], (moved[k] - a.moved[k]) + n[k])
          BY <5>3, <2>4, <3>1
        <5> QED BY <5>4, <3>3
      <4>3. ASSUME a.born[k] < born[k]
            PROVE  count'[k] <= moved'[k] - a.moved[k]
        <5>1. count[k] <= moved[k] - a.moved[k]
          BY <2>1, <3>1, <3>5, <4>3, <1>3, <1>6 DEF PowerApart
        <5> QED BY <5>1, <3>1, <3>2, <3>3, <1>6
      <4>4. PowerApart(a, Sample, k)'
        BY <2>2, <4>2, <4>3, <1>3, <1>4 DEF PowerApart
      <4>5. ASSUME moved'[k] <= a.moved[k], born[k] = a.born[k]
            PROVE  Carried(count'[k], a.count[k], a.moved[k] - moved'[k])
        <5>0. moved'[k] = moved[k] + n[k] /\ moved'[k] <= a.moved[k] BY <4>5, <3>3
        <5>1. n[k] = 0 /\ moved[k] = a.moved[k] /\ moved'[k] = moved[k]
          BY <5>0, <1>6, NoMove
        <5>2. count'[k] = count[k]
          <6>1. ~(count[k] + n[k] = MaxEnergy + 1) BY <5>1, <3>1, <2>5
          <6> QED BY <6>1, <5>1, <2>4, <3>1
        <5>3. Carried(count[k], a.count[k], a.moved[k] - moved[k])
          BY <2>1, <3>1, <3>5, <4>5, <5>1, <1>3, <1>6 DEF PowerApart
        <5> QED BY <5>1, <5>2, <5>3
      <4>6. PowerApart(Sample, a, k)'
        BY <3>2, <4>5, <2>5, <1>3, <1>4 DEF PowerApart
      <4> QED BY <4>4, <4>6
    <3> QED BY <3>4, <3>5
  <2> QED BY <2>6, <2>7
<1>9. ASSUME kind \in Cpu PROVE CpuApart(a, Sample, k)' /\ CpuApart(Sample, a, k)'
  <2>1. CpuApart(a, Sample, k) /\ CpuApart(Sample, a, k) BY <1>2, <1>9 DEF Consistent
  <2>2. kind \notin Power BY <1>9, KindsApart
  <2>3. count[k] = moved[k] + 1 /\ count[k] # Absent BY <2>1, <1>3, <1>6 DEF CpuApart, Absent
  <2>4. count'[k] = count[k] + n[k] /\ moved'[k] = moved[k] + n[k] BY <2>2, <2>3, <1>5, TickCount
  <2>5. count'[k] = moved'[k] + 1 /\ a.moved[k] <= moved'[k] BY <2>3, <2>4, <1>6
  <2>6. ~(Sample'.at <= a.at) BY <1>0, <1>1, <1>3
  <2>7. a.count[k] = a.moved[k] + 1 BY <2>1 DEF CpuApart
  <2> QED BY <2>5, <2>6, <2>7, <1>3 DEF CpuApart
<1>10. ASSUME kind \notin Power \cup Cpu
  PROVE OtherApart(a, Sample, k)' /\ OtherApart(Sample, a, k)'
  <2>1. OtherApart(a, Sample, k) /\ OtherApart(Sample, a, k) BY <1>2, <1>10 DEF Consistent
  <2>2. count[k] # Absent => count'[k] = count[k] + n[k] /\ moved'[k] = moved[k] + n[k]
    BY <1>5, <1>7, <1>10, TickCount
  <2>3. OtherApart(a, Sample, k)' BY <2>1, <2>2, <1>3, <1>4, <1>6, <1>7 DEF OtherApart
  <2>4. OtherApart(Sample, a, k)' BY <2>1, <2>2, <1>3, <1>4, <1>6, <1>7 DEF OtherApart
  <2> QED BY <2>3, <2>4
<1> QED BY <1>8, <1>9, <1>10

LEMMA SampleTaken ==
  ASSUME RatesAssumption, Typed PROVE Taken(Sample)
<1>1. now \in Nat /\ MaxTime \in Nat /\ now <= MaxTime BY DEF Typed, RatesAssumption
<1>2. moved \in [Keys -> Nat] /\ born \in [Keys -> Nat] BY DEF Typed
<1>3. \A k \in Keys : count[k] = Absent \/ count[k] \in 0 .. now BY DEF Typed
<1> QED BY <1>1, <1>2, <1>3, SampleIs DEF Taken

\* The counters of now, and a reading of now.
LEMMA SampleOfNow ==
  ASSUME RatesAssumption, RateInv, NEW k \in Live
  PROVE  /\ kind \in Power /\ count[k] # Absent => count[k] <= MaxEnergy
         /\ kind \in Cpu => count[k] = moved[k] + 1
<1>1. Consistent(Sample, Sample) BY DEF RateInv, Seen
<1>2. Sample.count = count /\ Sample.moved = moved BY SampleIs DEF RateInv
<1> QED BY <1>1, <1>2 DEF Consistent, PowerApart, CpuApart

LEMMA SampleApartNext ==
  ASSUME RatesAssumption, Typed', kind' = kind,
         \A k \in Live : kind \in Power => count'[k] <= MaxEnergy,
         \A k \in Live : kind \in Cpu => count'[k] = moved'[k] + 1
  PROVE  Consistent(Sample, Sample)'
<1>0. Live' = Live BY DEF Live
<1> SUFFICES ASSUME NEW k \in Live
             PROVE /\ kind \in Power => PowerApart(Sample, Sample, k)'
                   /\ kind \in Cpu => CpuApart(Sample, Sample, k)'
                   /\ kind \notin Power \cup Cpu => OtherApart(Sample, Sample, k)'
  BY <1>0 DEF Consistent
<1>1. /\ Sample'.at = now' /\ Sample'.count = count' /\ Sample'.moved = moved'
           /\ Sample'.born = born'
  BY SampleNext
<1>2. count'[k] \in Int /\ moved'[k] \in Nat /\ born'[k] \in Nat /\ MaxEnergy \in Nat
  BY LiveKeys DEF Typed, RatesAssumption
<1>3. count'[k] - count'[k] = 0 /\ moved'[k] - moved'[k] = 0 BY <1>2
<1>4. count'[k] >= count'[k] /\ moved'[k] <= moved'[k] /\ 0 <= 0 /\ ~(born'[k] < born'[k]) BY <1>2
<1> QED BY <1>1, <1>2, <1>3, <1>4 DEF PowerApart, CpuApart, OtherApart, Carried

LEMMA TickInv ==
  ASSUME RatesAssumption, RateInv, NEW n \in [Keys -> 0 .. 1], Tick(n)
  PROVE  RateInv'
<1>1. now' = now + 1 /\ now \in Nat /\ now' <= MaxTime /\ kind' = kind /\ born' = born
      /\ kept' = kept /\ pass' = pass
  BY DEF Tick, RateInv, Typed, RatesAssumption
<1>2. ASSUME NEW k \in Keys
      PROVE /\ count'[k] \in Int /\ moved'[k] \in Nat /\ moved'[k] < now' /\ born'[k] <= now'
            /\ moved[k] <= moved'[k]
            /\ count'[k] = Absent \/ count'[k] \in 0 .. now'
  <2>1. moved[k] \in Nat /\ moved[k] < now /\ born[k] \in Nat /\ born[k] <= now
    BY DEF RateInv, Typed
  <2>2. n[k] \in 0 .. 1 /\ moved'[k] = IF count[k] = Absent THEN moved[k] ELSE moved[k] + n[k]
    BY TickCount
  <2>3. count'[k] = Absent \/ count'[k] \in 0 .. now + 1 BY TickCount
  <2> QED BY <1>1, <2>1, <2>2, <2>3 DEF Absent
<1>3. count' \in [Keys -> Int] /\ moved' \in [Keys -> Nat] BY <1>2 DEF Tick
<1>4. Typed' BY <1>1, <1>2, <1>3 DEF RateInv, Typed
<1>5. Taken(Sample)'
  <2>1. /\ now' \in Nat /\ MaxTime \in Nat /\ now' <= MaxTime BY <1>1 DEF RatesAssumption
  <2>2. \A k \in Keys : count'[k] = Absent \/ count'[k] \in 0 .. MaxTime BY <1>2, <2>1
  <2>3. \A k \in Keys : moved'[k] \in Nat /\ born'[k] \in Nat BY <1>4 DEF Typed
  <2> QED BY <1>4, <2>1, <2>2, <2>3, SampleNext DEF Taken
<1>6. \A a \in Seen : Consistent(a, Sample)' /\ Consistent(Sample, a)' BY <1>4, TickApart
<1>7. Consistent(Sample, Sample)'
  <2>1. \A k \in Live : kind \in Power => count'[k] <= MaxEnergy
    <3> SUFFICES ASSUME NEW k \in Live, kind \in Power PROVE count'[k] <= MaxEnergy
      OBVIOUS
    <3>1. k \in Keys /\ MaxEnergy \in Nat BY LiveKeys DEF RatesAssumption
    <3>2. CASE count[k] = Absent BY <3>1, <3>2, TickCount DEF Absent
    <3>3. CASE count[k] # Absent
      <4>1. count[k] <= MaxEnergy /\ count[k] \in Nat /\ n[k] \in 0 .. 1
        BY <3>1, <3>3, SampleOfNow, TickCount DEF RateInv, Typed
      <4>2. count'[k] = IF count[k] + n[k] = MaxEnergy + 1 THEN 0 ELSE count[k] + n[k]
        BY <3>1, <3>3, TickCount
      <4> QED BY <3>1, <4>1, <4>2
    <3> QED BY <3>2, <3>3
  <2>2. \A k \in Live : kind \in Cpu => count'[k] = moved'[k] + 1
    <3> SUFFICES ASSUME NEW k \in Live, kind \in Cpu PROVE count'[k] = moved'[k] + 1
      OBVIOUS
    <3>1. k \in Keys /\ count[k] = moved[k] + 1 /\ moved[k] \in Nat
      BY LiveKeys, SampleOfNow DEF RateInv, Typed
    <3>2. count[k] # Absent /\ kind \notin Power BY <3>1, KindsApart DEF Absent
    <3>3. count'[k] = count[k] + n[k] /\ moved'[k] = moved[k] + n[k] /\ n[k] \in 0 .. 1
      BY <3>1, <3>2, TickCount
    <3> QED BY <3>1, <3>3
  <2>3. Live' = Live /\ kind' = kind BY <1>1 DEF Live
  <2> QED BY <1>4, <2>1, <2>2, <2>3, SampleApartNext
<1>8. (\A k \in Keys : moved[k] <= moved'[k] /\ born[k] <= born'[k]) /\ now <= now'
  <2>1. \A k \in Keys : born[k] \in Nat BY DEF RateInv, Typed
  <2> QED BY <1>1, <1>2, <2>1
<1> QED BY <1>1, <1>4, <1>5, <1>6, <1>7, <1>8, MachineMoves

\* Of the steps that change the counters while the clock stands still.
LEMMA CounterChanges ==
  ASSUME RatesAssumption, RateInv, Typed', kind' = kind, now' = now, moved' = moved,
           kept' = kept, pass' = pass,
         \A k \in Keys : born[k] <= born'[k],
         kind \in Cpu => count' = count,
         \A k \in Live : kind \in Power => count'[k] <= MaxEnergy,
         \A k \in Keys : count'[k] # Absent => count'[k] \in 0 .. MaxTime,
         kind \in Power => \A a \in Seen : \A k \in Live :
           PowerApart(a, Sample, k)' /\ PowerApart(Sample, a, k)',
         kind \notin Power \cup Cpu => \A a \in Seen : \A k \in Live :
           OtherApart(a, Sample, k)' /\ OtherApart(Sample, a, k)'
  PROVE  RateInv'
<1>1. Live' = Live BY DEF Live
<1>2. ASSUME NEW a \in Seen, NEW k \in Live
      PROVE /\ kind \in Power => PowerApart(a, Sample, k)' /\ PowerApart(Sample, a, k)'
            /\ kind \in Cpu => CpuApart(a, Sample, k)' /\ CpuApart(Sample, a, k)'
  <2>1. Consistent(a, Sample) /\ Consistent(Sample, a) BY DEF RateInv, Seen
  <2>2. /\ Sample.at = now /\ Sample.count = count /\ Sample.moved = moved
        /\ Sample'.at = now /\ Sample'.count = count' /\ Sample'.moved = moved
    BY SampleIs, SampleNext DEF RateInv
  <2>3. ASSUME kind \in Power PROVE PowerApart(a, Sample, k)' /\ PowerApart(Sample, a, k)'
    BY <2>3
  <2>4. ASSUME kind \in Cpu PROVE CpuApart(a, Sample, k)' /\ CpuApart(Sample, a, k)'
    <3>1. CpuApart(a, Sample, k) /\ CpuApart(Sample, a, k) BY <2>1, <2>4 DEF Consistent
    <3> QED BY <3>1, <2>2, <2>4 DEF CpuApart
  <2> QED BY <2>3, <2>4
<1>3. \A a \in Seen : Consistent(a, Sample)' /\ Consistent(Sample, a)'
  BY <1>1, <1>2 DEF Consistent
<1>4. Consistent(Sample, Sample)'
  <2>1. \A k \in Live : kind \in Power => count'[k] <= MaxEnergy OBVIOUS
  <2>2. \A k \in Live : kind \in Cpu => count'[k] = moved'[k] + 1 BY SampleOfNow
  <2> QED BY <2>1, <2>2, SampleApartNext
<1>5. Taken(Sample)'
  <2>1. \A k \in Keys : moved'[k] \in Nat /\ born'[k] \in Nat BY DEF Typed
  <2>2. now' \in Nat BY DEF Typed
  <2> QED BY <2>1, <2>2, SampleNext DEF Taken
<1>6. (\A k \in Keys : moved[k] <= moved'[k]) /\ now <= now'
  BY DEF RateInv, Typed
<1> QED BY <1>3, <1>4, <1>5, <1>6, MachineMoves

LEMMA StartsAgainInv ==
  ASSUME RatesAssumption, RateInv, NEW j \in Keys, StartsAgain(j)
  PROVE  RateInv'
<1>1. /\ kind \notin Cpu /\ j \in Live /\ born[j] = 0
      /\ count' = [count EXCEPT ![j] = 0] /\ born' = [born EXCEPT ![j] = now]
      /\ kind' = kind /\ now' = now /\ moved' = moved /\ kept' = kept /\ pass' = pass
  BY DEF StartsAgain
<1>2. /\ now \in Nat \ {0} /\ now <= MaxTime /\ MaxTime \in Nat
      /\ count \in [Keys -> Int] /\ moved \in [Keys -> Nat] /\ born \in [Keys -> Nat]
      /\ \A k \in Keys : moved[k] < now /\ born[k] <= now
           /\ (count[k] = Absent \/ count[k] \in 0 .. now)
  BY DEF RateInv, Typed, RatesAssumption
<1>3. /\ count' \in [Keys -> Int] /\ born' \in [Keys -> Nat]
      /\ \A k \in Keys : count'[k] = IF k = j THEN 0 ELSE count[k]
      /\ \A k \in Keys : born'[k] = IF k = j THEN now ELSE born[k]
  BY <1>1, <1>2
<1>4. Typed'
  <2>1. \A k \in Keys : born'[k] <= now /\ (count'[k] = Absent \/ count'[k] \in 0 .. now)
    BY <1>2, <1>3
  <2> QED BY <1>1, <1>2, <1>3, <2>1 DEF RateInv, Typed
<1>5. \A k \in Keys : born[k] <= born'[k] BY <1>1, <1>2, <1>3
<1>6. \A k \in Keys : count'[k] # Absent => count'[k] \in 0 .. MaxTime BY <1>2, <1>3
<1>7. ASSUME NEW a \in Seen, NEW k \in Live
      PROVE  /\ kind \notin Power \cup Cpu
                  => OtherApart(a, Sample, k)' /\ OtherApart(Sample, a, k)'
             /\ kind \in Power => PowerApart(a, Sample, k)' /\ PowerApart(Sample, a, k)'
  <2>1. Consistent(a, Sample) /\ Consistent(Sample, a) /\ Taken(a) /\ a \in ReadingSet
    BY DEF RateInv, Seen, Taken
  <2>2. /\ kind \notin Power \cup Cpu => OtherApart(a, Sample, k) /\ OtherApart(Sample, a, k)
        /\ kind \in Power => PowerApart(a, Sample, k) /\ PowerApart(Sample, a, k)
    BY <2>1, <1>1 DEF Consistent
  <2>3. /\ Sample.count = count /\ Sample.moved = moved /\ Sample.born = born
        /\ Sample'.count = count' /\ Sample'.moved = moved /\ Sample'.born = born'
    BY <1>1, <1>4, SampleIs, SampleNext DEF RateInv
  <2>4. k \in Keys BY LiveKeys
  <2>5. /\ a.count[k] \in Int /\ a.moved[k] \in Nat /\ a.born[k] \in Nat
        /\ a.moved[k] <= moved[k] /\ a.born[k] <= born[k]
        /\ a.count[k] # Absent => a.count[k] \in Nat
        /\ moved[k] \in Nat /\ born[k] \in Nat /\ count[k] \in Int
    BY <1>2, <2>1, <2>4, Fields DEF Taken
  <2>6. CASE k = j
    <3>1. count'[k] = 0 /\ born'[k] = now /\ a.born[k] = 0 /\ now > 0
      BY <1>1, <1>2, <1>3, <2>4, <2>5, <2>6
    <3>2. OtherApart(a, Sample, k)' BY <3>1, <2>3, <2>5 DEF OtherApart
    <3>3. ~(born'[k] <= a.born[k]) /\ ~(born'[k] = a.born[k]) /\ ~(born'[k] < a.born[k])
      BY <3>1, <1>2
    <3>4. OtherApart(Sample, a, k)' BY <3>3, <2>3 DEF OtherApart
    <3>5. ASSUME kind \in Power PROVE PowerApart(a, Sample, k)' /\ PowerApart(Sample, a, k)'
      <4>1. MaxEnergy \in Nat /\ 0 <= MaxEnergy /\ (a.count[k] # Absent
              => a.count[k] <= MaxEnergy)
        BY <2>2, <3>5 DEF RatesAssumption, PowerApart
      <4>2. 0 <= moved[k] - a.moved[k] BY <2>5
      <4>3. PowerApart(a, Sample, k)'
        BY <3>1, <3>3, <4>1, <4>2, <1>1, <2>3 DEF PowerApart
      <4>4. PowerApart(Sample, a, k)'
        BY <3>1, <3>3, <4>1, <1>1, <2>3 DEF PowerApart
      <4> QED BY <4>3, <4>4
    <3> QED BY <3>2, <3>4, <3>5
  <2>7. CASE k # j
    <3>1. count'[k] = count[k] /\ born'[k] = born[k] BY <1>3, <2>4, <2>7
    <3>2. ASSUME kind \notin Power \cup Cpu
          PROVE  OtherApart(a, Sample, k)' /\ OtherApart(Sample, a, k)'
      BY <3>1, <3>2, <2>2, <2>3 DEF OtherApart
    <3>3. ASSUME kind \in Power PROVE PowerApart(a, Sample, k)' /\ PowerApart(Sample, a, k)'
      BY <3>1, <3>3, <2>2, <2>3 DEF PowerApart
    <3> QED BY <3>2, <3>3
  <2> QED BY <2>6, <2>7
<1>8. \A k \in Live : kind \in Power => count'[k] <= MaxEnergy
  <2> SUFFICES ASSUME NEW k \in Live, kind \in Power PROVE count'[k] <= MaxEnergy
    OBVIOUS
  <2>1. k \in Keys /\ MaxEnergy \in Nat BY LiveKeys DEF RatesAssumption
  <2>2. count[k] <= MaxEnergy
    <3>1. count[k] # Absent => count[k] <= MaxEnergy BY SampleOfNow
    <3> QED BY <2>1, <3>1 DEF Absent
  <2> QED BY <1>3, <2>1, <2>2
<1>9. kind \in Cpu => count' = count BY <1>1
<1>10. /\ kind' = kind /\ now' = now /\ moved' = moved /\ kept' = kept /\ pass' = pass BY <1>1
<1> QED BY <1>4, <1>5, <1>6, <1>7, <1>8, <1>9, <1>10, CounterChanges

LEMMA VanishesInv ==
  ASSUME RatesAssumption, RateInv, NEW j \in Keys, Vanishes(j)
  PROVE  RateInv'
<1>1. /\ kind \notin Cpu /\ j \in Live /\ count' = [count EXCEPT ![j] = Absent]
      /\ kind' = kind /\ now' = now /\ moved' = moved /\ born' = born /\ kept' = kept
           /\ pass' = pass
  BY DEF Vanishes
<1>2. /\ now \in Nat \ {0} /\ now <= MaxTime /\ MaxTime \in Nat
      /\ count \in [Keys -> Int] /\ moved \in [Keys -> Nat] /\ born \in [Keys -> Nat]
      /\ \A k \in Keys : moved[k] < now /\ born[k] <= now
           /\ (count[k] = Absent \/ count[k] \in 0 .. now)
  BY DEF RateInv, Typed, RatesAssumption
<1>3. /\ count' \in [Keys -> Int]
      /\ \A k \in Keys : count'[k] = IF k = j THEN Absent ELSE count[k]
  BY <1>1, <1>2 DEF Absent
<1>4. Typed'
  <2>1. \A k \in Keys : count'[k] = Absent \/ count'[k] \in 0 .. now
    BY <1>2, <1>3
  <2> QED BY <1>1, <1>2, <1>3, <2>1 DEF RateInv, Typed
<1>5. \A k \in Keys : born[k] <= born'[k] BY <1>1, <1>2
<1>6. \A k \in Keys : count'[k] # Absent => count'[k] \in 0 .. MaxTime BY <1>2, <1>3
<1>7. ASSUME NEW a \in Seen, NEW k \in Live
      PROVE  /\ kind \notin Power \cup Cpu
                  => OtherApart(a, Sample, k)' /\ OtherApart(Sample, a, k)'
             /\ kind \in Power => PowerApart(a, Sample, k)' /\ PowerApart(Sample, a, k)'
  <2>1. Consistent(a, Sample) /\ Consistent(Sample, a) BY DEF RateInv, Seen
  <2>2. /\ kind \notin Power \cup Cpu => OtherApart(a, Sample, k) /\ OtherApart(Sample, a, k)
        /\ kind \in Power => PowerApart(a, Sample, k) /\ PowerApart(Sample, a, k)
    BY <2>1 DEF Consistent
  <2>3. /\ Sample.count = count /\ Sample.moved = moved /\ Sample.born = born
        /\ Sample'.count = count' /\ Sample'.moved = moved /\ Sample'.born = born
    BY <1>1, <1>4, SampleIs, SampleNext DEF RateInv
  <2>4. k \in Keys BY LiveKeys
  <2>5. count'[k] = Absent \/ count'[k] = count[k] BY <1>3, <2>4
  <2>6. ASSUME kind \notin Power \cup Cpu
        PROVE  OtherApart(a, Sample, k)' /\ OtherApart(Sample, a, k)'
    BY <2>2, <2>3, <2>5, <2>6 DEF OtherApart
  <2>7. ASSUME kind \in Power PROVE PowerApart(a, Sample, k)' /\ PowerApart(Sample, a, k)'
    BY <2>2, <2>3, <2>5, <2>7 DEF PowerApart
  <2> QED BY <2>6, <2>7
<1>8. \A k \in Live : kind \in Power => count'[k] <= MaxEnergy
  <2> SUFFICES ASSUME NEW k \in Live, kind \in Power PROVE count'[k] <= MaxEnergy
    OBVIOUS
  <2>1. k \in Keys /\ MaxEnergy \in Nat BY LiveKeys DEF RatesAssumption
  <2>2. count[k] # Absent => count[k] <= MaxEnergy BY SampleOfNow
  <2> QED BY <1>3, <2>1, <2>2 DEF Absent
<1> QED BY <1>1, <1>4, <1>5, <1>6, <1>7, <1>8, CounterChanges

\* A stamp does not change what a reading says of the counters.
LEMMA SeenAlike == ASSUME RateInv, NEW r \in Seen PROVE Alike(r)
<1>1. Taken(r) BY DEF RateInv
<1> QED BY <1>1 DEF Taken, Alike

LEMMA AlikeApart ==
  ASSUME RateInv
  PROVE  /\ \A a : Alike(a) => Taken(a)
         /\ \A a, b : Alike(a) /\ Alike(b) => Consistent(a, b)
<1>1. ASSUME NEW a, Alike(a) PROVE Taken(a)
  <2>1. PICK y \in Seen : a.count = y.count /\ a.moved = y.moved /\ a.born = y.born
    BY <1>1 DEF Alike
  <2>2. Taken(y) BY DEF RateInv
  <2>3. a \in ReadingSet /\ a.set /\ a.at <= now BY <1>1 DEF Alike
  <2> QED BY <2>1, <2>2, <2>3 DEF Taken
<1>2. ASSUME NEW a, NEW b, Alike(a), Alike(b) PROVE Consistent(a, b)
  <2>1. PICK y \in Seen : /\ a.count = y.count /\ a.moved = y.moved /\ a.born = y.born
                          /\ a = y \/ kind \notin Cpu
    BY <1>2 DEF Alike
  <2>2. PICK z \in Seen : /\ b.count = z.count /\ b.moved = z.moved /\ b.born = z.born
                          /\ b = z \/ kind \notin Cpu
    BY <1>2 DEF Alike
  <2>3. Consistent(y, z) BY DEF RateInv
  <2>4. CASE kind \in Cpu
    <3>1. a = y /\ b = z BY <2>1, <2>2, <2>4
    <3> QED BY <2>3, <3>1
  <2>5. CASE kind \notin Cpu
    <3> SUFFICES ASSUME NEW k \in Live
                 PROVE  /\ kind \in Power => PowerApart(a, b, k)
                        /\ kind \notin Power \cup Cpu => OtherApart(a, b, k)
      BY <2>5 DEF Consistent
    <3>1. /\ kind \in Power => PowerApart(y, z, k)
          /\ kind \notin Power \cup Cpu => OtherApart(y, z, k)
      BY <2>3 DEF Consistent
    <3>2. PowerApart(a, b, k) = PowerApart(y, z, k) BY <2>1, <2>2 DEF PowerApart
    <3>3. OtherApart(a, b, k) = OtherApart(y, z, k) BY <2>1, <2>2 DEF OtherApart
    <3> QED BY <3>1, <3>2, <3>3
  <2> QED BY <2>4, <2>5
<1> QED BY <1>1, <1>2

LEMMA PassMoves ==
  ASSUME RatesAssumption, RateInv, NEW p \in Passes, NEW q \in PassSet, NEW x \in ReadingSet,
         Alike(x),
         kind' = kind, now' = now, count' = count, moved' = moved, born' = born,
         pass' = [pass EXCEPT ![p] = q], Held(q),
         q.got.set => q.got \in Seen \cup {x}, q.prev.set => q.prev \in Seen \cup {x},
         kept' \in ReadingSet, kept'.set => kept' \in Seen \cup {x}
  PROVE  RateInv'
<1>1. Typed'
  BY DEF RateInv, Typed
<1>2. \A o \in Passes : Held(pass[o])'
  <2>0. StampsFirst' = StampsFirst BY DEF StampsFirst
  <2>1. Held(q)' BY <2>0 DEF Held
  <2>2. \A o \in Passes : pass'[o] = IF o = p THEN q ELSE pass[o] BY DEF RateInv, Typed
  <2>3. ASSUME NEW o \in Passes PROVE Held(pass[o])'
    <3>1. CASE o = p BY <3>1, <2>1, <2>2 DEF Held
    <3>2. CASE o # p
      <4>1. Held(pass[o]) /\ pass'[o] = pass[o] BY <2>2, <3>2 DEF RateInv
      <4> QED BY <4>1, <2>0 DEF Held
    <3> QED BY <3>1, <3>2
  <2> QED BY <2>3
<1>3. Sample' = Sample BY DEF Sample
<1>4. \A r \in Seen' : r \in Seen \cup {x}
  <2> SUFFICES ASSUME NEW r \in Seen' PROVE r \in Seen \cup {x}
    OBVIOUS
  <2>1. CASE r = Sample BY <2>1 DEF Seen
  <2>2. CASE r # Sample
    <3>1. r \in Readings' /\ r.set BY <1>3, <2>2 DEF Seen
    <3>2. \A o \in Passes : pass'[o] = IF o = p THEN q ELSE pass[o] BY DEF RateInv, Typed
    <3>3. CASE r = kept' BY <3>1, <3>3
    <3>4. CASE \E o \in Passes : r = pass'[o].got \/ r = pass'[o].prev
      <4>1. PICK o \in Passes : r = pass'[o].got \/ r = pass'[o].prev BY <3>4
      <4>2. CASE o = p BY <3>1, <3>2, <4>1, <4>2
      <4>3. CASE o # p
        <5>1. r = pass[o].got \/ r = pass[o].prev BY <3>2, <4>1, <4>3
        <5> QED BY <5>1, <3>1 DEF Seen, Readings
      <4> QED BY <4>2, <4>3
    <3> QED BY <3>1, <3>3, <3>4 DEF Readings
  <2> QED BY <2>1, <2>2
<1>0. \A r \in Seen : Alike(r) BY SeenAlike
<1>5. \A r \in Seen \cup {x} : Taken(r)
  BY <1>0, AlikeApart
<1>6. \A a, b \in Seen \cup {x} : Consistent(a, b)
  BY <1>0, AlikeApart
<1>7. \A r \in Seen' : Taken(r)'
  <2>1. ASSUME NEW r, Taken(r) PROVE Taken(r)' BY <2>1 DEF Taken
  <2> QED BY <1>4, <1>5, <2>1
<1>8. \A a, b \in Seen' : Consistent(a, b)'
  <2>1. ASSUME NEW a, NEW b, Consistent(a, b) PROVE Consistent(a, b)' BY <2>1 DEF Consistent, Live
  <2> QED BY <1>4, <1>6, <2>1
<1> QED BY <1>1, <1>2, <1>7, <1>8 DEF RateInv

LEMMA HeldAre ==
  ASSUME RateInv, NEW p \in Passes
  PROVE  /\ pass[p] \in PassSet /\ Held(pass[p]) /\ pass[p].got \in ReadingSet
              /\ pass[p].prev \in ReadingSet
         /\ pass[p].got.set => pass[p].got \in Seen
         /\ pass[p].prev.set => pass[p].prev \in Seen
         /\ kept \in ReadingSet /\ (kept.set => kept \in Seen)
         /\ Sample \in Seen /\ Sample \in ReadingSet /\ Sample.set
<1>1. pass[p] \in PassSet /\ kept \in ReadingSet /\ Sample \in ReadingSet /\ Sample.set
  BY SampleIs DEF RateInv, Typed
<1> QED BY <1>1 DEF RateInv, Typed, PassSet, Seen, Readings

LEMMA AtRestIs == AtRest \in PassSet /\ ~AtRest.got.set /\ ~AtRest.prev.set /\ AtRest.at = "idle"
BY NoReadingIs DEF AtRest, PassSet, Stages

Marked(n, q, at, r) == n \in PassSet /\ n.at = at /\ n.got = q.got /\ n.prev = r

LEMMA RecordAt ==
  \A q \in PassSet : \A at \in Stages :
    \A r \in ReadingSet : Marked([q EXCEPT !.at = at, !.prev = r], q, at, r)
BY DEF PassSet, Marked

LEMMA StampIs ==
  ASSUME NEW r \in ReadingSet, NEW t \in Nat
  PROVE  /\ [r EXCEPT !.at = t] \in ReadingSet /\ [r EXCEPT !.at = t].set = r.set
         /\ [r EXCEPT !.at = t].at = t /\ [r EXCEPT !.at = t].count = r.count
         /\ [r EXCEPT !.at = t].moved = r.moved /\ [r EXCEPT !.at = t].born = r.born
         /\ t = r.at => [r EXCEPT !.at = t] = r
BY DEF ReadingSet

LEMMA PassIs ==
  ASSUME NEW y \in ReadingSet, NEW z \in ReadingSet, NEW at \in Stages
  PROVE  /\ [at |-> at, got |-> y, prev |-> z] \in PassSet
         /\ [at |-> at, got |-> y, prev |-> z].at = at
         /\ [at |-> at, got |-> y, prev |-> z].got = y
         /\ [at |-> at, got |-> y, prev |-> z].prev = z
BY DEF PassSet

LEMMA EarlyNotCpu == StampsFirst => kind \notin Cpu
BY DEF StampsFirst, Power, Cpu

\* The stamp put to a reading that has been made.
LEMMA StampedIs ==
  ASSUME RateInv, NEW p \in Passes, pass[p].got.set, NEW r \in Stamped(pass[p])
  PROVE  Alike(r) /\ pass[p].got.at <= r.at
<1> DEFINE g == pass[p].got
<1>1. g \in ReadingSet /\ g \in Seen /\ Alike(g) BY HeldAre, SeenAlike
<1>2. g.at \in Nat /\ now \in Nat /\ g.at <= now BY <1>1 DEF ReadingSet, RateInv, Typed, Alike
<1>3. CASE StampsLast(pass[p].at)
  <2>1. PICK t \in g.at .. now : r = [g EXCEPT !.at = t] BY <1>3 DEF Stamped
  <2>2. t \in Nat /\ g.at <= t /\ t <= now BY <1>2, <2>1
  <2>3. /\ r \in ReadingSet /\ r.set = g.set /\ r.at = t /\ r.count = g.count
        /\ r.moved = g.moved /\ r.born = g.born
    <3> HIDE DEF g
    <3> QED BY <1>1, <2>1, <2>2, StampIs
  <2>4. kind \notin Cpu BY <1>3 DEF StampsLast, Power, Cpu
  <2> HIDE DEF g
  <2>5. Alike(r)
    <3>1. r.set /\ r.at <= now BY <1>1, <2>2, <2>3 DEF Alike
    <3> QED BY <1>1, <2>3, <2>4, <3>1 DEF Alike
  <2> QED BY <2>2, <2>3, <2>5 DEF g
<1>4. CASE ~StampsLast(pass[p].at)
  <2>1. r = g BY <1>4 DEF Stamped
  <2> QED BY <1>1, <1>2, <2>1
<1> QED BY <1>3, <1>4

LEMMA ReadsInv ==
  ASSUME RatesAssumption, RateInv, NEW p \in Passes, Reads(p)
  PROVE  RateInv'
<1> DEFINE t == IF StampsFirst THEN pass[p].got.at ELSE now
           x == [Sample EXCEPT !.at = t]
           q == [AtRest EXCEPT !.at = "read", !.got = x]
<1>1. /\ kind' = kind /\ now' = now /\ count' = count /\ moved' = moved /\ born' = born
           /\ kept' = kept
      /\ pass' = [pass EXCEPT ![p] = q]
      /\ StampsFirst => pass[p].at = "stamped"
  BY DEF Reads
<1>2. Sample \in ReadingSet /\ Sample.set /\ Sample.at = now /\ Sample \in Seen /\ now \in Nat
  BY SampleIs DEF RateInv, Typed, Seen
<1>3. t \in Nat /\ t <= now /\ (t = now \/ kind \notin Cpu)
  <2>1. CASE StampsFirst
    <3>1. pass[p].got.at <= now BY <1>1, <2>1, HeldAre DEF Held
    <3>2. pass[p].got.at \in Nat BY HeldAre DEF ReadingSet
    <3> QED BY <2>1, <3>1, <3>2, EarlyNotCpu
  <2>2. CASE ~StampsFirst BY <1>2, <2>2
  <2> QED BY <2>1, <2>2
<1> HIDE DEF t
<1>4. /\ x \in ReadingSet /\ x.set = Sample.set /\ x.at = t /\ x.count = Sample.count
      /\ x.moved = Sample.moved /\ x.born = Sample.born /\ (t = Sample.at => x = Sample)
  BY <1>2, <1>3, StampIs
<1>5. q \in PassSet /\ q.at = "read" /\ q.got = x /\ ~q.prev.set
  <2>1. ASSUME NEW y \in ReadingSet, NEW z \in PassSet
        PROVE /\ [z EXCEPT !.at = "read", !.got = y] \in PassSet
              /\ [z EXCEPT !.at = "read", !.got = y].at = "read"
              /\ [z EXCEPT !.at = "read", !.got = y].got = y
              /\ [z EXCEPT !.at = "read", !.got = y].prev = z.prev
    BY DEF PassSet, Stages
  <2> HIDE DEF x
  <2> QED BY <2>1, <1>4, AtRestIs
<1> HIDE DEF x
<1>6. Alike(x) /\ x.set
  <2>1. x.set /\ x.at <= now BY <1>2, <1>3, <1>4
  <2>2. x = Sample \/ kind \notin Cpu BY <1>2, <1>3, <1>4
  <2> QED BY <1>2, <1>4, <2>1, <2>2 DEF Alike
<1> HIDE DEF q
<1>7. Held(q) BY <1>5, <1>6 DEF Held
<1>8. kept' \in ReadingSet /\ (kept'.set => kept' \in Seen) BY <1>1, HeldAre
<1> QED BY <1>1, <1>4, <1>5, <1>6, <1>7, <1>8, PassMoves

\* A step that takes no reading.
LEMMA KeepsMove ==
  ASSUME RatesAssumption, RateInv, NEW p \in Passes, NEW q \in PassSet,
         UNCHANGED <<kind, now, count, moved, born>>,
         pass' = [pass EXCEPT ![p] = q], Held(q),
         q.got.set => q.got \in Seen, q.prev.set => q.prev \in Seen,
         kept' \in ReadingSet, kept'.set => kept' \in Seen
  PROVE  RateInv'
<1>1. Sample \in ReadingSet /\ Sample \in Seen
  BY SampleIs DEF RateInv, Seen
<1>2. Alike(Sample) BY <1>1, SeenAlike
<1>3. /\ kind' = kind /\ now' = now /\ count' = count /\ moved' = moved /\ born' = born
  OBVIOUS
<1> QED BY <1>1, <1>2, <1>3, PassMoves

LEMMA StampsInv ==
  ASSUME RatesAssumption, RateInv, NEW p \in Passes, Stamps(p)
  PROVE  RateInv'
<1> DEFINE q == [AtRest EXCEPT !.at = "stamped", !.got.at = now]
<1>1. StampsFirst /\ UNCHANGED <<kind, now, count, moved, born, kept>>
      /\ pass' = [pass EXCEPT ![p] = q]
  BY DEF Stamps
<1>2. now \in Nat BY DEF RateInv, Typed
<1>3. /\ q \in PassSet /\ q.at = "stamped" /\ ~q.got.set /\ q.got.at = now /\ ~q.prev.set
  <2>1. ASSUME NEW z \in PassSet
        PROVE  /\ [z EXCEPT !.at = "stamped", !.got.at = now] \in PassSet
               /\ [z EXCEPT !.at = "stamped", !.got.at = now].at = "stamped"
               /\ [z EXCEPT !.at = "stamped", !.got.at = now].got.set = z.got.set
               /\ [z EXCEPT !.at = "stamped", !.got.at = now].got.at = now
               /\ [z EXCEPT !.at = "stamped", !.got.at = now].prev = z.prev
    BY <1>2 DEF PassSet, ReadingSet, Stages
  <2> QED BY <2>1, AtRestIs
<1> HIDE DEF q
<1>4. now <= now BY <1>2
<1>5. Held(q) BY <1>1, <1>3, <1>4 DEF Held
<1> QED BY <1>1, <1>3, <1>5, HeldAre, KeepsMove

\* A step that keeps or looks at a reading with its stamp.
LEMMA LooksInv ==
  ASSUME RatesAssumption, RateInv, NEW p \in Passes, Looks(p)
  PROVE  RateInv'
<1>1. kind \in Processes /\ pass[p].at = "read"
        /\ UNCHANGED <<kind, now, count, moved, born, kept>>
  BY DEF Looks
<1>2. PICK r \in Stamped(pass[p]) :
        pass' = [pass EXCEPT ![p] = [at |-> "looked", got |-> r, prev |-> kept]]
  BY DEF Looks
<1> DEFINE q == [at |-> "looked", got |-> r, prev |-> kept]
<1>3. pass[p].got.set BY <1>1, HeldAre DEF Held
<1>4. Alike(r) /\ r \in ReadingSet /\ r.set BY <1>3, StampedIs DEF Alike
<1>5. q \in PassSet /\ q.at = "looked" /\ q.got = r /\ q.prev = kept
  BY <1>4, HeldAre, PassIs DEF Stages
<1> HIDE DEF q
<1>6. Held(q) BY <1>1, <1>4, <1>5, HeldAre DEF Held
<1>7. kind' = kind /\ now' = now /\ count' = count /\ moved' = moved /\ born' = born
      /\ kept' = kept /\ pass' = [pass EXCEPT ![p] = q]
  BY <1>1, <1>2 DEF q
<1> QED BY <1>4, <1>5, <1>6, <1>7, HeldAre, PassMoves

LEMMA StoresInv ==
  ASSUME RatesAssumption, RateInv, NEW p \in Passes, Stores(p)
  PROVE  RateInv'
<1>1. pass[p].at \in {"looked", "read"} /\ UNCHANGED <<kind, now, count, moved, born>>
  BY DEF Stores
<1>2. PICK r \in Stamped(pass[p]) :
        /\ kept' = r
        /\ \/ pass' = [pass EXCEPT ![p] = [at |-> "waiting", got |-> r, prev |-> NoReading]]
           \/ pass' = [pass EXCEPT ![p] = AtRest]
  BY DEF Stores
<1>3. pass[p].got.set BY <1>1, HeldAre DEF Held
<1>4. Alike(r) /\ r \in ReadingSet /\ r.set BY <1>3, StampedIs DEF Alike
<1>5. kind' = kind /\ now' = now /\ count' = count /\ moved' = moved /\ born' = born BY <1>1
<1>6. CASE pass' = [pass EXCEPT ![p] = AtRest]
  <2>1. Held(AtRest) BY AtRestIs DEF Held
  <2> QED BY <1>2, <1>4, <1>5, <1>6, <2>1, AtRestIs, PassMoves
<1>7. CASE pass' = [pass EXCEPT ![p] = [at |-> "waiting", got |-> r, prev |-> NoReading]]
  <2> DEFINE q == [at |-> "waiting", got |-> r, prev |-> NoReading]
  <2>1. pass' = [pass EXCEPT ![p] = q] BY <1>7
  <2>2. q \in PassSet /\ q.at = "waiting" /\ q.got = r /\ q.prev = NoReading
    BY <1>4, NoReadingIs, PassIs DEF Stages
  <2> HIDE DEF q
  <2>3. Held(q) BY <1>4, <2>2 DEF Held
  <2>4. ~q.prev.set BY <2>2, NoReadingIs
  <2> QED BY <1>2, <1>4, <1>5, <2>1, <2>2, <2>3, <2>4, PassMoves
<1> QED BY <1>2, <1>6, <1>7

LEMMA ReadsAgainInv ==
  ASSUME RatesAssumption, RateInv, NEW p \in Passes, ReadsAgain(p)
  PROVE  RateInv'
<1> DEFINE q == [at |-> "read again", got |-> Sample, prev |-> pass[p].got]
<1>1. pass[p].at = "waiting" /\ UNCHANGED <<kind, now, count, moved, born, kept>>
      /\ pass' = [pass EXCEPT ![p] = q]
  BY DEF ReadsAgain
<1>2. q \in PassSet /\ q.at = "read again" /\ q.got = Sample /\ q.prev = pass[p].got
  BY HeldAre DEF PassSet, Stages
<1>3. Held(q)
  <2>1. pass[p].got.set /\ pass[p].got \in Seen BY <1>1, HeldAre DEF Held
  <2>2. pass[p].got.at <= now BY <2>1 DEF RateInv, Taken
  <2>3. Sample.set /\ Sample.at = now BY SampleIs DEF RateInv
  <2> QED BY <1>2, <2>1, <2>2, <2>3 DEF Held
<1> HIDE DEF q
<1> QED BY <1>1, <1>2, <1>3, HeldAre, KeepsMove

LEMMA AtRestInv ==
  ASSUME RatesAssumption, RateInv, NEW p \in Passes, pass' = [pass EXCEPT ![p] = AtRest],
         UNCHANGED <<kind, now, count, moved, born>>, kept' = kept
  PROVE  RateInv'
<1>1. Held(AtRest) BY AtRestIs DEF Held
<1>2. kept' \in ReadingSet /\ (kept'.set => kept' \in Seen) BY HeldAre
<1> QED BY <1>1, <1>2, AtRestIs, KeepsMove

LEMMA StoresAgainInv ==
  ASSUME RatesAssumption, RateInv, NEW p \in Passes, StoresAgain(p)
  PROVE  RateInv'
<1>1. pass[p].at = "read again" /\ UNCHANGED <<kind, now, count, moved, born>>
      /\ pass' = [pass EXCEPT ![p] = AtRest]
  BY DEF StoresAgain
<1>2. PICK r \in Stamped(pass[p]) : kept' = r BY DEF StoresAgain
<1>3. pass[p].got.set BY <1>1, HeldAre DEF Held
<1>4. Alike(r) /\ r \in ReadingSet /\ r.set BY <1>3, StampedIs DEF Alike
<1>5. Held(AtRest) BY AtRestIs DEF Held
<1>6. kind' = kind /\ now' = now /\ count' = count /\ moved' = moved /\ born' = born BY <1>1
<1> QED BY <1>1, <1>2, <1>4, <1>5, <1>6, AtRestIs, PassMoves

LEMMA NextRates ==
  ASSUME RatesAssumption, RateInv, [Next]_vars
  PROVE  RateInv'
<1>1. CASE UNCHANGED vars
  <2> USE <1>1 DEF vars
  <2>1. Typed' BY DEF RateInv, Typed
  <2>2. Sample' = Sample /\ Seen' = Seen BY DEF Sample, Seen, Readings
  <2>3. \A p \in Passes : Held(pass[p])' BY DEF RateInv, Held, StampsFirst
  <2>4. ASSUME NEW r, Taken(r) PROVE Taken(r)' BY <2>4 DEF Taken
  <2>5. ASSUME NEW a, NEW b, Consistent(a, b) PROVE Consistent(a, b)' BY <2>5 DEF Consistent, Live
  <2> QED BY <2>1, <2>2, <2>3, <2>4, <2>5 DEF RateInv
<1>2. ASSUME NEW n \in [Keys -> 0 .. 1], Tick(n) PROVE RateInv' BY <1>2, TickInv
<1>3. ASSUME NEW k \in Keys, StartsAgain(k) PROVE RateInv' BY <1>3, StartsAgainInv
<1>4. ASSUME NEW k \in Keys, Vanishes(k) PROVE RateInv' BY <1>4, VanishesInv
<1>5. ASSUME NEW p \in Passes, Reads(p) PROVE RateInv' BY <1>5, ReadsInv
<1>6. ASSUME NEW p \in Passes, Looks(p) PROVE RateInv' BY <1>6, LooksInv
<1>7. ASSUME NEW p \in Passes, Stores(p) PROVE RateInv' BY <1>7, StoresInv
<1>8. ASSUME NEW p \in Passes, ReadsAgain(p) PROVE RateInv' BY <1>8, ReadsAgainInv
<1>9. ASSUME NEW p \in Passes, StoresAgain(p) PROVE RateInv'
  BY <1>9, StoresAgainInv
<1>10. ASSUME NEW p \in Passes, Fails(p) PROVE RateInv'
  BY <1>10, AtRestInv DEF Fails
<1>11. ASSUME NEW p \in Passes, Stamps(p) PROVE RateInv' BY <1>11, StampsInv
<1> QED BY <1>1, <1>2, <1>3, <1>4, <1>5, <1>6, <1>7, <1>8, <1>9, <1>10, <1>11 DEF Next

Fair(r) ==
  /\ r.said \in Nat
  /\ ~r.mistaken => r.said * r.over <= r.of * (IF r.real > 0 THEN r.real ELSE 0)

LEMMA SaidIs ==
  ASSUME NEW s, NEW o, NEW m, NEW v, NEW w
  PROVE  /\ Said(s, o, m, v, w).said = s /\ Said(s, o, m, v, w).of = o
         /\ Said(s, o, m, v, w).real = m /\ Said(s, o, m, v, w).over = v
         /\ Said(s, o, m, v, w).mistaken = w
BY DEF Said

LEMMA TimesOne ==
  ASSUME NEW s \in Int, NEW m \in Int, s <= m, s >= 0
  PROVE  s * 1 <= 1 * (IF m > 0 THEN m ELSE 0)
OBVIOUS

LEMMA Times ==
  ASSUME NEW s \in Nat, NEW t \in Nat, NEW m \in Nat, s <= m
  PROVE  s * t <= t * (IF m > 0 THEN m ELSE 0)
<1>1. s * t <= m * t /\ m * t = t * m OBVIOUS
<1>2. CASE m > 0 BY <1>1, <1>2
<1>3. CASE m = 0
  <2>1. s = 0 BY <1>3
  <2> QED BY <2>1, <1>3
<1> QED BY <1>2, <1>3

LEMMA RatesFair ==
  ASSUME RateInv, NEW a, NEW b, Alike(a), Alike(b), kind \notin Power \cup Cpu,
         NEW r \in Rates(a, b)
  PROVE  Fair(r)
<1>1. PICK k \in Both(a, b) :
        /\ Rate(a, b, k) # Absent
        /\ r = Said(Rate(a, b, k), 1, Real(a, b, {k}), 1, b.born[k] < a.born[k])
  BY DEF Rates
<1>2. k \in Live /\ k = Busy /\ a.count[k] # Absent /\ b.count[k] # Absent
  BY DEF Both, Live
<1>3. a \in ReadingSet /\ b \in ReadingSet BY DEF Alike
<1>4. k \in Keys BY <1>2, LiveKeys
<1>5. /\ a.count[k] \in Int /\ b.count[k] \in Int /\ a.moved[k] \in Nat /\ b.moved[k] \in Nat
      /\ a.born[k] \in Nat /\ b.born[k] \in Nat
  BY <1>3, <1>4, Fields
<1>6. OtherApart(a, b, k) BY <1>2, AlikeApart DEF Consistent
<1>7. b.count[k] >= a.count[k] /\ Rate(a, b, k) = b.count[k] - a.count[k]
  <2>1. ~(b.count[k] < a.count[k]) /\ Rate(a, b, k) = b.count[k] - a.count[k] BY <1>1 DEF Rate
  <2> QED BY <2>1, <1>5
<1>8. Real(a, b, {k}) = b.moved[k] - a.moved[k]
  <2>1. Busy \in {k} /\ Idle \notin {k} BY <1>2 DEF Busy, Idle
  <2> QED BY <2>1, <1>2, <1>5 DEF Real
<1> DEFINE w == b.born[k] < a.born[k]
<1>0. r = Said(Rate(a, b, k), 1, Real(a, b, {k}), 1, w) BY <1>1
<1> HIDE DEF w
<1>9. r.said = Rate(a, b, k) /\ r.of = 1 /\ r.over = 1 /\ r.real = Real(a, b, {k})
        /\ r.mistaken = w
  <2> DEFINE said == Rate(a, b, k)
             m == Real(a, b, {k})
  <2>1. r = Said(said, 1, m, 1, w) BY <1>0
  <2> HIDE DEF said, m
  <2>2. r.said = said /\ r.of = 1 /\ r.over = 1 /\ r.real = m /\ r.mistaken = w
    BY <2>1, SaidIs
  <2> QED BY <2>2 DEF said, m
<1> HIDE DEF Fair
<1>10. r.said \in Nat BY <1>5, <1>7, <1>9
<1>11. ASSUME ~r.mistaken
       PROVE  r.said * r.over <= r.of * (IF r.real > 0 THEN r.real ELSE 0)
  <2>0. ~w BY <1>9, <1>11, Zenon
  <2>1. a.born[k] <= b.born[k]
    <3>1. ~(b.born[k] < a.born[k]) BY <2>0 DEF w
    <3> QED BY <3>1, <1>5
  <2>2. b.count[k] - a.count[k] <= b.moved[k] - a.moved[k] BY <1>2, <1>6, <2>1 DEF OtherApart
  <2>3. Rate(a, b, k) \in Int /\ Rate(a, b, k) >= 0 /\ Real(a, b, {k}) \in Int
        /\ Rate(a, b, k) <= Real(a, b, {k})
    BY <1>5, <1>7, <1>8, <2>2
  <2> QED BY <2>3, <1>9, TimesOne
<1> QED BY <1>10, <1>11 DEF Fair

LEMMA EnergyBound ==
  ASSUME RatesAssumption, RateInv, NEW a, NEW b, Alike(a), Alike(b), kind \in Power,
         NEW k \in Both(a, b), Energy(a, b, k) # Absent
  PROVE  /\ Energy(a, b, k) \in Nat
         /\ a.moved[k] \in Nat /\ b.moved[k] \in Nat
         /\ ~TakenForWrap(a, b, k) => Energy(a, b, k) <= b.moved[k] - a.moved[k]
<1>1. k \in Live /\ a.count[k] # Absent /\ b.count[k] # Absent BY DEF Both
<1>2. PowerApart(a, b, k) /\ PowerApart(b, a, k) /\ Taken(a) /\ Taken(b)
  BY <1>1, AlikeApart DEF Consistent
<1>3. k \in Keys BY <1>1, LiveKeys
<1>4. /\ a.count[k] \in Nat /\ b.count[k] \in Nat /\ a.moved[k] \in Nat /\ b.moved[k] \in Nat
      /\ a.born[k] \in Nat /\ b.born[k] \in Nat /\ MaxEnergy \in Nat
  <2>1. a.moved[k] \in Nat /\ b.moved[k] \in Nat /\ a.born[k] \in Nat /\ b.born[k] \in Nat
    BY <1>2, <1>3, Fields DEF Taken
  <2>2. a.count[k] \in 0 .. MaxTime /\ b.count[k] \in 0 .. MaxTime BY <1>1, <1>2, <1>3 DEF Taken
  <2>3. MaxTime \in Nat /\ MaxEnergy \in Nat BY DEF RatesAssumption
  <2> QED BY <2>1, <2>2, <2>3
<1>5. a.count[k] <= MaxEnergy /\ b.count[k] <= MaxEnergy
  BY <1>1, <1>2 DEF PowerApart
<1>6. ASSUME ~TakenForWrap(a, b, k)
      PROVE  /\ a.moved[k] <= b.moved[k]
             /\ \/ a.born[k] = b.born[k]
                     /\ Carried(a.count[k], b.count[k], b.moved[k] - a.moved[k])
                \/ a.count[k] <= b.count[k] /\ b.count[k] <= b.moved[k] - a.moved[k]
  <2>1. a.moved[k] <= b.moved[k] /\ a.born[k] <= b.born[k]
        /\ (a.born[k] = b.born[k] \/ a.count[k] <= b.count[k])
    BY <1>4, <1>6 DEF TakenForWrap
  <2>2. CASE a.born[k] = b.born[k]
    BY <1>1, <1>2, <2>1, <2>2 DEF PowerApart
  <2>3. CASE a.born[k] # b.born[k]
    <3>1. a.born[k] < b.born[k] BY <1>4, <2>1, <2>3
    <3> QED BY <1>1, <1>2, <2>1, <2>3, <3>1 DEF PowerApart
  <2> QED BY <2>2, <2>3
<1>7. CASE b.count[k] >= a.count[k]
  <2>0. ~(b.count[k] < a.count[k]) BY <1>4, <1>7
  <2>1. Energy(a, b, k) = b.count[k] - a.count[k] BY <1>7, <2>0, Zenon DEF Energy
  <2>2. Energy(a, b, k) \in Nat BY <2>1, <1>4, <1>7
  <2>3. ASSUME ~TakenForWrap(a, b, k) PROVE Energy(a, b, k) <= b.moved[k] - a.moved[k]
    <3>1. \/ Carried(a.count[k], b.count[k], b.moved[k] - a.moved[k])
          \/ b.count[k] <= b.moved[k] - a.moved[k]
      BY <1>6, <2>3
    <3> QED BY <3>1, <2>1, <1>4, <1>7 DEF Carried
  <2> QED BY <1>4, <2>2, <2>3
<1>8. CASE b.count[k] < a.count[k]
  <2>1. ~(b.count[k] >= a.count[k]) BY <1>4, <1>8
  <2>2. kind = "power" /\ MaxEnergy > a.count[k] BY <1>8, <2>1, Zenon DEF Energy
  <2>3. Energy(a, b, k) = MaxEnergy - a.count[k] + b.count[k]
    BY <1>8, <2>1, <2>2, Zenon DEF Energy
  <2>4. Energy(a, b, k) \in Nat BY <2>2, <2>3, <1>4
  <2>5. ASSUME ~TakenForWrap(a, b, k) PROVE Energy(a, b, k) <= b.moved[k] - a.moved[k]
    <3>1. Carried(a.count[k], b.count[k], b.moved[k] - a.moved[k])
      BY <1>4, <1>6, <1>8, <2>5
    <3>2. MaxEnergy + 1 - a.count[k] + b.count[k] <= b.moved[k] - a.moved[k]
      BY <3>1, <2>1 DEF Carried
    <3> QED BY <3>2, <2>3, <1>4
  <2> QED BY <1>4, <2>4, <2>5
<1> QED BY <1>4, <1>7, <1>8

LEMMA EnergiesFair ==
  ASSUME RatesAssumption, RateInv, NEW a, NEW b, Alike(a), Alike(b), kind \in Power,
         NEW r \in Energies(a, b)
  PROVE  Fair(r)
<1> DEFINE K == Both(a, b)
           E(k) == IF k \in K THEN Energy(a, b, k) ELSE 0
           M(k) == IF k \in K THEN b.moved[k] - a.moved[k] ELSE 0
           w == \E k \in K : TakenForWrap(a, b, k)
<1>1. r = Said(E(Busy) + E(Idle), 1, Real(a, b, K), 1, w) /\ \A k \in K : E(k) # Absent
  BY DEF Energies
<1>2. ASSUME NEW k PROVE E(k) \in Nat /\ M(k) \in Int /\ (~w => E(k) <= M(k))
  <2>1. CASE k \in K
    <3>1. Energy(a, b, k) # Absent BY <1>1, <2>1
    <3> QED BY <3>1, <2>1, EnergyBound
  <2>2. CASE k \notin K BY <2>2
  <2> QED BY <2>1, <2>2
<1>3. Real(a, b, K) = M(Busy) + M(Idle) BY DEF Real
<1> HIDE DEF E, M, K, w
<1>4. /\ E(Busy) + E(Idle) \in Nat /\ Real(a, b, K) \in Int
      /\ ~w => E(Busy) + E(Idle) <= Real(a, b, K)
  <2>1. E(Busy) \in Nat /\ M(Busy) \in Int /\ (~w => E(Busy) <= M(Busy)) BY <1>2
  <2>2. E(Idle) \in Nat /\ M(Idle) \in Int /\ (~w => E(Idle) <= M(Idle)) BY <1>2
  <2> QED BY <2>1, <2>2, <1>3
<1>5. r.said = E(Busy) + E(Idle) /\ r.of = 1 /\ r.over = 1 /\ r.real = Real(a, b, K)
      /\ r.mistaken = w
  <2> DEFINE said == E(Busy) + E(Idle)
             m == Real(a, b, K)
  <2>1. r = Said(said, 1, m, 1, w) BY <1>1
  <2> HIDE DEF said, m
  <2>2. r.said = said /\ r.of = 1 /\ r.over = 1 /\ r.real = m /\ r.mistaken = w BY <2>1, SaidIs
  <2> QED BY <2>2 DEF said, m
<1>6. r.said \in Nat BY <1>4, <1>5
<1>7. ASSUME ~r.mistaken PROVE r.said * r.over <= r.of * (IF r.real > 0 THEN r.real ELSE 0)
  <2>1. ~w BY <1>5, <1>7, Zenon
  <2>2. E(Busy) + E(Idle) <= Real(a, b, K) BY <1>4, <2>1
  <2> QED BY <1>4, <1>5, <2>2, TimesOne
<1> QED BY <1>6, <1>7 DEF Fair

LEMMA LoadIs ==
  ASSUME NEW said, NEW of, NEW a, NEW b, NEW r \in Load(said, of, a, b)
  PROVE  /\ r.said = said /\ r.of = of /\ r.real = Apart(Real(a, b, {Busy}))
         /\ r.over = Apart(Real(a, b, Keys))
<1> DEFINE m == Apart(Real(a, b, {Busy}))
           v == Apart(Real(a, b, Keys))
<1>1. r = Said(said, of, m, v, FALSE) BY DEF Load
<1> HIDE DEF m, v
<1>2. r.said = said /\ r.of = of /\ r.real = m /\ r.over = v BY <1>1 DEF Said
<1> QED BY <1>2 DEF m, v

\* What two readings of a processor say.
LEMMA CpuReadings ==
  ASSUME RatesAssumption, RateInv, NEW a, NEW b, Alike(a), Alike(b), kind \in Cpu
  PROVE  /\ \A k \in Keys : /\ a.count[k] \in 0 .. MaxTime /\ b.count[k] \in 0 .. MaxTime
                            /\ b.moved[k] - a.moved[k] = b.count[k] - a.count[k]
         /\ Real(a, b, {Busy}) = b.count[Busy] - a.count[Busy]
         /\ Real(a, b, Keys) = (b.count[Busy] - a.count[Busy]) + (b.count[Idle] - a.count[Idle])
         /\ \/ \A k \in Keys : a.count[k] <= b.count[k]
            \/ \A k \in Keys : b.count[k] <= a.count[k]
         /\ a.set
<1>1. Live = Keys BY DEF Live
<1>2. Consistent(a, b) /\ Consistent(b, a) /\ Taken(a) /\ Taken(b) BY AlikeApart
<1>3. ASSUME NEW k \in Keys
      PROVE  /\ a.count[k] = a.moved[k] + 1 /\ b.count[k] = b.moved[k] + 1
             /\ a.moved[k] \in Nat /\ b.moved[k] \in Nat
             /\ a.at <= b.at => a.moved[k] <= b.moved[k]
             /\ b.at <= a.at => b.moved[k] <= a.moved[k]
             /\ a.count[k] \in 0 .. MaxTime /\ b.count[k] \in 0 .. MaxTime
  <2>1. CpuApart(a, b, k) /\ CpuApart(b, a, k) BY <1>1, <1>2 DEF Consistent
  <2>2. a.moved[k] \in Nat /\ b.moved[k] \in Nat BY <1>2, Fields DEF Taken
  <2>3. a.count[k] # Absent /\ b.count[k] # Absent BY <2>1, <2>2 DEF CpuApart, Absent
  <2> QED BY <1>2, <2>1, <2>2, <2>3 DEF CpuApart, Taken
<1>4. a.at \in Nat /\ b.at \in Nat /\ a.set BY <1>2 DEF Taken, ReadingSet
<1>5. a.at <= b.at \/ b.at <= a.at BY <1>4
<1>6. ASSUME NEW k \in Keys
      PROVE  /\ b.moved[k] - a.moved[k] = b.count[k] - a.count[k]
             /\ a.at <= b.at => a.count[k] <= b.count[k]
             /\ b.at <= a.at => b.count[k] <= a.count[k]
  BY <1>3
<1>7. Busy \in Keys /\ Idle \in Keys /\ Idle \notin {Busy} /\ Busy \in {Busy}
  BY DEF Keys, Busy, Idle
<1>8. Real(a, b, {Busy}) = b.count[Busy] - a.count[Busy]
  <2>1. Real(a, b, {Busy}) = (b.moved[Busy] - a.moved[Busy]) + 0 BY <1>7 DEF Real
  <2> QED BY <2>1, <1>3, <1>6, <1>7
<1>9. Real(a, b, Keys) = (b.count[Busy] - a.count[Busy]) + (b.count[Idle] - a.count[Idle])
  <2>1. Real(a, b, Keys) = (b.moved[Busy] - a.moved[Busy]) + (b.moved[Idle] - a.moved[Idle])
    BY <1>7 DEF Real
  <2> QED BY <2>1, <1>6, <1>7
<1> QED BY <1>3, <1>4, <1>5, <1>6, <1>8, <1>9

LEMMA LinuxFair ==
  ASSUME RatesAssumption, RateInv, NEW a, NEW b, Alike(a), Alike(b), kind \in Cpu,
           NEW r \in LinuxLoad(a, b)
  PROVE  Fair(r)
<1> DEFINE total == Total(b) - Total(a)
           idle == IF b.count[Idle] > a.count[Idle] THEN b.count[Idle] - a.count[Idle] ELSE 0
<1>1. ~(~a.set \/ Total(a) = 0 \/ total <= 0 \/ idle > total)
        /\ r \in Load(total - idle, total, a, b)
  BY DEF LinuxLoad
<1>2. a.count[Busy] \in Nat /\ b.count[Busy] \in Nat /\ a.count[Idle] \in Nat
        /\ b.count[Idle] \in Nat
  <2>1. Busy \in Keys /\ Idle \in Keys /\ MaxTime \in Nat BY DEF Keys, RatesAssumption
  <2>2. /\ a.count[Busy] \in 0 .. MaxTime /\ b.count[Busy] \in 0 .. MaxTime
        /\ a.count[Idle] \in 0 .. MaxTime /\ b.count[Idle] \in 0 .. MaxTime
    BY <2>1, CpuReadings
  <2> QED BY <2>1, <2>2
<1>3. total = (b.count[Busy] + b.count[Idle]) - (a.count[Busy] + a.count[Idle]) BY DEF Total
<1>4. total > 0 /\ idle <= total
  <2>1. total \in Int /\ idle \in Int BY <1>2, <1>3
  <2> HIDE DEF total, idle
  <2> QED BY <1>1, <2>1
<1>5. Real(a, b, {Busy}) = b.count[Busy] - a.count[Busy]
      /\ Real(a, b, Keys) = (b.count[Busy] - a.count[Busy]) + (b.count[Idle] - a.count[Idle])
  BY CpuReadings
<1>6. /\ total - idle \in Nat /\ total \in Nat
      /\ Apart(Real(a, b, Keys)) = total
      /\ Apart(Real(a, b, {Busy})) \in Nat /\ total - idle <= Apart(Real(a, b, {Busy}))
  <2>1. idle = IF b.count[Idle] > a.count[Idle] THEN b.count[Idle] - a.count[Idle] ELSE 0 OBVIOUS
  <2> HIDE DEF total, idle
  <2>2. /\ total - idle \in Nat /\ total \in Nat
        /\ Apart((b.count[Busy] - a.count[Busy]) + (b.count[Idle] - a.count[Idle])) = total
        /\ Apart(b.count[Busy] - a.count[Busy]) \in Nat
        /\ total - idle <= Apart(b.count[Busy] - a.count[Busy])
    <3> DEFINE ab == a.count[Busy]
               bb == b.count[Busy]
               ai == a.count[Idle]
               bi == b.count[Idle]
    <3>1. ab \in Nat /\ bb \in Nat /\ ai \in Nat /\ bi \in Nat BY <1>2
    <3>2. total = (bb + bi) - (ab + ai) /\ idle = (IF bi > ai THEN bi - ai ELSE 0)
      BY <1>3, <2>1
    <3> HIDE DEF ab, bb, ai, bi
    <3>3. /\ total - idle \in Nat /\ total \in Nat
          /\ Apart((bb - ab) + (bi - ai)) = total
          /\ Apart(bb - ab) \in Nat /\ total - idle <= Apart(bb - ab)
      BY <3>1, <3>2, <1>4 DEF Apart
    <3> QED BY <3>3 DEF ab, bb, ai, bi
  <2> QED BY <1>5, <2>2, Zenon
<1>7. r.said = total - idle /\ r.of = total /\ r.real = Apart(Real(a, b, {Busy}))
        /\ r.over = total
  <2>1. r \in Load(total - idle, total, a, b) BY <1>1
  <2> HIDE DEF total, idle
  <2> QED BY <2>1, <1>6, LoadIs
<1> HIDE DEF total, idle
<1> QED BY <1>6, <1>7, Times DEF Fair

\* What is said of the processor's load, against what it was.
RightLoad(said, total, real, over) ==
  /\ said \in Nat /\ total \in Nat /\ real \in Nat /\ over \in Nat
  /\ \/ said <= real /\ over = total
     \/ said = 0
     \/ said = total /\ over = real

LEMMA WindowsNumbers ==
  ASSUME NEW W \in Nat, NEW M \in Nat, 2 * M < W,
         NEW ab \in 0 .. M, NEW bb \in 0 .. M, NEW ai \in 0 .. M, NEW bi \in 0 .. M,
         (ab <= bb /\ ai <= bi) \/ (bb <= ab /\ bi <= ai),
         NEW total \in Int, NEW idle \in Int,
         total = ((bb + bi) - (ab + ai)) % W, idle = (bi - ai) % W, total # 0
  PROVE  RightLoad(IF idle > total THEN 0 ELSE total - idle, total, Apart(bb - ab),
                   Apart((bb - ab) + (bi - ai)))
<1> DEFINE t == (bb + bi) - (ab + ai)
           i == bi - ai
<1>0. W \in Nat \ {0} /\ t \in Int /\ i \in Int /\ t <= 2 * M /\ -(2 * M) <= t /\ i <= M
        /\ -M <= i
  OBVIOUS
<1>1. \A x \in Int : 0 <= x /\ x < W => x % W = x
  BY <1>0
<1>2. \A x \in Int : x < 0 /\ -W < x => x % W = W + x
  BY <1>0
<1>3. CASE ab <= bb /\ ai <= bi
  <2>1. 0 <= t /\ t < W /\ 0 <= i /\ i < W /\ i <= t BY <1>0, <1>3
  <2>2. total = t /\ idle = i BY <1>0, <1>1, <2>1
  <2> QED BY <2>1, <2>2, <1>3 DEF Apart, RightLoad
<1>4. CASE bb <= ab /\ bi <= ai
  <2>1. t <= 0 /\ -W < t /\ i <= 0 /\ -W < i BY <1>0, <1>4
  <2>2. t # 0
    <3>1. 0 % W = 0 BY <1>0, <1>1
    <3> QED BY <3>1
  <2>3. total = W + t BY <1>0, <1>2, <2>1, <2>2
  <2>4. CASE i = 0
    <3>1. idle = 0 BY <1>0, <1>1, <2>4
    <3>2. bi = ai /\ bb < ab BY <1>4, <2>2, <2>4
    <3> QED BY <3>1, <3>2, <2>1, <2>3, <1>0 DEF Apart, RightLoad
  <2>5. CASE i # 0
    <3>1. idle = W + i BY <1>0, <1>2, <2>1, <2>5
    <3>2. CASE bb < ab
      <4>1. idle > total BY <3>1, <3>2, <2>3
      <4> QED BY <4>1, <3>1, <2>1, <2>3, <1>0 DEF Apart, RightLoad
    <3>3. CASE bb = ab
      <4>1. idle = total BY <3>1, <3>3, <2>3
      <4> QED BY <4>1, <3>1, <2>1, <2>3, <1>0 DEF Apart, RightLoad
    <3> QED BY <3>2, <3>3, <1>4
  <2> QED BY <2>4, <2>5
<1> QED BY <1>3, <1>4

LEMMA WindowsFair ==
  ASSUME RatesAssumption, RateInv, NEW a, NEW b, Alike(a), Alike(b), kind \in Cpu,
           NEW r \in WindowsLoad(a, b)
  PROVE  Fair(r)
<1> DEFINE total == (Total(b) - Total(a)) % Width
           idle == (b.count[Idle] - a.count[Idle]) % Width
           said == IF idle > total THEN 0 ELSE total - idle
<1>1. total # 0 /\ r \in Load(said, total, a, b)
  BY DEF WindowsLoad
<1>2. /\ a.count[Busy] \in 0 .. MaxTime /\ b.count[Busy] \in 0 .. MaxTime
      /\ a.count[Idle] \in 0 .. MaxTime /\ b.count[Idle] \in 0 .. MaxTime
      /\ Width \in Nat /\ MaxTime \in Nat /\ 2 * MaxTime < Width
  <2>1. Busy \in Keys /\ Idle \in Keys BY DEF Keys
  <2> QED BY <2>1, CpuReadings DEF RatesAssumption
<1>3. (a.count[Busy] <= b.count[Busy] /\ a.count[Idle] <= b.count[Idle])
      \/ (b.count[Busy] <= a.count[Busy] /\ b.count[Idle] <= a.count[Idle])
  <2>1. Busy \in Keys /\ Idle \in Keys BY DEF Keys
  <2> QED BY <2>1, CpuReadings
<1>4. total = ((b.count[Busy] + b.count[Idle]) - (a.count[Busy] + a.count[Idle])) % Width
      /\ idle = (b.count[Idle] - a.count[Idle]) % Width
  BY DEF Total
<1> DEFINE real == Apart(Real(a, b, {Busy}))
           over == Apart(Real(a, b, Keys))
<1>5. /\ said \in Nat /\ total \in Nat /\ real \in Nat /\ over \in Nat
      /\ \/ said <= real /\ over = total
         \/ said = 0
         \/ said = total /\ over = real
  <2>1. Real(a, b, {Busy}) = b.count[Busy] - a.count[Busy]
        /\ Real(a, b, Keys) = (b.count[Busy] - a.count[Busy]) + (b.count[Idle] - a.count[Idle])
    BY CpuReadings
  <2> HIDE DEF total, idle
  <2> DEFINE dr == Apart(b.count[Busy] - a.count[Busy])
             dv == Apart((b.count[Busy] - a.count[Busy]) + (b.count[Idle] - a.count[Idle]))
  <2>2. /\ said \in Nat /\ total \in Nat /\ dr \in Nat /\ dv \in Nat
        /\ \/ said <= dr /\ dv = total
           \/ said = 0
           \/ said = total /\ dv = dr
    <3> DEFINE ab == a.count[Busy]
               bb == b.count[Busy]
               ai == a.count[Idle]
               bi == b.count[Idle]
    <3>1. /\ ab \in 0 .. MaxTime /\ bb \in 0 .. MaxTime /\ ai \in 0 .. MaxTime
               /\ bi \in 0 .. MaxTime
          /\ Width \in Nat /\ MaxTime \in Nat /\ 2 * MaxTime < Width
      BY <1>2
    <3>2. (ab <= bb /\ ai <= bi) \/ (bb <= ab /\ bi <= ai) BY <1>3
    <3>3. total = ((bb + bi) - (ab + ai)) % Width /\ idle = (bi - ai) % Width BY <1>4
    <3>4. RightLoad(said, total, dr, dv)
      <4>1. total \in Int /\ idle \in Int BY <3>1, <3>3
      <4> HIDE DEF ab, bb, ai, bi
      <4>2. RightLoad(IF idle > total THEN 0 ELSE total - idle, total, Apart(bb - ab),
                      Apart((bb - ab) + (bi - ai)))
        BY <3>1, <3>2, <3>3, <4>1, <1>1, WindowsNumbers
      <4> QED BY <4>2 DEF ab, bb, ai, bi
    <3> HIDE DEF dr, dv, said
    <3> QED BY <3>4 DEF RightLoad
  <2>3. dr = real /\ dv = over BY <2>1, Zenon
  <2> HIDE DEF dr, dv, said, real, over
  <2> QED BY <2>2, <2>3, Zenon
<1>6. r.said = said /\ r.of = total /\ r.real = real /\ r.over = over
  <2> HIDE DEF total, said
  <2> QED BY <1>1, LoadIs
<1> HIDE DEF total, idle, said, real, over
<1>7. CASE said <= real /\ over = total BY <1>5, <1>6, <1>7, Times DEF Fair
<1>8. CASE said = 0
  <2>1. said * over = 0 /\ 0 <= total * (IF real > 0 THEN real ELSE 0)
    <3>1. 0 * over = 0 BY <1>5
    <3>2. 0 * total <= total * (IF real > 0 THEN real ELSE 0) BY <1>5, Times
    <3>3. 0 * total = 0 BY <1>5
    <3> QED BY <3>1, <3>2, <3>3, <1>8
  <2> QED BY <2>1, <1>5, <1>6 DEF Fair
<1>9. CASE said = total /\ over = real
  <2>1. (IF real > 0 THEN real ELSE 0) = real BY <1>5
  <2> QED BY <2>1, <1>5, <1>6, <1>9 DEF Fair
<1> QED BY <1>5, <1>7, <1>8, <1>9

LEMMA ReportFair ==
  ASSUME RatesAssumption, RateInv, NEW a \in ReadingSet, a.set => Alike(a), NEW b, Alike(b),
         kind \in Power => a.set, NEW r \in Report(a, b)
  PROVE  Fair(r)
<1>1. CASE kind = "linux cpu"
  <2>1. kind \in Cpu /\ Report(a, b) = LinuxLoad(a, b) BY <1>1 DEF Report, Cpu, Power
  <2>2. a.set BY <2>1 DEF LinuxLoad
  <2> QED BY <2>1, <2>2, LinuxFair
<1>2. CASE kind = "windows cpu"
  <2>1. kind \in Cpu /\ Report(a, b) = WindowsLoad(a, b) BY <1>2 DEF Report, Cpu, Power
  <2>2. a.set BY <2>1 DEF WindowsLoad
  <2> QED BY <2>1, <2>2, WindowsFair
<1>3. CASE kind \in Power
  <2>1. Report(a, b) = Energies(a, b) BY <1>3 DEF Report, Power
  <2> QED BY <2>1, <1>3, EnergiesFair
<1>4. CASE kind \notin Power \cup Cpu
  <2>1. Report(a, b) = IF a.set /\ b.at > a.at THEN Rates(a, b) ELSE {}
    BY <1>4 DEF Report, Power, Cpu
  <2> QED BY <2>1, <1>4, RatesFair
<1> QED BY <1>1, <1>2, <1>3, <1>4 DEF Cpu

SaidFair == \A r \in told : Fair(r)

LEMMA StepsFair ==
  ASSUME RatesAssumption, RateInv, SaidFair, [Next]_vars
  PROVE  SaidFair'
<1>1. told' = {} => SaidFair' BY DEF SaidFair
<1>2. ASSUME NEW n \in [Keys -> 0 .. 1], Tick(n) PROVE SaidFair' BY <1>1, <1>2 DEF Tick
<1>3. ASSUME NEW k \in Keys, StartsAgain(k) \/ Vanishes(k) PROVE SaidFair'
  BY <1>1, <1>3 DEF StartsAgain, Vanishes
<1>4. ASSUME NEW p \in Passes, Stamps(p) \/ Reads(p) \/ Looks(p) \/ ReadsAgain(p)
               \/ Fails(p) PROVE SaidFair'
  BY <1>1, <1>4 DEF Stamps, Reads, Looks, ReadsAgain, Fails
<1>5. ASSUME NEW p \in Passes, Stores(p) PROVE SaidFair'
  <2> DEFINE a == Before(p)
  <2>1. PICK b \in Stamped(pass[p]) :
          told' = {} \/ (~TooSoon(a, b) /\ told' = Report(a, b))
    BY <1>5 DEF Stores
  <2>2. Alike(b)
    <3>1. pass[p].at \in {"looked", "read"} BY <1>5 DEF Stores
    <3>2. pass[p].got.set BY <3>1, HeldAre DEF Held
    <3> QED BY <3>2, StampedIs
  <2>3. a \in ReadingSet /\ (a.set => Alike(a)) BY HeldAre, SeenAlike DEF Before
  <2>4. ASSUME kind \in Power, ~TooSoon(a, b) PROVE a.set
    <3> HIDE DEF a
    <3>1. kind \notin Cpu /\ kind \in Power \cup {"network"} BY <2>4, KindsApart
    <3> QED BY <3>1, <2>4, Zenon DEF TooSoon
  <2> HIDE DEF a
  <2>5. ASSUME ~TooSoon(a, b), NEW r \in Report(a, b) PROVE Fair(r)
    BY <2>2, <2>3, <2>4, <2>5, ReportFair
  <2>6. ASSUME NEW r \in told' PROVE Fair(r)' BY <2>1, <2>5, <2>6 DEF Fair
  <2> QED BY <2>6 DEF SaidFair
<1>6. ASSUME NEW p \in Passes, StoresAgain(p) PROVE SaidFair'
  <2>1. pass[p].at = "read again" BY <1>6 DEF StoresAgain
  <2>2. PICK b \in Stamped(pass[p]) : told' = Report(pass[p].prev, b) BY <1>6 DEF StoresAgain
  <2>3. /\ pass[p].got.set /\ pass[p].prev \in ReadingSet
        /\ pass[p].prev.set /\ Alike(pass[p].prev)
    BY <2>1, HeldAre, SeenAlike DEF Held
  <2>4. Alike(b) BY <2>3, StampedIs
  <2>5. ASSUME NEW r \in told' PROVE Fair(r)' BY <2>2, <2>3, <2>4, <2>5, ReportFair DEF Fair
  <2> QED BY <2>5 DEF SaidFair
<1>7. CASE UNCHANGED vars
  <2>1. told' = told BY <1>7 DEF vars
  <2> QED BY <2>1 DEF SaidFair, Fair
<1> QED BY <1>2, <1>3, <1>4, <1>5, <1>6, <1>7 DEF Next

-----------------------------------------------------------------------------
(* What a snapshot is made of: SnapshotFields.                              *)

\* What may be seen of a snapshot, whichever pass made it.
GapsSaid(s) ==
  \A f \in Snapshot!Fields \ {"TemperatureSensor"} : s[f] = "nothing" =>
    /\ f = "MemorySwap"
    /\ ended[IF os = "linux" THEN "fast" ELSE "slow"] = "not run"
SensorNamed(s) == (s["TemperatureSensor"] = "value") <=> (s["CPUTemperature"] = "value")
NothingOutlives(s) ==
  ended.slow = "panicked" => \A f \in Snapshot!SlowFields(os) : s[f] # "value"
CommitOnWindows(s) == os = "linux" => s["MemoryCommit"] # "value"
GoodSnapshot(s) ==
  /\ s \in [Snapshot!Fields -> {"value", "reason", "nothing"}]
  /\ GapsSaid(s) /\ SensorNamed(s) /\ NothingOutlives(s) /\ CommitOnWindows(s)

FieldInv ==
  /\ os \in {"linux", "windows"}
  /\ ended \in [{"fast", "slow"} -> {"not run", "done", "panicked"}]
  /\ GoodSnapshot(working) /\ GoodSnapshot(shown)

LEMMA LaneRecord ==
  ASSUME NEW V, NEW r \in [fast : V, slow : V] PROVE r \in [{"fast", "slow"} -> V]
OBVIOUS

LEMMA FieldsInit == ASSUME Snapshot!Init PROVE FieldInv
<1> DEFINE w == [f \in Snapshot!Fields |-> IF f \in Snapshot!Unset THEN "nothing" ELSE "reason"]
<1>1. os \in {"linux", "windows"} /\ working = w /\ shown = w
      /\ ended = [fast |-> "not run", slow |-> "not run"]
  BY DEF Snapshot!Init
<1>2. ended \in [{"fast", "slow"} -> {"not run", "done", "panicked"}] /\ ended.slow = "not run"
      /\ ended["fast"] = "not run" /\ ended["slow"] = "not run"
  <2>1. ended \in [fast : {"not run", "done", "panicked"}, slow : {"not run", "done", "panicked"}]
    BY <1>1
  <2>2. ended \in [{"fast", "slow"} -> {"not run", "done", "panicked"}]
    BY <2>1, LaneRecord
  <2>3. ended.slow = "not run" /\ ended.fast = "not run" BY <1>1
  <2> QED BY <2>2, <2>3
<1>3. w \in [Snapshot!Fields -> {"value", "reason", "nothing"}]
      /\ \A f \in Snapshot!Fields : w[f] = IF f \in Snapshot!Unset THEN "nothing" ELSE "reason"
  OBVIOUS
<1> HIDE DEF w
<1>4. {"TemperatureSensor", "CPUTemperature", "MemoryCommit", "MemorySwap"}
        \subseteq Snapshot!Fields
  BY DEF Snapshot!Fields
<1>5. GapsSaid(w) BY <1>1, <1>2, <1>3 DEF GapsSaid, Snapshot!Unset
<1>6. SensorNamed(w) /\ CommitOnWindows(w) BY <1>3, <1>4 DEF SensorNamed, CommitOnWindows
<1>7. NothingOutlives(w) BY <1>2 DEF NothingOutlives
<1> QED BY <1>1, <1>2, <1>3, <1>5, <1>6, <1>7 DEF FieldInv, GoodSnapshot

LEMMA SensedTogether ==
  ASSUME NEW g, NEW o
  PROVE  "TemperatureSensor" \in Snapshot!Together(g, o)
         <=> "CPUTemperature" \in Snapshot!Together(g, o)
<1>1. CASE g = "Memory" BY <1>1 DEF Snapshot!Together, Snapshot!Sensed
<1>2. CASE g = "Temperatures" BY <1>2 DEF Snapshot!Together, Snapshot!Sensed
<1>3. CASE g \in Snapshot!Sensed BY <1>3 DEF Snapshot!Together, Snapshot!Sensed
<1>4. CASE g # "Memory" /\ g # "Temperatures" /\ g \notin Snapshot!Sensed
  BY <1>4 DEF Snapshot!Together, Snapshot!Sensed
<1> QED BY <1>1, <1>2, <1>3, <1>4

\* What a pass that ends leaves in what it owns.
LEMMA AssignedIs ==
  ASSUME NEW owned \in SUBSET Snapshot!Fields, NEW failed, NEW o \in {"linux", "windows"}
  PROVE  LET s == Snapshot!Assigned(owned, failed, o)
         IN /\ DOMAIN s = owned
            /\ \A f \in owned : s[f] \in {"value", "reason", "nothing"}
            /\ \A f \in owned : f # "TemperatureSensor" => s[f] # "nothing"
            /\ \A f \in owned : f \in Snapshot!Never(o) => s[f] # "value"
            /\ {"TemperatureSensor", "CPUTemperature"} \subseteq owned => SensorNamed(s)
<1> DEFINE s == Snapshot!Assigned(owned, failed, o)
           fails(f) == f \in Snapshot!Never(o) \/ \E g \in failed : f \in Snapshot!Together(g, o)
<1>1. DOMAIN s = owned
      /\ \A f \in owned : s[f] = IF fails(f) THEN Snapshot!Degraded(f) ELSE "value"
  BY DEF Snapshot!Assigned
<1>2. \A f : Snapshot!Degraded(f) = IF f = "TemperatureSensor" THEN "nothing" ELSE "reason"
  BY DEF Snapshot!Degraded
<1>3. fails("TemperatureSensor") <=> fails("CPUTemperature")
  <2>1. "TemperatureSensor" \notin Snapshot!Never(o) /\ "CPUTemperature" \notin Snapshot!Never(o)
    BY DEF Snapshot!Never
  <2> QED BY <2>1, SensedTogether
<1>4. \A f : f \in Snapshot!Never(o) => fails(f) OBVIOUS
<1> HIDE DEF s, fails
<1>5. /\ \A f \in owned : s[f] \in {"value", "reason", "nothing"}
      /\ \A f \in owned : f # "TemperatureSensor" => s[f] # "nothing"
      /\ \A f \in owned : f \in Snapshot!Never(o) => s[f] # "value"
  BY <1>1, <1>2, <1>4
<1>6. {"TemperatureSensor", "CPUTemperature"} \subseteq owned => SensorNamed(s)
  BY <1>1, <1>2, <1>3 DEF SensorNamed
<1> QED BY <1>1, <1>5, <1>6 DEF s

\* Of the patches, those that leave no gap.
GoodPatch(patch) ==
  /\ DOMAIN patch \subseteq Snapshot!Fields
  /\ \A f \in DOMAIN patch : patch[f] \in {"value", "reason", "nothing"}
  /\ \A f \in DOMAIN patch : f # "TemperatureSensor" => patch[f] # "nothing"
  /\ os = "linux" /\ "MemoryCommit" \in DOMAIN patch => patch["MemoryCommit"] # "value"
  /\ \/ {"TemperatureSensor", "CPUTemperature"} \subseteq DOMAIN patch /\ SensorNamed(patch)
     \/ {"TemperatureSensor", "CPUTemperature"} \cap DOMAIN patch = {}

LEMMA LaneFields ==
  ASSUME os \in {"linux", "windows"}
  PROVE  /\ Snapshot!FastFields(os) \subseteq Snapshot!Fields
              /\ Snapshot!SlowFields(os) \subseteq Snapshot!Fields
         /\ Snapshot!FastFields(os) \cap Snapshot!SlowFields(os) = {}
         /\ {"TemperatureSensor", "CPUTemperature"} \subseteq Snapshot!SlowFields(os)
         /\ {"TemperatureSensor", "CPUTemperature", "MemorySwap", "MemoryCommit"}
              \subseteq Snapshot!Fields
         /\ os = "linux" => "MemorySwap" \in Snapshot!FastFields(os)
         /\ os = "windows" => "MemorySwap" \in Snapshot!SlowFields(os)
         /\ os = "linux" => "MemoryCommit" \in Snapshot!Never(os)
              /\ "MemoryCommit" \notin Snapshot!FastFields(os)
         /\ Snapshot!DegradedFields(os) \subseteq Snapshot!SlowFields(os)
         /\ {"TemperatureSensor", "CPUTemperature"} \subseteq Snapshot!DegradedFields(os)
         /\ \A f \in Snapshot!SlowFields(os) \ Snapshot!DegradedFields(os) :
              os = "linux" /\ f = "MemoryCommit"
<1>1. CASE os = "linux"
  BY <1>1 DEF Snapshot!FastFields, Snapshot!SlowFields, Snapshot!SlowFieldsLinux, Snapshot!Fields,
    Snapshot!Never, Snapshot!DegradedFields
<1>2. CASE os = "windows"
  BY <1>2 DEF Snapshot!FastFields, Snapshot!SlowFields, Snapshot!SlowFieldsWindows,
       Snapshot!Fields,
    Snapshot!Never, Snapshot!DegradedFields
<1> QED BY <1>1, <1>2

\* A lane's patch, whatever it says of the lane's own end.
LEMMA PublishesInv ==
  ASSUME FieldInv, NEW patch, NEW loop \in {"fast", "slow"}, NEW how \in {"done", "panicked"},
         Snapshot!Publishes(patch, loop, how), GoodPatch(patch),
         loop = "fast" => DOMAIN patch = Snapshot!FastFields(os),
         loop = "slow" => DOMAIN patch \in {Snapshot!SlowFields(os), Snapshot!DegradedFields(os)},
         loop = "slow" /\ how = "panicked" => \A f \in DOMAIN patch : patch[f] # "value"
  PROVE  FieldInv'
<1>1. os' = os /\ shown' = working' /\ ended' = [ended EXCEPT ![loop] = how]
      /\ working' = [f \in Snapshot!Fields |-> IF f \in DOMAIN patch THEN patch[f] ELSE working[f]]
  BY DEF Snapshot!Publishes, Snapshot!Over
<1>2. os \in {"linux", "windows"}
        /\ ended \in [{"fast", "slow"} -> {"not run", "done", "panicked"}]
      /\ GoodSnapshot(working)
  BY DEF FieldInv
<1>3. /\ ended' \in [{"fast", "slow"} -> {"not run", "done", "panicked"}]
      /\ \A l \in {"fast", "slow"} : ended'[l] = IF l = loop THEN how ELSE ended[l]
  BY <1>1, <1>2
<1> DEFINE D == DOMAIN patch
<1>4. \A f \in Snapshot!Fields : working'[f] = IF f \in D THEN patch[f] ELSE working[f]
  BY <1>1
<1>5. working' \in [Snapshot!Fields -> {"value", "reason", "nothing"}]
  <2>1. \A f \in Snapshot!Fields : working[f] \in {"value", "reason", "nothing"}
    BY <1>2 DEF GoodSnapshot
  <2>2. \A f \in Snapshot!Fields :
          (IF f \in DOMAIN patch THEN patch[f] ELSE working[f]) \in {"value", "reason", "nothing"}
    BY <2>1 DEF GoodPatch
  <2> QED BY <1>1, <2>2
<1>6. GapsSaid(working)'
  <2> SUFFICES ASSUME NEW f \in Snapshot!Fields \ {"TemperatureSensor"}, working'[f] = "nothing"
               PROVE /\ f = "MemorySwap"
                     /\ ended'[IF os = "linux" THEN "fast" ELSE "slow"] = "not run"
    BY <1>1 DEF GapsSaid
  <2>1. f \notin D /\ working[f] = "nothing" BY <1>4 DEF GoodPatch
  <2>2. f = "MemorySwap" /\ ended[IF os = "linux" THEN "fast" ELSE "slow"] = "not run"
    BY <1>2, <2>1 DEF GoodSnapshot, GapsSaid
  <2>3. loop # (IF os = "linux" THEN "fast" ELSE "slow")
    <3>1. CASE loop = "fast" BY <1>2, <2>1, <2>2, <3>1, LaneFields
    <3>2. CASE loop = "slow"
      <4>1. os = "windows" => "MemorySwap" \in D BY <1>2, <3>2, LaneFields
      <4> QED BY <4>1, <1>2, <2>1, <2>2, <3>2
    <3> QED BY <3>1, <3>2
  <2> QED BY <1>3, <2>2, <2>3
<1>7. SensorNamed(working)'
  BY <1>2, <1>4, LaneFields DEF GoodPatch, GoodSnapshot, SensorNamed
<1>8. CommitOnWindows(working)'
  BY <1>1, <1>2, <1>4, LaneFields DEF GoodPatch, GoodSnapshot, CommitOnWindows
<1>9. NothingOutlives(working)'
  <2> SUFFICES ASSUME ended'["slow"] = "panicked", NEW f \in Snapshot!SlowFields(os)
               PROVE working'[f] # "value"
    BY <1>1 DEF NothingOutlives
  <2>1. f \in Snapshot!Fields BY <1>2, LaneFields
  <2>2. CASE loop = "fast"
    <3>1. f \notin D BY <1>2, <2>2, LaneFields
    <3>2. ended.slow = "panicked" BY <1>3, <2>2
    <3> QED BY <1>2, <1>4, <2>1, <3>1, <3>2 DEF GoodSnapshot, NothingOutlives
  <2>3. CASE loop = "slow"
    <3>1. how = "panicked" BY <1>3, <2>3
    <3>2. CASE f \in D BY <1>4, <2>1, <2>3, <3>1, <3>2
    <3>3. CASE f \notin D
      <4>1. os = "linux" /\ f = "MemoryCommit" BY <1>2, <2>3, <3>3, LaneFields
      <4> QED BY <1>2, <1>4, <2>1, <3>3, <4>1 DEF GoodSnapshot, CommitOnWindows
    <3> QED BY <3>2, <3>3
  <2> QED BY <2>2, <2>3
<1> QED BY <1>1, <1>2, <1>3, <1>5, <1>6, <1>7, <1>8, <1>9 DEF FieldInv, GoodSnapshot

LEMMA FieldsStep == ASSUME FieldInv, [Snapshot!Next]_fieldVars PROVE FieldInv'
<1>0. os \in {"linux", "windows"} BY DEF FieldInv
<1>1. ASSUME NEW failed,
             Snapshot!Publishes(Snapshot!Assigned(Snapshot!FastFields(os), failed, os),
               "fast", "done")
      PROVE FieldInv'
  <2> DEFINE s == Snapshot!Assigned(Snapshot!FastFields(os), failed, os)
  <2>1. Snapshot!FastFields(os) \in SUBSET Snapshot!Fields BY <1>0, LaneFields
  <2>2. /\ DOMAIN s = Snapshot!FastFields(os)
        /\ \A f \in DOMAIN s : s[f] \in {"value", "reason", "nothing"}
        /\ \A f \in DOMAIN s : f # "TemperatureSensor" => s[f] # "nothing"
    BY <1>0, <2>1, AssignedIs
  <2> HIDE DEF s
  <2>3. {"TemperatureSensor", "CPUTemperature"} \cap DOMAIN s = {}
        /\ (os = "linux" => "MemoryCommit" \notin DOMAIN s)
    BY <1>0, <2>2, LaneFields
  <2>4. GoodPatch(s) BY <2>1, <2>2, <2>3 DEF GoodPatch
  <2>5. Snapshot!Publishes(s, "fast", "done") BY <1>1 DEF s
  <2> QED BY <2>2, <2>4, <2>5, PublishesInv
<1>2. ASSUME NEW failed,
             Snapshot!Publishes(Snapshot!Assigned(Snapshot!SlowFields(os), failed, os),
               "slow", "done")
      PROVE FieldInv'
  <2> DEFINE s == Snapshot!Assigned(Snapshot!SlowFields(os), failed, os)
  <2>1. Snapshot!SlowFields(os) \in SUBSET Snapshot!Fields BY <1>0, LaneFields
  <2>2. /\ DOMAIN s = Snapshot!SlowFields(os)
        /\ \A f \in DOMAIN s : s[f] \in {"value", "reason", "nothing"}
        /\ \A f \in DOMAIN s : f # "TemperatureSensor" => s[f] # "nothing"
        /\ \A f \in DOMAIN s : f \in Snapshot!Never(os) => s[f] # "value"
        /\ {"TemperatureSensor", "CPUTemperature"} \subseteq DOMAIN s => SensorNamed(s)
    BY <1>0, <2>1, AssignedIs
  <2> HIDE DEF s
  <2>3. {"TemperatureSensor", "CPUTemperature"} \subseteq DOMAIN s
        /\ (os = "linux" => "MemoryCommit" \in Snapshot!Never(os))
    BY <1>0, <2>2, LaneFields
  <2>4. GoodPatch(s) BY <2>1, <2>2, <2>3 DEF GoodPatch
  <2>5. Snapshot!Publishes(s, "slow", "done") BY <1>2 DEF s
  <2> QED BY <2>2, <2>4, <2>5, PublishesInv
<1>3. ASSUME NEW owned, owned \subseteq Snapshot!Fields, NEW loop \in {"fast", "slow"},
             \/ {"TemperatureSensor", "CPUTemperature"} \subseteq owned
             \/ {"TemperatureSensor", "CPUTemperature"} \cap owned = {},
             loop = "fast" => owned = Snapshot!FastFields(os),
             loop = "slow" => owned = Snapshot!DegradedFields(os),
             Snapshot!Publishes([f \in owned |-> Snapshot!Degraded(f)], loop, "panicked")
      PROVE  FieldInv'
  <2> DEFINE s == [f \in owned |-> Snapshot!Degraded(f)]
  <2>1. /\ DOMAIN s = owned
        /\ \A f \in owned : s[f] = IF f = "TemperatureSensor" THEN "nothing" ELSE "reason"
    BY DEF Snapshot!Degraded
  <2>2. Snapshot!Publishes(s, loop, "panicked") BY <1>3
  <2> HIDE DEF s
  <2>3. \A f \in owned : s[f] # "value" /\ s[f] \in {"value", "reason", "nothing"}
        /\ (f # "TemperatureSensor" => s[f] # "nothing")
    BY <2>1
  <2>4. GoodPatch(s)
    <3>1. {"TemperatureSensor", "CPUTemperature"} \subseteq owned => SensorNamed(s)
      BY <2>3 DEF SensorNamed
    <3> QED BY <1>3, <2>1, <2>3, <3>1 DEF GoodPatch
  <2> QED BY <1>3, <2>1, <2>2, <2>3, <2>4, PublishesInv
<1>4. CASE Snapshot!FastPass BY <1>4, <1>1 DEF Snapshot!FastPass
<1>5. CASE Snapshot!SlowPass BY <1>5, <1>2 DEF Snapshot!SlowPass
<1>6. CASE Snapshot!FastPanics
  <2> DEFINE owned == Snapshot!FastFields(os)
  <2>1. owned \subseteq Snapshot!Fields /\ {"TemperatureSensor", "CPUTemperature"} \cap owned = {}
    BY <1>0, LaneFields
  <2>2. Snapshot!Publishes([f \in owned |-> Snapshot!Degraded(f)], "fast", "panicked")
    BY <1>6 DEF Snapshot!FastPanics
  <2> QED BY <1>3, <2>1, <2>2
<1>7. CASE Snapshot!SlowPanics
  <2> DEFINE owned == Snapshot!DegradedFields(os)
  <2>1. owned \subseteq Snapshot!Fields /\ {"TemperatureSensor", "CPUTemperature"} \subseteq owned
    BY <1>0, LaneFields
  <2>2. Snapshot!Publishes([f \in owned |-> Snapshot!Degraded(f)], "slow", "panicked")
    BY <1>7 DEF Snapshot!SlowPanics
  <2> QED BY <1>3, <2>1, <2>2
<1>8. CASE Snapshot!CollectAll
  <2>1. os' = os /\ working' = working /\ ended' = ended /\ ended["slow"] = "not run"
    BY <1>8 DEF Snapshot!CollectAll
  <2>2. PICK failed : shown' = Snapshot!Assigned(Snapshot!Fields, failed, os)
    BY <1>8 DEF Snapshot!CollectAll
  <2> DEFINE s == Snapshot!Assigned(Snapshot!Fields, failed, os)
  <2>3. Snapshot!Fields \in SUBSET Snapshot!Fields
        /\ {"TemperatureSensor", "CPUTemperature", "MemoryCommit"} \subseteq Snapshot!Fields
        /\ (os = "linux" => "MemoryCommit" \in Snapshot!Never(os))
    BY <1>0, LaneFields
  <2>4. /\ DOMAIN s = Snapshot!Fields
        /\ \A f \in Snapshot!Fields : s[f] \in {"value", "reason", "nothing"}
        /\ \A f \in Snapshot!Fields : f # "TemperatureSensor" => s[f] # "nothing"
        /\ \A f \in Snapshot!Fields : f \in Snapshot!Never(os) => s[f] # "value"
        /\ SensorNamed(s)
    BY <1>0, <2>3, AssignedIs
  <2>5. shown' \in [Snapshot!Fields -> {"value", "reason", "nothing"}]
    <3>1. s = [f \in Snapshot!Fields |-> s[f]] BY <2>4 DEF Snapshot!Assigned
    <3> HIDE DEF s
    <3>2. s \in [Snapshot!Fields -> {"value", "reason", "nothing"}] BY <2>4, <3>1
    <3> QED BY <2>2, <3>2 DEF s
  <2>6. shown' = s BY <2>2
  <2> HIDE DEF s
  <2>7. GapsSaid(shown)' /\ SensorNamed(shown)' /\ CommitOnWindows(shown)'
          /\ NothingOutlives(shown)'
    <3>1. GapsSaid(shown)' BY <2>1, <2>4, <2>6 DEF GapsSaid
    <3>2. SensorNamed(shown)' BY <2>4, <2>6 DEF SensorNamed
    <3>3. CommitOnWindows(shown)' BY <2>1, <2>3, <2>4, <2>6 DEF CommitOnWindows
    <3>4. NothingOutlives(shown)' BY <2>1 DEF NothingOutlives
    <3> QED BY <3>1, <3>2, <3>3, <3>4
  <2>8. GoodSnapshot(working)'
    BY <2>1 DEF FieldInv, GoodSnapshot, GapsSaid, SensorNamed, CommitOnWindows, NothingOutlives
  <2>9. GoodSnapshot(shown)' BY <2>5, <2>7 DEF GoodSnapshot
  <2>10. (os \in {"linux", "windows"}
           /\ ended \in [{"fast", "slow"} -> {"not run", "done", "panicked"}])'
    BY <2>1 DEF FieldInv
  <2> QED BY <2>8, <2>9, <2>10 DEF FieldInv
<1>9. CASE UNCHANGED fieldVars
  BY <1>9 DEF fieldVars, FieldInv, GoodSnapshot, GapsSaid, SensorNamed, CommitOnWindows,
       NothingOutlives
<1> QED BY <1>4, <1>5, <1>6, <1>7, <1>8, <1>9 DEF Snapshot!Next

LEMMA FieldsHonest ==
  ASSUME FieldInv
  PROVE  Snapshot!TypeOK /\ Snapshot!NoSilentGap /\ Snapshot!NoReadingOutlivesItsPass
         /\ Snapshot!ReadyOnceMeasured
<1>1. Snapshot!TypeOK BY DEF FieldInv, GoodSnapshot, Snapshot!TypeOK
<1>2. Snapshot!NoSilentGap BY DEF FieldInv, GoodSnapshot, GapsSaid, Snapshot!NoSilentGap
<1>3. Snapshot!NoReadingOutlivesItsPass
  BY DEF FieldInv, GoodSnapshot, SensorNamed, NothingOutlives, Snapshot!NoReadingOutlivesItsPass
<1>4. Snapshot!ReadyOnceMeasured
  <2>1. \A f \in {"Disks", "Network", "Temperatures", "GPU", "Tailscale"} :
          f \in Snapshot!Fields \ {"TemperatureSensor"} /\ f # "MemorySwap"
    BY DEF Snapshot!Fields
  <2> QED BY <2>1 DEF FieldInv, GoodSnapshot, GapsSaid, Snapshot!ReadyOnceMeasured,
             Snapshot!ValidShape, Snapshot!SaysWhy
<1> QED BY <1>1, <1>2, <1>3, <1>4

-----------------------------------------------------------------------------
(* The list of drives on Windows: StorageRefresh.                           *)

\* What the cache, the discovery and the pass that waits know of one another.
ListInv ==
  /\ sNow \in Nat \ {0}
  /\ cache \in [rowsAt : Nat, empty : BOOLEAN, failed : BOOLEAN, attemptAt : Nat]
  /\ refresh \in [running : BOOLEAN, since : Nat] /\ lane \in [waits : BOOLEAN, asked : Nat]
  /\ cache.rowsAt = 0 => cache.empty
  /\ ~cache.failed /\ cache.attemptAt # 0 => cache.rowsAt = cache.attemptAt
  /\ lane.waits =>
       /\ 1 <= lane.asked /\ lane.asked <= sNow /\ sNow - lane.asked <= DiscoveryWait
       /\ (cache.attemptAt = 0 /\ refresh.running) \/ lane.asked <= cache.attemptAt

LEMMA ListTimes ==
  /\ {CacheTTL, RetryAfter, StaleGrace, DiscoveryWait, ListTime} \subseteq Nat \ {0}
  /\ DiscoveryWait <= RetryAfter /\ RetryAfter <= CacheTTL /\ CacheTTL <= StaleGrace
BY ListAssumed DEF List!StorageAssumption

LEMMA RefreshIs ==
  ASSUME ListInv
  PROVE  /\ List!RefreshNow \in [running : BOOLEAN, since : Nat]
         /\ cache.attemptAt = 0 => List!RefreshNow.running
         /\ refresh.running => List!RefreshNow = refresh
         /\ ~refresh.running /\ cache.attemptAt # 0 /\ ~cache.failed
              /\ sNow - cache.attemptAt >= CacheTTL => List!RefreshNow.since = sNow
<1>1. /\ [running |-> TRUE, since |-> sNow] \in [running : BOOLEAN, since : Nat]
      /\ [running |-> TRUE, since |-> sNow].running
           /\ [running |-> TRUE, since |-> sNow].since = sNow
  BY DEF ListInv
<1>2. CASE List!Due
  <2>1. List!RefreshNow = [running |-> TRUE, since |-> sNow] /\ ~refresh.running
    BY <1>2 DEF List!RefreshNow, List!Due
  <2> QED BY <1>1, <2>1
<1>3. CASE ~List!Due
  <2>1. List!RefreshNow = refresh BY <1>3 DEF List!RefreshNow
  <2>2. refresh.running \/ (cache.attemptAt # 0 /\
          ~(sNow - cache.attemptAt >= IF cache.failed THEN RetryAfter ELSE CacheTTL))
    BY <1>3 DEF List!Due
  <2> QED BY <2>1, <2>2 DEF ListInv
<1> QED BY <1>2, <1>3

LEMMA ListStep == ASSUME ListInv, [List!Next]_listVars PROVE ListInv'
<1> USE ListTimes
<1>1. CASE List!Tick BY <1>1 DEF ListInv, List!Tick
<1>2. CASE List!PassAtOnce
  <2>1. List!RefreshNow \in [running : BOOLEAN, since : Nat]
        /\ (refresh.running => List!RefreshNow = refresh)
    BY RefreshIs
  <2> QED BY <1>2, <2>1 DEF ListInv, List!PassAtOnce
<1>3. CASE List!FirstPassWaits
  <2>1. List!RefreshNow \in [running : BOOLEAN, since : Nat]
        /\ (cache.attemptAt = 0 => List!RefreshNow.running)
    BY RefreshIs
  <2> QED BY <1>3, <2>1 DEF ListInv, List!FirstPassWaits
<1>4. CASE List!FirstPassAnswered BY <1>4 DEF ListInv, List!FirstPassAnswered
<1>5. ASSUME NEW ok \in BOOLEAN, NEW empty \in BOOLEAN, List!DiscoveryEnds(ok, empty)
      PROVE  ListInv'
  <2>1. CASE ok BY <1>5, <2>1 DEF ListInv, List!DiscoveryEnds
  <2>2. CASE ~ok BY <1>5, <2>2 DEF ListInv, List!DiscoveryEnds
  <2> QED BY <2>1, <2>2
<1>6. CASE UNCHANGED listVars BY <1>6 DEF ListInv, listVars
<1> QED BY <1>1, <1>2, <1>3, <1>4, <1>5, <1>6 DEF List!Next

\* What the rule asks of an answer.
Honest ==
  /\ answer'.what = "error" => cache.empty \/ sNow - cache.rowsAt > StaleGrace
  /\ answer'.what = "rows" /\ sNow - answer'.rowsAt > StaleGrace
       => sNow - refresh'.since < DiscoveryWait

LEMMA AnswerIs ==
  ASSUME NEW r, List!Answer(r)
  PROVE  /\ answer'.rowsAt = cache.rowsAt
         /\ answer'.what = "error" => ~List!KeepsRows
         /\ answer'.what = "rows" => ~List!Error(r) \/ List!KeepsRows
<1>1. answer'.rowsAt = cache.rowsAt
      /\ answer'.what = (IF ~List!Error(r) \/ List!KeepsRows THEN "rows" ELSE "error")
  BY DEF List!Answer
<1> QED BY <1>1

LEMMA AnsweredHonestly ==
  ASSUME ListInv, List!PassAtOnce \/ List!FirstPassAnswered
  PROVE  Honest
<1> DEFINE r == IF List!PassAtOnce THEN List!RefreshNow ELSE refresh
<1>1. refresh' = r /\ List!Answer(r)
  <2>1. List!PassAtOnce => refresh' = List!RefreshNow /\ List!Answer(List!RefreshNow)
    BY DEF List!PassAtOnce
  <2>2. List!FirstPassAnswered => refresh' = refresh /\ List!Answer(refresh)
    BY DEF List!FirstPassAnswered
  <2> QED BY <2>1, <2>2
<1>2. answer'.rowsAt = cache.rowsAt
      /\ (answer'.what = "error" => ~List!KeepsRows)
      /\ (answer'.what = "rows" => ~List!Error(r) \/ List!KeepsRows)
  BY <1>1, AnswerIs
<1>3. answer'.what = "error" => cache.empty \/ sNow - cache.rowsAt > StaleGrace
  BY <1>2, ListTimes DEF ListInv, List!KeepsRows
<1>4. ASSUME answer'.what = "rows", sNow - cache.rowsAt > StaleGrace
      PROVE  sNow - r.since < DiscoveryWait
  <2>1. ~List!Error(r) BY <1>2, <1>4, ListTimes DEF ListInv, List!KeepsRows
  <2>2. ~cache.failed /\ (r.running => cache.attemptAt # 0 /\ ~(sNow - r.since >= DiscoveryWait))
    BY <2>1 DEF List!Error
  <2>3. r.since \in Nat BY RefreshIs DEF ListInv
  <2>4. CASE r.running BY <2>2, <2>3, <2>4, ListTimes DEF ListInv
  <2>5. CASE ~r.running
    <3>1. CASE List!PassAtOnce
      <4>1. ~refresh.running BY <2>5, <3>1, RefreshIs
      <4>2. cache.attemptAt # 0 BY <3>1 DEF List!PassAtOnce
      <4>3. sNow - cache.attemptAt >= CacheTTL BY <1>4, <2>2, <4>2, ListTimes DEF ListInv
      <4>4. r.since = sNow BY <2>2, <3>1, <4>1, <4>2, <4>3, RefreshIs
      <4> QED BY <4>4, ListTimes DEF ListInv
    <3>2. CASE List!FirstPassAnswered /\ ~List!PassAtOnce
      <4>1. lane.waits /\ ~refresh.running BY <2>5, <3>2 DEF List!FirstPassAnswered
      <4>2. lane.asked <= cache.attemptAt /\ sNow - lane.asked <= DiscoveryWait
           /\ 1 <= lane.asked
        BY <4>1 DEF ListInv
      <4>3. cache.attemptAt # 0 /\ cache.rowsAt = cache.attemptAt BY <2>2, <4>2 DEF ListInv
      <4> QED BY <1>4, <4>2, <4>3, ListTimes DEF ListInv
    <3> QED BY <3>1, <3>2
  <2> QED BY <2>4, <2>5
<1> HIDE DEF r
<1> QED BY <1>1, <1>2, <1>3, <1>4 DEF Honest

-----------------------------------------------------------------------------
(* The processor's sensors: CpuSensors.                                     *)

\* A set of sensors among which one is the warmest, whatever they read.
HasWarmest(A) ==
  \A S \in (SUBSET A) \ {{}} : \A c \in [Sensed!Sensors -> Nat] : Sensed!Warmest(S, c) # {}

LEMMA OneMoreSensor ==
  ASSUME NEW A \in SUBSET Sensed!Sensors, NEW x \in Sensed!Sensors, HasWarmest(A)
  PROVE  HasWarmest(A \cup {x})
<1> SUFFICES ASSUME NEW S \in (SUBSET (A \cup {x})) \ {{}}, NEW c \in [Sensed!Sensors -> Nat]
             PROVE  \E s \in S : \A t \in S : c[t] <= c[s]
  BY DEF HasWarmest, Sensed!Warmest
<1>1. \A s \in S : c[s] \in Nat OBVIOUS
<1>2. CASE S \ {x} = {} BY <1>1, <1>2
<1>3. CASE S \ {x} # {}
  <2>1. PICK s \in S \ {x} : \A t \in S \ {x} : c[t] <= c[s]
    <3>1. S \ {x} \in (SUBSET A) \ {{}} BY <1>3
    <3>2. Sensed!Warmest(S \ {x}, c) # {} BY <3>1 DEF HasWarmest
    <3> QED BY <3>2 DEF Sensed!Warmest
  <2>2. CASE c[x] <= c[s] BY <1>1, <2>1, <2>2
  <2>3. CASE c[s] < c[x] /\ x \in S BY <1>1, <2>1, <2>3
  <2>4. CASE x \notin S BY <2>1, <2>4
  <2> QED BY <1>1, <2>1, <2>2, <2>3, <2>4
<1> QED BY <1>2, <1>3

LEMMA PairIs ==
  ASSUME NEW a, NEW b, NEW s, s = <<a, b>> PROVE DOMAIN s = {1, 2} /\ s[1] = a /\ s[2] = b
OBVIOUS

LEMMA RanksAre ==
  /\ Sensed!Sensors = {"core (tctl/tdie)", "k8temp tctl", "coretemp package id 0", "package",
                       "coretemp core 0", "coretemp core 1", "ccd1", "nct6799 cpu"}
  /\ \A s \in Sensed!Sensors : Sensed!Rank[s] \in {0, 1, 2, 4}
<1>1. ASSUME NEW s \in Sensed!Sensors PROVE Sensed!Rank[s] \in {0, 1, 2, 4}
  <2>1. CASE s \in {"core (tctl/tdie)", "k8temp tctl"} BY <2>1 DEF Sensed!Sensors, Sensed!Rank
  <2>2. CASE s \in {"coretemp package id 0", "package"} BY <2>2 DEF Sensed!Sensors, Sensed!Rank
  <2>3. CASE s \in {"coretemp core 0", "coretemp core 1"} BY <2>3 DEF Sensed!Sensors, Sensed!Rank
  <2>4. CASE s \in {"ccd1", "nct6799 cpu"} BY <2>4 DEF Sensed!Sensors, Sensed!Rank
  <2> QED BY <2>1, <2>2, <2>3, <2>4 DEF Sensed!Sensors
<1> QED BY <1>1 DEF Sensed!Sensors

LEMMA SensorsHaveWarmest == HasWarmest(Sensed!Sensors)
<1> DEFINE a1 == {} \cup {"core (tctl/tdie)"}
           a2 == a1 \cup {"k8temp tctl"}
           a3 == a2 \cup {"coretemp package id 0"}
           a4 == a3 \cup {"package"}
           a5 == a4 \cup {"coretemp core 0"}
           a6 == a5 \cup {"coretemp core 1"}
           a7 == a6 \cup {"ccd1"}
           a8 == a7 \cup {"nct6799 cpu"}
<1>1. a8 = Sensed!Sensors BY RanksAre
<1>2. a1 \subseteq a2 /\ a2 \subseteq a3 /\ a3 \subseteq a4 /\ a4 \subseteq a5 /\ a5 \subseteq a6
      /\ a6 \subseteq a7 /\ a7 \subseteq a8 /\ {} \subseteq a8
  OBVIOUS
<1>3. {"core (tctl/tdie)", "k8temp tctl", "coretemp package id 0", "package", "coretemp core 0",
       "coretemp core 1", "ccd1", "nct6799 cpu"} \subseteq Sensed!Sensors
  BY RanksAre
<1>4. HasWarmest({}) BY DEF HasWarmest
<1>5. HasWarmest(a1)
  BY <1>1, <1>2, <1>3, <1>4, OneMoreSensor
<1>6. HasWarmest(a2)
  BY <1>1, <1>2, <1>3, <1>5, OneMoreSensor
<1>7. HasWarmest(a3)
  BY <1>1, <1>2, <1>3, <1>6, OneMoreSensor
<1>8. HasWarmest(a4)
  BY <1>1, <1>2, <1>3, <1>7, OneMoreSensor
<1>9. HasWarmest(a5)
  BY <1>1, <1>2, <1>3, <1>8, OneMoreSensor
<1>10. HasWarmest(a6)
  BY <1>1, <1>2, <1>3, <1>9, OneMoreSensor
<1>11. HasWarmest(a7)
  BY <1>1, <1>2, <1>3, <1>10, OneMoreSensor
<1>12. HasWarmest(a8)
  BY <1>1, <1>2, <1>3, <1>11, OneMoreSensor
<1> QED BY <1>1, <1>12

LEMMA BestRank ==
  ASSUME NEW R \in (SUBSET {0, 1, 2, 4}) \ {{}}
  PROVE  Sensed!Min(R) \in R
<1>1. \E r \in R : \A q \in R : r <= q
  <2>1. CASE 0 \in R BY <2>1
  <2>2. CASE 0 \notin R /\ 1 \in R BY <2>2
  <2>3. CASE R \subseteq {2, 4} /\ 2 \in R BY <2>3
  <2>4. CASE R = {4} BY <2>4
  <2> QED BY <2>1, <2>2, <2>3, <2>4
<1> QED BY <1>1 DEF Sensed!Min

\* The register class the CPU temperature comes from, for the sensors there are.
LEMMA MeaningOfAvailable ==
  ASSUME NEW c \in [Sensed!Sensors -> Nat], NEW d \in [Sensed!Sensors -> Nat],
         Sensed!Available(c) = Sensed!Available(d)
  PROVE  Sensed!Meaning(Sensed!PickCPUTemperatureSensor(c))
         = Sensed!Meaning(Sensed!PickCPUTemperatureSensor(d))
<1> DEFINE A == Sensed!Available(c)
           listed(f) == {i \in DOMAIN Sensed!Canonical : f[Sensed!Canonical[i]] > 0}
           best == Sensed!Min({Sensed!DieRank(s) : s \in A})
           T == {s \in A : Sensed!DieRank(s) = best}
           pick(f) == Sensed!PickCPUTemperatureSensor(f)
<1>1. A \subseteq Sensed!Sensors /\ A = Sensed!Available(d) BY DEF Sensed!Available
<1>2. listed(c) = listed(d)
  <2>1. \A i \in DOMAIN Sensed!Canonical : Sensed!Canonical[i] \in Sensed!Sensors
    <3>1. Sensed!Canonical = <<"core (tctl/tdie)", "coretemp package id 0">>
            BY DEF Sensed!Canonical
    <3>2. DOMAIN Sensed!Canonical = {1, 2} /\ Sensed!Canonical[1] = "core (tctl/tdie)"
          /\ Sensed!Canonical[2] = "coretemp package id 0"
      BY <3>1, PairIs
    <3> QED BY <3>2, RanksAre
  <2>2. \A s \in Sensed!Sensors : c[s] > 0 <=> d[s] > 0 BY <1>1 DEF Sensed!Available
  <2> QED BY <2>1, <2>2
<1>3. CASE A = {}
  BY <1>1, <1>3 DEF Sensed!PickCPUTemperatureSensor
<1>4. CASE A # {} /\ listed(c) # {}
  BY <1>1, <1>2, <1>4 DEF Sensed!PickCPUTemperatureSensor
<1>5. CASE A # {} /\ listed(c) = {}
  <2>1. pick(c) = Sensed!Warmest(T, c) /\ pick(d) = Sensed!Warmest(T, d)
    BY <1>1, <1>2, <1>5 DEF Sensed!PickCPUTemperatureSensor, Sensed!RankCPUTemperature
  <2>2. T # {}
    <3>1. {Sensed!DieRank(s) : s \in A} \in (SUBSET {0, 1, 2, 4}) \ {{}}
      BY <1>1, <1>5, RanksAre DEF Sensed!DieRank
    <3>2. best \in {Sensed!DieRank(s) : s \in A} BY <3>1, BestRank
    <3> HIDE DEF A, best
    <3> QED BY <3>2
  <2>3. T \in (SUBSET Sensed!Sensors) \ {{}} /\ \A s \in T : Sensed!Rank[s] = best
    BY <1>1, <2>2 DEF Sensed!DieRank
  <2> HIDE DEF T, best, A, listed
  <2>4. ASSUME NEW f \in [Sensed!Sensors -> Nat], pick(f) = Sensed!Warmest(T, f)
        PROVE  pick(f) # {} /\ {Sensed!Rank[s] : s \in pick(f)} = {best}
    <3>1. pick(f) # {} /\ pick(f) \subseteq T
      BY <2>3, <2>4, SensorsHaveWarmest DEF HasWarmest, Sensed!Warmest
    <3> HIDE DEF pick
    <3> QED BY <2>3, <3>1
  <2> HIDE DEF pick
  <2>5. \A f \in {c, d} : Sensed!Meaning(pick(f)) = Sensed!ToString({best})
    BY <2>1, <2>4 DEF Sensed!Meaning
  <2> QED BY <2>5 DEF pick
<1> QED BY <1>3, <1>4, <1>5

\* The reading in use is the one the sensors give, and the ceiling is what was seen.
SensorInv ==
  /\ celsius \in [Sensed!Sensors -> Nat]
  /\ picked = [from  |-> Sensed!PickCPUTemperatureSensor(celsius),
               means |-> Sensed!Meaning(Sensed!PickCPUTemperatureSensor(celsius))]
  /\ ceiling \in Nat /\ seen \in Nat
  /\ ceiling = 0 => seen = 0
  /\ ceiling # 0 => ceiling = IF seen >= Seed THEN seen ELSE Seed

LEMMA CpuConstants ==
  /\ Degrees \subseteq Nat \ {0} /\ Clocks \subseteq Nat \ {0} /\ Seed \in Nat
  /\ MinClock \in Nat \ {0} /\ MaxClock \in Nat /\ MinClock <= MaxClock
  /\ Seed <= MaxClock
BY SensorsAssumed DEF Sensed!CpuAssumption

LEMMA HighestIs ==
  ASSUME NEW S \in SUBSET Int, NEW m \in S, \A x \in S : x <= m
  PROVE  Sensed!Max(S) = m
<1>1. \E x \in S : \A y \in S : x >= y OBVIOUS
<1>2. Sensed!Max(S) \in S /\ \A y \in S : Sensed!Max(S) >= y BY <1>1 DEF Sensed!Max
<1>3. Sensed!Max(S) \in Int /\ Sensed!Max(S) <= m /\ Sensed!Max(S) >= m BY <1>2
<1> QED BY <1>3

LEMMA SensorsInit == ASSUME Sensed!Init PROVE SensorInv
<1>1. celsius = [s \in Sensed!Sensors |-> 0] BY DEF Sensed!Init, Sensed!Unread
<1>2. celsius \in [Sensed!Sensors -> Nat] /\ Sensed!Available(celsius) = {}
  BY <1>1 DEF Sensed!Available
<1>3. Sensed!PickCPUTemperatureSensor(celsius) = {}
  BY <1>2 DEF Sensed!PickCPUTemperatureSensor
<1>4. picked = [from |-> {}, means |-> Sensed!Meaning({})]
  BY DEF Sensed!Init, Sensed!Nobody, Sensed!Meaning
<1>5. ceiling = 0 /\ seen = 0 BY DEF Sensed!Init
<1> QED BY <1>2, <1>3, <1>4, <1>5 DEF SensorInv

LEMMA ReadTemperaturesInv ==
  ASSUME SensorInv, NEW host, NEW c \in [host -> Degrees \cup {0}],
           Sensed!ReadTemperatures(host, c)
  PROVE  /\ SensorInv'
         /\ Sensed!Available(celsius) = Sensed!Available(celsius') => picked'.means = picked.means
<1>1. celsius' = [s \in Sensed!Sensors |-> IF s \in host THEN c[s] ELSE 0]
      /\ picked' = [from  |-> Sensed!PickCPUTemperatureSensor(celsius'),
                    means |-> Sensed!Meaning(Sensed!PickCPUTemperatureSensor(celsius'))]
      /\ ceiling' = ceiling /\ seen' = seen
  BY DEF Sensed!ReadTemperatures
<1>2. celsius' \in [Sensed!Sensors -> Nat]
  <2>1. Degrees \cup {0} \subseteq Nat BY CpuConstants
  <2>2. \A s \in host : c[s] \in Nat BY <2>1
  <2> QED BY <1>1, <2>2
<1>3. SensorInv' BY <1>1, <1>2 DEF SensorInv
<1>4. picked.means = Sensed!Meaning(Sensed!PickCPUTemperatureSensor(celsius))
      /\ picked'.means = Sensed!Meaning(Sensed!PickCPUTemperatureSensor(celsius'))
  BY <1>1 DEF SensorInv
<1>5. celsius \in [Sensed!Sensors -> Nat] BY DEF SensorInv
<1> QED BY <1>2, <1>3, <1>4, <1>5, MeaningOfAvailable

LEMMA ObserveClockInv ==
  ASSUME SensorInv, NEW peakCore \in Clocks \cup {0}, NEW current \in Clocks \cup {0},
         Sensed!ObserveClock(peakCore, current)
  PROVE  SensorInv' /\ picked' = picked
<1> DEFINE held == IF ceiling = 0 THEN Seed ELSE ceiling
           sample == Sensed!Sample(peakCore, current)
           good == {m \in {peakCore, current, seen} : m = seen \/ (m >= MinClock
             /\ m <= MaxClock)}
           high == IF sample >= seen THEN sample ELSE seen
<1>1. /\ (Sensed!PlausibleCPUClock(peakCore) /\ Sensed!PlausibleCPUClock(current))
           => current <= peakCore
      /\ ceiling' = IF sample > held THEN sample ELSE held
      /\ seen' = Sensed!Max(good) /\ picked' = picked /\ celsius' = celsius
  BY DEF Sensed!ObserveClock
<1>2. peakCore \in Nat /\ current \in Nat /\ seen \in Nat /\ ceiling \in Nat
  BY CpuConstants DEF SensorInv
<1>3. high \in good /\ \A m \in good : m <= high
  BY <1>1, <1>2, CpuConstants DEF Sensed!Sample, Sensed!PlausibleCPUClock
<1>4. sample \in Nat /\ good \in SUBSET Int BY <1>2 DEF Sensed!Sample
<1>5. seen' = high BY <1>1, <1>3, <1>4, HighestIs
<1> HIDE DEF sample, good
<1>6. /\ ceiling' \in Nat /\ seen' \in Nat
      /\ ceiling' = 0 => seen' = 0
      /\ ceiling' # 0 => ceiling' = IF seen' >= Seed THEN seen' ELSE Seed
  BY <1>1, <1>2, <1>4, <1>5, CpuConstants DEF SensorInv
<1> QED BY <1>1, <1>6 DEF SensorInv

LEMMA CeilingIs == ASSUME SensorInv PROVE Sensed!CeilingIsHighestSeen
<1>1. seen \in Nat /\ Seed \in Nat BY CpuConstants DEF SensorInv
<1>2. Sensed!Max({seen, Seed}) = IF seen >= Seed THEN seen ELSE Seed BY <1>1, HighestIs
<1> QED BY <1>2 DEF SensorInv, Sensed!CeilingIsHighestSeen

\* What the rule asks of a step.
MeaningKept ==
  Sensed!Available(celsius) = Sensed!Available(celsius') => picked'.means = picked.means

-----------------------------------------------------------------------------
(* The Apps and Processes pages: ProcessView.                               *)

\* Induction up to a bound, on the set of numbers a fact holds for.
LEMMA UpTo ==
  ASSUME NEW a \in Nat, NEW b \in Nat, NEW P, a \in P,
         \A n \in a .. b : n # b /\ n \in P => n + 1 \in P
  PROVE  a .. b \subseteq P
<1> DEFINE T == (a .. b) \ P
<1>1. SUFFICES ASSUME T # {} PROVE FALSE OBVIOUS
<1>2. T \subseteq Nat OBVIOUS
<1> HIDE DEF T
<1>3. PICK n \in T : \A m \in T : <<m, n>> \notin OpToRel(<, Nat)
  BY <1>1, <1>2, NatLessThanWellFounded, WFMin
<1>4. n \in a .. b /\ n \notin P /\ n # a BY <1>3 DEF T
<1>5. n - 1 \in a .. b /\ n - 1 # b /\ n - 1 \in Nat /\ n \in Nat /\ (n - 1) + 1 = n
        /\ n - 1 < n BY <1>4
<1>6. n - 1 \in T
  <2>1. n - 1 \notin P BY <1>4, <1>5
  <2> QED BY <2>1, <1>5 DEF T
<1>7. <<n - 1, n>> \in OpToRel(<, Nat) BY <1>5 DEF OpToRel
<1> QED BY <1>3, <1>6, <1>7

\* What is computed step by step from a first value is there.
Iterates(S, b, N, g) ==
  \E f \in [0 .. N -> S] : f[0] = b /\ \A n \in 1 .. N : f[n] = g[<<n, f[n - 1]>>]

LEMMA Iterated ==
  ASSUME NEW S, NEW b \in S, NEW N \in Nat, NEW g \in [(1 .. N) \X S -> S]
  PROVE  Iterates(S, b, N, g)
<1> DEFINE does(f, m) == f[0] = b /\ \A n \in 1 .. m : f[n] = g[<<n, f[n - 1]>>]
           P == {m \in 0 .. N : \E f \in [0 .. m -> S] : does(f, m)}
<1>1. 0 \in P
  <2>1. [i \in 0 .. 0 |-> b] \in [0 .. 0 -> S] /\ does([i \in 0 .. 0 |-> b], 0) OBVIOUS
  <2> HIDE DEF does
  <2>2. 0 \in 0 .. N OBVIOUS
  <2> QED BY <2>1, <2>2
<1>2. ASSUME NEW m \in 0 .. N, m # N, m \in P PROVE m + 1 \in P
  <2>1. PICK f \in [0 .. m -> S] : does(f, m) BY <1>2
  <2> DEFINE h == [i \in 0 .. m + 1 |-> IF i = m + 1 THEN g[<<m + 1, f[m]>>] ELSE f[i]]
  <2>2. m + 1 \in 1 .. N /\ f[m] \in S /\ m \in Nat BY <1>2, <2>1
  <2>3. g[<<m + 1, f[m]>>] \in S BY <2>2
  <2>4. h \in [0 .. m + 1 -> S] BY <2>1, <2>2, <2>3
  <2>5. h[m + 1] = g[<<m + 1, f[m]>>] /\ \A i \in 0 .. m : h[i] = f[i] BY <2>2
  <2> HIDE DEF h
  <2>6. ASSUME NEW n \in 1 .. m + 1 PROVE h[n] = g[<<n, h[n - 1]>>]
    <3>1. CASE n = m + 1
      <4>1. n - 1 = m /\ m \in 0 .. m BY <2>2, <3>1
      <4> QED BY <2>5, <3>1, <4>1
    <3>2. CASE n # m + 1
      <4>1. n \in 1 .. m /\ n \in 0 .. m /\ n - 1 \in 0 .. m BY <2>2, <3>2
      <4> QED BY <2>1, <2>5, <4>1
    <3> QED BY <3>1, <3>2
  <2>7. h[0] = b BY <2>1, <2>2, <2>5
  <2>8. does(h, m + 1) BY <2>6, <2>7
  <2>9. m + 1 \in 0 .. N BY <1>2
  <2> QED BY <2>4, <2>8, <2>9
<1> HIDE DEF P
<1>3. 0 .. N \subseteq P BY <1>1, <1>2, UpTo
<1>4. N \in P BY <1>3
<1> QED BY <1>4 DEF P, Iterates

-----------------------------------------------------------------------------
LEMMA ViewConstants ==
  /\ 1 .. 4 \subseteq Pids /\ Pids \subseteq Nat /\ 0 \notin Pids
  /\ MaxAncestry \in Nat /\ MaxAncestry > 1 /\ View!Nothing = 0 /\ View!Agent = 2
BY ViewAssumed DEF View!ProcessViewAssumption, View!Nothing, View!Agent

\* One more link up, unless it would close a loop.
Up(up, s) ==
  LET q == up[s[Len(s)]] IN IF q = 0 \/ q \in {s[i] : i \in DOMAIN s} THEN s ELSE Append(s, q)

\* A walk up from p: each element is the parent of the one before it.
IsWalk(D, up, p, s) ==
  /\ s \in Seq(D) /\ s # <<>> /\ s[1] = p
  /\ \A i \in 1 .. Len(s) - 1 : s[i + 1] = up[s[i]]

LEMMA OneUp ==
  ASSUME NEW D, 0 \notin D, NEW up \in [D -> D \cup {0}], NEW p \in D, NEW s, IsWalk(D, up, p, s)
  PROVE  /\ IsWalk(D, up, p, Up(up, s))
         /\ Len(Up(up, s)) >= Len(s)
         /\ s = <<p>> /\ up[p] \notin {0, p} => Len(Up(up, s)) >= 2
<1>1. s \in Seq(D) /\ s # <<>> /\ Len(s) \in Nat /\ Len(s) > 0 /\ DOMAIN s = 1 .. Len(s)
  BY DEF IsWalk
<1>0. Len(s) \in Nat BY <1>1
<1> DEFINE q == up[s[Len(s)]]
<1>2. s[Len(s)] \in D /\ q \in D \cup {0} BY <1>1
<1>3. CASE Up(up, s) = s /\ ~(s = <<p>> /\ up[p] \notin {0, p}) BY <1>1, <1>3
<1>4. CASE Up(up, s) = Append(s, q) /\ q # 0
  <2>1. q \in D BY <1>2, <1>4
  <2>2. Append(s, q) \in Seq(D) /\ Len(Append(s, q)) = Len(s) + 1 /\ Append(s, q)[Len(s) + 1] = q
        /\ \A i \in 1 .. Len(s) : Append(s, q)[i] = s[i]
    BY <1>1, <2>1
  <2>3. \A i \in 1 .. Len(s) : Append(s, q)[i + 1] = up[Append(s, q)[i]]
    <3> SUFFICES ASSUME NEW i \in 1 .. Len(s) PROVE Append(s, q)[i + 1] = up[Append(s, q)[i]]
      OBVIOUS
    <3>1. CASE i = Len(s) BY <1>1, <2>2, <3>1
    <3>2. CASE i # Len(s)
      <4>0. i \in Nat /\ Len(s) \in Nat /\ 1 <= i /\ i < Len(s) BY <1>0, <3>2
      <4>1. i \in 1 .. Len(s) - 1 /\ i + 1 \in 1 .. Len(s) BY <4>0
      <4> QED BY <2>2, <4>1 DEF IsWalk
    <3> QED BY <3>1, <3>2
  <2>4. Append(s, q) # <<>> /\ Append(s, q)[1] = p BY <1>1, <2>2 DEF IsWalk
  <2> HIDE DEF q
  <2>5. IsWalk(D, up, p, Append(s, q)) BY <1>1, <2>2, <2>3, <2>4 DEF IsWalk
  <2> QED BY <1>1, <1>4, <2>2, <2>5
<1>5. Up(up, s) = s \/ (Up(up, s) = Append(s, q) /\ q # 0) BY DEF Up
<1>6. ASSUME s = <<p>>, up[p] \notin {0, p} PROVE Up(up, s) = Append(s, q) /\ q # 0
  <2>1. Len(s) = 1 /\ s[1] = p /\ DOMAIN s = {1} BY <1>6
  <2>2. {s[i] : i \in DOMAIN s} = {p} BY <2>1
  <2> QED BY <1>6, <2>1, <2>2 DEF Up
<1> QED BY <1>3, <1>4, <1>5, <1>6

LEMMA ChainIs ==
  ASSUME NEW D, 0 \notin D, NEW up \in [D -> D \cup {0}], NEW p \in D
  PROVE  /\ IsWalk(D, up, p, View!Chain(up, p))
         /\ up[p] \notin {0, p} => Len(View!Chain(up, p)) >= 2
<1> DEFINE N == MaxAncestry
           walks == {s \in Seq(D) : IsWalk(D, up, p, s)}
           next(w, n) == IF n = 1 THEN <<p>> ELSE Up(up, w[n - 1])
           isWalk(w) == w = [n \in 1 .. N |-> next(w, n)]
           W == CHOOSE w : isWalk(w)
<1>1. N \in Nat /\ N > 1 BY ViewConstants
<1>2. <<p>> \in walks
  <2>1. <<p>> \in Seq(D) /\ <<p>> # <<>> /\ <<p>>[1] = p /\ Len(<<p>>) = 1 OBVIOUS
  <2> QED BY <2>1 DEF IsWalk
<1>3. \A s \in walks : Up(up, s) \in walks BY OneUp DEF IsWalk
<1>4. \E w : isWalk(w)
  <2> DEFINE g == [x \in (1 .. N) \X walks |-> Up(up, x[2])]
  <2>1. g \in [(1 .. N) \X walks -> walks] BY <1>3
  <2>2. \A n \in 1 .. N : \A s \in walks : g[<<n, s>>] = Up(up, s) OBVIOUS
  <2> HIDE DEF g, walks
  <2>0. <<p>> \in walks /\ N \in Nat BY <1>1, <1>2
  <2> HIDE DEF N
  <2>3. PICK f \in [0 .. N -> walks] : f[0] = <<p>> /\ \A n \in 1 .. N : f[n] = g[<<n, f[n - 1]>>]
    <3>1. Iterates(walks, <<p>>, N, g) BY <2>0, <2>1, Iterated
    <3> QED BY <3>1 DEF Iterates
  <2> USE DEF N
  <2> DEFINE w == [n \in 1 .. N |-> f[n - 1]]
  <2>4. ASSUME NEW n \in 1 .. N PROVE f[n - 1] = next(w, n)
    <3>1. CASE n = 1 BY <2>3, <3>1
    <3>2. CASE n # 1
      <4>1. n - 1 \in 1 .. N /\ n - 1 \in 0 .. N /\ n - 1 - 1 \in 0 .. N BY <1>1, <3>2
      <4>2. w[n - 1] = f[n - 1 - 1] BY <4>1
      <4>3. f[n - 1] = g[<<n - 1, f[n - 1 - 1]>>] /\ f[n - 1 - 1] \in walks BY <2>3, <4>1
      <4> QED BY <2>2, <3>2, <4>1, <4>2, <4>3
    <3> QED BY <3>1, <3>2
  <2>5. isWalk(w) BY <2>4
  <2> QED BY <2>5
<1>5. isWalk(W) BY <1>4
<1>6. View!Chain(up, p) = W[N]
  BY ZenonT(40), ViewConstants DEF View!Chain, View!Last, View!ToSet, Up
<1> HIDE DEF W, walks
<1>7. W[1] = <<p>> /\ \A n \in 2 .. N : W[n] = Up(up, W[n - 1])
  BY <1>1, <1>5
<1> DEFINE P == {n \in 2 .. N : W[n] \in walks /\ (up[p] \notin {0, p} => Len(W[n]) >= 2)}
<1>8. 2 \in P
  <2>1. W[2] = Up(up, <<p>>) /\ IsWalk(D, up, p, <<p>>) BY <1>1, <1>2, <1>7 DEF walks
  <2> QED BY <1>1, <1>2, <1>3, <2>1, OneUp
<1>9. ASSUME NEW n \in 2 .. N, n # N, n \in P PROVE n + 1 \in P
  <2>1. n + 1 \in 2 .. N /\ (n + 1) - 1 = n BY <1>1, <1>9
  <2>2. W[n + 1] = Up(up, W[n]) BY <1>7, <2>1
  <2>3. W[n] \in walks /\ (up[p] \notin {0, p} => Len(W[n]) >= 2) BY <1>9
  <2>4. Len(Up(up, W[n])) >= Len(W[n]) /\ Up(up, W[n]) \in walks /\ Len(W[n]) \in Nat
        /\ Len(Up(up, W[n])) \in Nat
    BY <1>3, <2>3, OneUp DEF walks
  <2> QED BY <2>1, <2>2, <2>3, <2>4
<1>10. N \in P
  <2> HIDE DEF P
  <2>1. 2 .. N \subseteq P BY <1>1, <1>8, <1>9, UpTo
  <2> QED BY <1>1, <2>1
<1> QED BY <1>6, <1>10 DEF walks

\* The processes of the machine.
ProcNames == View!Names \cup {""}
ProcSet == [alive : BOOLEAN, born : Nat, ppid : Nat, name : ProcNames, line : SUBSET Nat]

\* Of two processes that run, the one whose number the other has for a parent is one
\* it descends from, unless it is the younger: only on Windows can it be.
Machine(m) ==
  /\ m \in [Pids -> ProcSet]
  /\ m[1].alive /\ m[1].line = {1}
  /\ \A p \in Pids : m[p].alive => m[p].born \in m[p].line /\ 1 \in m[p].line
  /\ \A p, q \in Pids : m[p].alive /\ m[q].alive /\ p # q => m[p].born # m[q].born
  /\ \A p, q \in Pids :
       m[p].alive /\ m[q].alive /\ m[p].ppid = q /\ (windows => m[q].born < m[p].born) =>
         m[q].line \subseteq m[p].line
  /\ ~windows => \A p \in Pids : m[p].alive /\ m[p].ppid # 0 =>
                   m[p].ppid \in Pids /\ m[m[p].ppid].alive

\* A row as it is read, and the rows of a pass.
RowSet == [pid : Nat, ppid : Nat, name : ProcNames, born : Nat, line : SUBSET Nat, created : Nat]
RowsOf == UNION {[D -> RowSet] : D \in SUBSET Pids}

ViewPasses ==
  [at : {"idle", "read"}, todo : SUBSET Pids, listed : {<<>>} \cup [Pids -> ProcSet],
   rows : {<<>>} \cup RowsOf, handed : SUBSET Pids]

\* What a row says of a process whose id has not changed hands since the pass began.
RowRight(b, p) ==
  /\ p \notin b.handed =>
       /\ b.rows[p].born = b.listed[p].born /\ b.rows[p].line = b.listed[p].line
       /\ b.rows[p].created \in {0, b.rows[p].born}
  /\ windows => b.rows[p].ppid = b.listed[p].ppid
  /\ ~windows /\ p \notin b.handed /\ b.rows[p].ppid \in Pids \ b.handed =>
       b.listed[b.rows[p].ppid].line \subseteq b.listed[p].line

\* A pass under way: what it listed is a machine, and what still has its id since then
\* is what it was.
PassRight(b) ==
  /\ Machine(b.listed)
  /\ \A p \in b.todo \cup DOMAIN b.rows : b.listed[p].alive
  /\ \A p \in Pids \ b.handed :
       /\ proc[p].alive = b.listed[p].alive /\ proc[p].born = b.listed[p].born
       /\ proc[p].line = b.listed[p].line
  /\ \A p \in DOMAIN b.rows : RowRight(b, p)

ViewInv ==
  /\ windows \in BOOLEAN /\ forks \in Nat
  /\ Machine(proc) /\ \A p \in Pids : proc[p].alive => proc[p].born <= forks
  /\ build \in ViewPasses
  /\ build.at = "read" => PassRight(build)

LEMMA StartIs ==
  ASSUME NEW p \in Nat, NEW b \in Nat, NEW n \in ProcNames, NEW up \in SUBSET Nat
  PROVE  /\ View!Start(p, b, n, up) \in ProcSet /\ View!Start(p, b, n, up).alive
         /\ View!Start(p, b, n, up).born = b /\ View!Start(p, b, n, up).ppid = p
         /\ View!Start(p, b, n, up).line = up \cup {b}
BY DEF View!Start, ProcSet

Begun(s, p, b, up) ==
  s \in ProcSet /\ s.alive /\ s.born = b /\ s.ppid = p /\ s.line = up \cup {b}

LEMMA StartBegun ==
  \A p, b \in Nat : \A n \in ProcNames : \A up \in SUBSET Nat : Begun(View!Start(p, b, n,
    up), p, b, up)
BY StartIs DEF Begun

LEMMA GoneIs == View!Gone \in ProcSet /\ ~View!Gone.alive
BY DEF View!Gone, ProcSet, ProcNames

LEMMA NoRows == DOMAIN <<>> = {} 
OBVIOUS

LEMMA IdleIs == View!Idle \in ViewPasses /\ View!Idle.at = "idle"
BY DEF View!Idle, ViewPasses

LEMMA FilesInit == ASSUME View!Init PROVE ViewInv
<1>1. PICK n \in [3 .. 4 -> View!Names] :
        proc = [p \in Pids |-> IF p = 1 THEN View!Start(0, 1, "bash", {})
                              ELSE IF p = View!Agent THEN View!Start(1, 2, "code", {1})
                              ELSE IF p = 3 THEN View!Start(View!Agent, 3, n[3], {1, 2})
                              ELSE IF p = 4 THEN View!Start(3, 4, n[4], 1..3) ELSE View!Gone]
  BY DEF View!Init
<1>2. n[3] \in ProcNames /\ n[4] \in ProcNames /\ "bash" \in ProcNames /\ "code" \in ProcNames
  <2>1. View!Names \subseteq ProcNames /\ {"bash", "code"} \subseteq ProcNames
    BY DEF View!Names, ProcNames
  <2>2. 3 \in 3 .. 4 /\ 4 \in 3 .. 4 OBVIOUS
  <2> QED BY <2>1, <2>2
<1>3. {1, 2, 3, 4} \subseteq Pids /\ Pids \subseteq Nat BY ViewConstants
<1>4. /\ proc[1] \in ProcSet /\ proc[1].alive /\ proc[1].born = 1 /\ proc[1].ppid = 0
           /\ proc[1].line = {1}
  <2>1. proc[1] = View!Start(0, 1, "bash", {}) BY <1>1, <1>3
  <2>2. {} \cup {1} = {1} /\ {} \in SUBSET Nat /\ 0 \in Nat /\ 1 \in Nat OBVIOUS
  <2>3. Begun(View!Start(0, 1, "bash", {}), 0, 1, {}) BY <2>2, <1>2, StartBegun
  <2> QED BY <2>1, <2>2, <2>3 DEF Begun
<1>5. /\ proc[2] \in ProcSet /\ proc[2].alive /\ proc[2].born = 2 /\ proc[2].ppid = 1
           /\ proc[2].line = {1, 2}
  <2>1. proc[2] = View!Start(1, 2, "code", {1}) BY <1>1, <1>3, ViewConstants
  <2>2. {1} \cup {2} = {1, 2} /\ {1} \in SUBSET Nat /\ 1 \in Nat /\ 2 \in Nat OBVIOUS
  <2>3. Begun(View!Start(1, 2, "code", {1}), 1, 2, {1}) BY <2>2, <1>2, StartBegun
  <2> QED BY <2>1, <2>2, <2>3 DEF Begun
<1>6. /\ proc[3] \in ProcSet /\ proc[3].alive /\ proc[3].born = 3 /\ proc[3].ppid = 2
           /\ proc[3].line = {1, 2, 3}
  <2>1. proc[3] = View!Start(2, 3, n[3], {1, 2}) BY <1>1, <1>3, ViewConstants
  <2>2. {1, 2} \cup {3} = {1, 2, 3} /\ {1, 2} \in SUBSET Nat /\ 2 \in Nat /\ 3 \in Nat OBVIOUS
  <2>3. Begun(View!Start(2, 3, n[3], {1, 2}), 2, 3, {1, 2}) BY <2>2, <1>2, StartBegun
  <2> QED BY <2>1, <2>2, <2>3 DEF Begun
<1>7. /\ proc[4] \in ProcSet /\ proc[4].alive /\ proc[4].born = 4 /\ proc[4].ppid = 3
           /\ proc[4].line = {1, 2, 3, 4}
  <2>1. proc[4] = View!Start(3, 4, n[4], 1 .. 3) BY <1>1, <1>3, ViewConstants
  <2>2. (1 .. 3) \cup {4} = {1, 2, 3, 4} /\ 1 .. 3 \in SUBSET Nat /\ 3 \in Nat
          /\ 4 \in Nat OBVIOUS
  <2>3. Begun(View!Start(3, 4, n[4], 1 .. 3), 3, 4, 1 .. 3) BY <2>2, <1>2, StartBegun
  <2> QED BY <2>1, <2>2, <2>3 DEF Begun
<1>8. \A p \in Pids \ {1, 2, 3, 4} : proc[p] \in ProcSet /\ ~proc[p].alive
  BY <1>1, GoneIs, ViewConstants
<1>9. proc \in [Pids -> ProcSet]
  <2>1. \A p \in Pids : proc[p] \in ProcSet BY <1>4, <1>5, <1>6, <1>7, <1>8
  <2>2. proc = [p \in Pids |-> proc[p]] BY <1>1
  <2> QED BY <2>1, <2>2
<1>10. forks = 4 /\ build = View!Idle /\ windows \in BOOLEAN
  BY DEF View!Init
<1> DEFINE alive(p) == p \in {1, 2, 3, 4}
<1>11. \A p \in Pids : proc[p].alive <=> alive(p) BY <1>4, <1>5, <1>6, <1>7, <1>8
<1>12. Machine(proc)
  <2>1. \A p \in Pids : proc[p].alive => proc[p].born \in proc[p].line /\ 1 \in proc[p].line
    BY <1>11, <1>4, <1>5, <1>6, <1>7
  <2>2. \A p, q \in Pids : proc[p].alive /\ proc[q].alive /\ p # q => proc[p].born # proc[q].born
    BY <1>11, <1>4, <1>5, <1>6, <1>7
  <2>3. \A p, q \in Pids : proc[p].alive /\ proc[q].alive /\ proc[p].ppid = q =>
          proc[q].line \subseteq proc[p].line
    BY <1>11, <1>4, <1>5, <1>6, <1>7
  <2>4. \A p \in Pids : proc[p].alive /\ proc[p].ppid # 0 =>
          proc[p].ppid \in Pids /\ proc[proc[p].ppid].alive
    BY <1>3, <1>11, <1>4, <1>5, <1>6, <1>7
  <2> QED BY <1>4, <1>9, <2>1, <2>2, <2>3, <2>4 DEF Machine
<1>13. \A p \in Pids : proc[p].alive => proc[p].born <= forks
  BY <1>10, <1>11, <1>4, <1>5, <1>6, <1>7
<1> QED BY <1>10, <1>12, <1>13, IdleIs DEF ViewInv

LEMMA HandedIs ==
  ASSUME NEW b \in ViewPasses, NEW c \in Pids
  PROVE  LET h == [b EXCEPT !.handed = @ \cup {c}]
         IN /\ h \in ViewPasses /\ h.at = b.at /\ h.todo = b.todo /\ h.listed = b.listed
            /\ h.rows = b.rows /\ h.handed = b.handed \cup {c}
BY DEF ViewPasses

\* A process id changes hands: what it was is not relied on any more.
LEMMA HandsInv ==
  ASSUME ViewInv, NEW c \in Pids, build' = View!Hands(c), windows' = windows,
         \A q \in Pids \ {c} : /\ proc'[q].alive = proc[q].alive /\ proc'[q].born = proc[q].born
                               /\ proc'[q].line = proc[q].line
  PROVE  build' \in ViewPasses /\ (build'.at = "read" => PassRight(build)')
<1>1. build \in ViewPasses BY DEF ViewInv
<1>2. CASE build.at = "idle"
  <2>1. build' = build BY <1>2 DEF View!Hands
  <2> QED BY <1>1, <1>2, <2>1
<1>3. CASE build.at # "idle"
  <2>1. build' = [build EXCEPT !.handed = @ \cup {c}] BY <1>3 DEF View!Hands
  <2>2. /\ build' \in ViewPasses /\ build'.at = build.at /\ build'.todo = build.todo
        /\ build'.listed = build.listed /\ build'.rows = build.rows
        /\ build'.handed = build.handed \cup {c}
    BY <1>1, <2>1, HandedIs
  <2>3. build.at = "read" BY <1>1, <1>3 DEF ViewPasses
  <2>4. PassRight(build) BY <2>3 DEF ViewInv
  <2>5. Machine(build.listed)' BY <2>2, <2>4 DEF PassRight, Machine
  <2>6. \A p \in build'.todo \cup DOMAIN build'.rows : build'.listed[p].alive
    BY <2>2, <2>4 DEF PassRight
  <2>7. \A p \in Pids \ build'.handed :
          /\ proc'[p].alive = build'.listed[p].alive /\ proc'[p].born = build'.listed[p].born
          /\ proc'[p].line = build'.listed[p].line
    BY <2>2, <2>4 DEF PassRight
  <2>8. \A p \in DOMAIN build'.rows : RowRight(build, p)'
    BY <2>2, <2>4 DEF PassRight, RowRight
  <2>9. PassRight(build)' BY <2>5, <2>6, <2>7, <2>8 DEF PassRight
  <2> QED BY <2>2, <2>9
<1> QED BY <1>2, <1>3

LEMMA ForkInv ==
  ASSUME ViewInv, NEW p \in Pids, NEW c \in Pids, NEW n \in View!Names, View!Fork(p, c, n)
  PROVE  ViewInv'
<1>1. /\ proc[p].alive /\ ~proc[c].alive /\ p # c /\ forks' = forks + 1
      /\ proc' = [proc EXCEPT ![c] = View!Start(p, forks', n, proc[p].line)]
      /\ build' = View!Hands(c) /\ windows' = windows
  BY DEF View!Fork, View!Live
<1>2. /\ windows \in BOOLEAN /\ forks \in Nat /\ Machine(proc)
      /\ \A q \in Pids : proc[q].alive => proc[q].born <= forks
  BY DEF ViewInv
<1>3. /\ proc \in [Pids -> ProcSet] /\ proc[1].alive /\ proc[1].line = {1}
      /\ \A q \in Pids : proc[q].alive => proc[q].born \in proc[q].line /\ 1 \in proc[q].line
      /\ \A q, r \in Pids : proc[q].alive /\ proc[r].alive /\ q # r => proc[q].born # proc[r].born
  BY <1>2 DEF Machine
<1>4. /\ \A q, r \in Pids :
           proc[q].alive /\ proc[r].alive /\ proc[q].ppid = r /\ (windows
             => proc[r].born < proc[q].born) =>
             proc[r].line \subseteq proc[q].line
      /\ ~windows => \A q \in Pids : proc[q].alive /\ proc[q].ppid # 0 =>
                       proc[q].ppid \in Pids /\ proc[proc[q].ppid].alive
  BY <1>2 DEF Machine
<1>5. forks' \in Nat /\ p \in Nat /\ n \in ProcNames /\ proc[p].line \in SUBSET Nat
  <2>1. forks' \in Nat BY <1>1, <1>2
  <2>2. p \in Nat BY ViewConstants
  <2>3. n \in ProcNames BY DEF ProcNames
  <2>4. proc[p] \in ProcSet BY <1>3
  <2>5. proc[p].line \in SUBSET Nat BY <2>4 DEF ProcSet
  <2> QED BY <2>1, <2>2, <2>3, <2>5
<1> DEFINE x == View!Start(p, forks', n, proc[p].line)
<1>6. x \in ProcSet /\ x.alive /\ x.born = forks' /\ x.ppid = p
        /\ x.line = proc[p].line \cup {forks'}
  <2> DEFINE f == forks'
             l == proc[p].line
  <2>1. f \in Nat /\ l \in SUBSET Nat BY <1>5
  <2> HIDE DEF f, l
  <2>2. LET y == View!Start(p, f, n, l)
        IN y \in ProcSet /\ y.alive /\ y.born = f /\ y.ppid = p /\ y.line = l \cup {f}
    BY <1>5, <2>1, StartIs
  <2> QED BY <2>2 DEF f, l
<1> HIDE DEF x
<1>7. proc' \in [Pids -> ProcSet] /\ proc'[c] = x /\ \A q \in Pids \ {c} : proc'[q] = proc[q]
  BY <1>1, <1>3, <1>6 DEF x
<1>8. c # 1 /\ 1 \in Pids BY <1>1, <1>3, ViewConstants
<1>9. \A q \in Pids \ {c} : proc'[q].alive => proc'[q].born <= forks /\ proc'[q].born \in Nat
  BY <1>2, <1>3, <1>7 DEF ProcSet
<1>10. Machine(proc')
  <2>1. proc'[1].alive /\ proc'[1].line = {1} BY <1>3, <1>7, <1>8
  <2>2. \A q \in Pids : proc'[q].alive => proc'[q].born \in proc'[q].line /\ 1 \in proc'[q].line
    BY <1>1, <1>3, <1>6, <1>7
  <2>3. \A q, r \in Pids : proc'[q].alive /\ proc'[r].alive /\ q # r
          => proc'[q].born # proc'[r].born
    <3>1. \A q \in Pids \ {c} : proc'[q].alive => proc'[q].born # forks'
      BY <1>1, <1>2, <1>9
    <3> QED BY <1>3, <1>6, <1>7, <3>1
  <2>4. ASSUME NEW q \in Pids, NEW r \in Pids, proc'[q].alive, proc'[r].alive, proc'[q].ppid = r,
               windows => proc'[r].born < proc'[q].born
        PROVE  proc'[r].line \subseteq proc'[q].line
    <3>1. CASE q = c
      <4>1. r = p BY <1>6, <1>7, <2>4, <3>1
      <4> QED BY <1>1, <1>6, <1>7, <3>1, <4>1
    <3>2. CASE q # c /\ r = c
      <4>1. CASE windows BY <1>1, <1>2, <1>6, <1>7, <1>9, <2>4, <3>2, <4>1
      <4>2. CASE ~windows
        <5>1. proc[q].alive /\ proc[q].ppid = c BY <1>7, <2>4, <3>2
        <5>2. c # 0 BY ViewConstants
        <5> QED BY <1>1, <1>4, <4>2, <5>1, <5>2
      <4> QED BY <4>1, <4>2
    <3>3. CASE q # c /\ r # c BY <1>4, <1>7, <2>4, <3>3
    <3> QED BY <3>1, <3>2, <3>3
  <2>5. ASSUME ~windows, NEW q \in Pids, proc'[q].alive, proc'[q].ppid # 0
        PROVE  proc'[q].ppid \in Pids /\ proc'[proc'[q].ppid].alive
    <3>1. CASE q = c BY <1>1, <1>6, <1>7, <3>1
    <3>2. CASE q # c
      <4>1. proc'[q] = proc[q] /\ proc[q].ppid \in Pids /\ proc[proc[q].ppid].alive
        BY <1>4, <1>7, <2>5, <3>2
      <4> QED BY <1>1, <1>7, <4>1
    <3> QED BY <3>1, <3>2
  <2> QED BY <1>7, <2>1, <2>2, <2>3, <2>4, <2>5 DEF Machine
<1>11. Machine(proc)' BY <1>1, <1>10 DEF Machine
<1>12. \A q \in Pids : proc'[q].alive => proc'[q].born <= forks'
  BY <1>1, <1>2, <1>5, <1>6, <1>7, <1>9
<1>13. build' \in ViewPasses /\ (build'.at = "read" => PassRight(build)')
  BY <1>1, <1>7, HandsInv
<1> QED BY <1>1, <1>2, <1>5, <1>11, <1>12, <1>13 DEF ViewInv

LEMMA Orphaned ==
  ASSUME NEW x \in ProcSet
  PROVE  LET o == [x EXCEPT !.ppid = 1]
         IN o \in ProcSet /\ o.alive = x.alive /\ o.born = x.born /\ o.line = x.line /\ o.ppid = 1
BY DEF ProcSet

LEMMA ExitInv == ASSUME ViewInv, NEW c \in Pids, View!Exit(c) PROVE ViewInv'
<1>1. /\ proc[c].alive /\ c # 1 /\ forks' = forks
      /\ proc' = [p \in Pids |->
           IF p = c THEN View!Gone
           ELSE IF ~windows /\ proc[p].ppid = c THEN [proc[p] EXCEPT !.ppid = 1] ELSE proc[p]]
      /\ build' = View!Hands(c) /\ windows' = windows
  BY DEF View!Exit, View!Live
<1>2. /\ windows \in BOOLEAN /\ forks \in Nat /\ Machine(proc)
      /\ \A q \in Pids : proc[q].alive => proc[q].born <= forks
  BY DEF ViewInv
<1>3. /\ proc \in [Pids -> ProcSet] /\ proc[1].alive /\ proc[1].line = {1}
      /\ \A q \in Pids : proc[q].alive => proc[q].born \in proc[q].line /\ 1 \in proc[q].line
      /\ \A q, r \in Pids : proc[q].alive /\ proc[r].alive /\ q # r => proc[q].born # proc[r].born
  BY <1>2 DEF Machine
<1>4. /\ \A q, r \in Pids :
           proc[q].alive /\ proc[r].alive /\ proc[q].ppid = r /\ (windows
             => proc[r].born < proc[q].born) =>
             proc[r].line \subseteq proc[q].line
      /\ ~windows => \A q \in Pids : proc[q].alive /\ proc[q].ppid # 0 =>
                       proc[q].ppid \in Pids /\ proc[proc[q].ppid].alive
  BY <1>2 DEF Machine
<1>5. 1 \in Pids BY ViewConstants
<1>6. proc'[c] = View!Gone /\ ~proc'[c].alive BY <1>1, GoneIs
<1>7. ASSUME NEW q \in Pids \ {c}
      PROVE  /\ proc'[q] \in ProcSet /\ proc'[q].alive = proc[q].alive
             /\ proc'[q].born = proc[q].born /\ proc'[q].line = proc[q].line
             /\ proc'[q].ppid = IF ~windows /\ proc[q].ppid = c THEN 1 ELSE proc[q].ppid
  <2>1. proc[q] \in ProcSet BY <1>3
  <2>2. CASE ~windows /\ proc[q].ppid = c
    <3>1. proc'[q] = [proc[q] EXCEPT !.ppid = 1] BY <1>1, <2>2
    <3> QED BY <2>1, <2>2, <3>1, Orphaned
  <2>3. CASE ~(~windows /\ proc[q].ppid = c)
    <3>1. proc'[q] = proc[q] BY <1>1, <2>3
    <3> QED BY <2>1, <2>3, <3>1
  <2> QED BY <2>2, <2>3
<1>8. proc' \in [Pids -> ProcSet]
  <2>1. \A q \in Pids : proc'[q] \in ProcSet BY <1>6, <1>7, GoneIs
  <2>2. proc' = [q \in Pids |-> proc'[q]] BY <1>1
  <2> QED BY <2>1, <2>2
<1>9. Machine(proc')
  <2>1. proc'[1].alive /\ proc'[1].line = {1} BY <1>1, <1>3, <1>5, <1>7
  <2>2. \A q \in Pids : proc'[q].alive => proc'[q].born \in proc'[q].line /\ 1 \in proc'[q].line
    BY <1>3, <1>6, <1>7
  <2>3. \A q, r \in Pids : proc'[q].alive /\ proc'[r].alive /\ q # r
          => proc'[q].born # proc'[r].born
    BY <1>3, <1>6, <1>7
  <2>4. ASSUME NEW q \in Pids, NEW r \in Pids, proc'[q].alive, proc'[r].alive, proc'[q].ppid = r,
               windows => proc'[r].born < proc'[q].born
        PROVE  proc'[r].line \subseteq proc'[q].line
    <3>1. q # c /\ r # c BY <1>6, <2>4
    <3>2. CASE ~windows /\ proc[q].ppid = c
      <4>1. r = 1 BY <1>7, <2>4, <3>1, <3>2
      <4> QED BY <1>3, <1>7, <2>4, <3>1, <4>1
    <3>3. CASE ~(~windows /\ proc[q].ppid = c) BY <1>4, <1>7, <2>4, <3>1, <3>3
    <3> QED BY <3>2, <3>3
  <2>5. ASSUME ~windows, NEW q \in Pids, proc'[q].alive, proc'[q].ppid # 0
        PROVE  proc'[q].ppid \in Pids /\ proc'[proc'[q].ppid].alive
    <3>1. q # c BY <1>6, <2>5
    <3>2. CASE proc[q].ppid = c
      <4>1. proc'[q].ppid = 1 BY <1>7, <2>5, <3>1, <3>2
      <4> QED BY <1>5, <2>1, <4>1
    <3>3. CASE proc[q].ppid # c
      <4>1. proc'[q].ppid = proc[q].ppid /\ proc[q].alive BY <1>7, <2>5, <3>1, <3>3
      <4>2. proc[q].ppid \in Pids /\ proc[proc[q].ppid].alive BY <1>4, <2>5, <4>1
      <4> QED BY <1>7, <3>3, <4>1, <4>2
    <3> QED BY <3>2, <3>3
  <2> QED BY <1>8, <2>1, <2>2, <2>3, <2>4, <2>5 DEF Machine
<1>10. Machine(proc)' BY <1>1, <1>9 DEF Machine
<1>11. \A q \in Pids : proc'[q].alive => proc'[q].born <= forks'
  BY <1>1, <1>2, <1>6, <1>7
<1>12. build' \in ViewPasses /\ (build'.at = "read" => PassRight(build)')
  BY <1>1, <1>7, HandsInv
<1> QED BY <1>1, <1>2, <1>10, <1>11, <1>12 DEF ViewInv

\* What a process is listed as, and what is read of it.
LEMMA ListedInv == ASSUME ViewInv, View!List PROVE ViewInv'
<1>1. /\ build' = [View!Idle EXCEPT !.at = "read", !.todo = View!Live, !.listed = proc]
      /\ windows' = windows /\ proc' = proc /\ forks' = forks
  BY DEF View!List
<1>2. /\ build'.at = "read" /\ build'.todo = View!Live /\ build'.listed = proc
      /\ build'.rows = <<>> /\ build'.handed = {}
  BY <1>1 DEF View!Idle
<1>3. Machine(proc) /\ windows \in BOOLEAN BY DEF ViewInv
<1>4. proc \in [Pids -> ProcSet] BY <1>3 DEF Machine
<1>5. View!Live \in SUBSET Pids /\ \A p \in View!Live : proc[p].alive BY DEF View!Live
<1>6. build' \in ViewPasses
  <2>1. build' = [at |-> "read", todo |-> View!Live, listed |-> proc, rows |-> <<>>,
          handed |-> {}]
    BY <1>1 DEF View!Idle
  <2> QED BY <1>4, <1>5, <2>1 DEF ViewPasses
<1>7. Machine(build.listed)' BY <1>1, <1>2, <1>3 DEF Machine
<1>8. PassRight(build)' BY <1>1, <1>2, <1>5, <1>7, NoRows DEF PassRight
<1>9. Machine(proc)' BY <1>1, <1>3 DEF Machine
<1> QED BY <1>1, <1>3, <1>6, <1>8, <1>9 DEF ViewInv

LEMMA RowIs ==
  ASSUME NEW p \in Nat, NEW x \in ProcSet, NEW created \in Nat
  PROVE  LET r == View!Row(p, x, created)
         IN /\ r \in RowSet /\ r.ppid = x.ppid /\ r.born = x.born /\ r.line = x.line
            /\ r.created = created /\ r.name = x.name
BY DEF View!Row, RowSet, ProcSet

LEMMA AddedIs ==
  ASSUME NEW rs \in {<<>>} \cup RowsOf, NEW p \in Pids, NEW row \in RowSet, build.rows = rs
  PROVE  /\ View!Added(p, row) \in RowsOf /\ DOMAIN View!Added(p, row) = DOMAIN rs \cup {p}
         /\ View!Added(p, row)[p] = row
         /\ \A q \in DOMAIN rs \ {p} : View!Added(p, row)[q] = rs[q]
<1>1. DOMAIN rs \subseteq Pids /\ \A q \in DOMAIN rs : rs[q] \in RowSet
  BY NoRows DEF RowsOf
<1> DEFINE E == DOMAIN rs \cup {p}
           f == [q \in E |-> IF q = p THEN row ELSE rs[q]]
<1>2. View!Added(p, row) = f BY DEF View!Added
<1>3. E \in SUBSET Pids BY <1>1
<1>4. \A q \in E : f[q] \in RowSet BY <1>1
<1>5. DOMAIN f = E /\ f[p] = row /\ \A q \in DOMAIN rs \ {p} : f[q] = rs[q] OBVIOUS
<1>6. f \in [E -> RowSet] BY <1>4
<1> HIDE DEF f, E
<1>7. f \in RowsOf BY <1>3, <1>6 DEF RowsOf
<1> QED BY <1>2, <1>5, <1>7 DEF E

LEMMA LowestTodo ==
  ASSUME NEW T \in SUBSET Nat, T # {}
  PROVE  View!Min(T) \in T
<1>1. PICK n \in T : \A m \in T : <<m, n>> \notin OpToRel(<, Nat)
  BY NatLessThanWellFounded, WFMin
<1>2. \A m \in T : n <= m
  <2> SUFFICES ASSUME NEW m \in T, ~(n <= m) PROVE FALSE OBVIOUS
  <2>1. m < n /\ m \in Nat /\ n \in Nat OBVIOUS
  <2> QED BY <1>1, <2>1 DEF OpToRel
<1>3. \E x \in T : \A y \in T : x <= y BY <1>2
<1> QED BY <1>3 DEF View!Min

LEMMA ReadInv == ASSUME ViewInv, NEW protected \in BOOLEAN, View!Read(protected) PROVE ViewInv'
<1> DEFINE p == View!Min(build.todo)
           created == IF protected \/ ~proc[p].alive THEN 0 ELSE proc[p].born
           x == IF windows THEN build.listed[p] ELSE proc[p]
           row == View!Row(p, x, created)
           t == build.todo \ {p}
           rs == IF windows \/ proc[p].alive THEN View!Added(p, row) ELSE build.rows
<1>1. /\ build.at = "read" /\ build.todo # {} /\ (protected => windows)
      /\ build' = [build EXCEPT !.todo = t, !.rows = rs]
      /\ windows' = windows /\ proc' = proc /\ forks' = forks
  <2>1. /\ build.at = "read" /\ build.todo # {} /\ (protected => windows)
        /\ windows' = windows /\ proc' = proc /\ forks' = forks
    BY DEF View!Read
  <2>2. build' = [build EXCEPT !.todo = t, !.rows =
          IF windows THEN View!Added(p, View!Row(p, build.listed[p], created))
          ELSE IF proc[p].alive THEN View!Added(p, View!Row(p, proc[p],
            proc[p].born)) ELSE build.rows]
    BY Zenon DEF View!Read, View!Nothing
  <2>3. rs = IF windows THEN View!Added(p, View!Row(p, build.listed[p], created))
             ELSE IF proc[p].alive THEN View!Added(p, View!Row(p, proc[p],
               proc[p].born)) ELSE build.rows
    <3>1. CASE windows BY <3>1
    <3>2. CASE ~windows /\ proc[p].alive BY <2>1, <3>2
    <3>3. CASE ~windows /\ ~proc[p].alive BY <3>3
    <3> QED BY <3>1, <3>2, <3>3
  <2> QED BY <2>1, <2>2, <2>3
<1>2. /\ windows \in BOOLEAN /\ Machine(proc) /\ build \in ViewPasses /\ PassRight(build)
      /\ \A q \in Pids : proc[q].alive => proc[q].born <= forks
  BY <1>1 DEF ViewInv
<1>3. /\ Machine(build.listed)
           /\ \A q \in build.todo \cup DOMAIN build.rows : build.listed[q].alive
      /\ \A q \in Pids \ build.handed :
           /\ proc[q].alive = build.listed[q].alive /\ proc[q].born = build.listed[q].born
           /\ proc[q].line = build.listed[q].line
      /\ \A q \in DOMAIN build.rows : RowRight(build, q)
  BY <1>2 DEF PassRight
<1>4. build.todo \in SUBSET Pids /\ build.rows \in {<<>>} \cup RowsOf BY <1>2 DEF ViewPasses
<1>5. p \in build.todo /\ p \in Pids /\ p \in Nat
  <2>1. build.todo \in SUBSET Nat BY <1>4, ViewConstants
  <2> QED BY <1>1, <1>4, <2>1, LowestTodo
<1>6. build.listed \in [Pids -> ProcSet] /\ proc \in [Pids -> ProcSet] BY <1>2, <1>3 DEF Machine
<1> HIDE DEF p
<1>7. build.listed[p] \in ProcSet /\ proc[p] \in ProcSet BY <1>5, <1>6
<1>8. x \in ProcSet /\ created \in Nat
  <2>1. proc[p].born \in Nat BY <1>7 DEF ProcSet
  <2> QED BY <1>7, <2>1
<1> HIDE DEF x, created
<1>9. /\ row \in RowSet /\ row.ppid = x.ppid /\ row.born = x.born /\ row.line = x.line
      /\ row.created = created
  BY <1>5, <1>8, RowIs
<1> HIDE DEF row
<1>10. /\ View!Added(p, row) \in RowsOf /\ DOMAIN View!Added(p, row) = DOMAIN build.rows \cup {p}
       /\ View!Added(p, row)[p] = row
       /\ \A q \in DOMAIN build.rows \ {p} : View!Added(p, row)[q] = build.rows[q]
  BY <1>4, <1>5, <1>9, AddedIs
<1>11. t \in SUBSET Pids /\ rs \in {<<>>} \cup RowsOf BY <1>4, <1>10
<1>12. /\ DOMAIN rs \subseteq DOMAIN build.rows \cup {p}
       /\ (p \in DOMAIN rs => rs[p] = row \/ (p \in DOMAIN build.rows /\ rs[p] = build.rows[p]))
       /\ (rs # build.rows => windows \/ proc[p].alive)
       /\ (rs # build.rows => rs[p] = row)
       /\ \A q \in DOMAIN rs \ {p} : q \in DOMAIN build.rows /\ rs[q] = build.rows[q]
  BY <1>10
<1> HIDE DEF rs, t
<1>13. /\ build' \in ViewPasses /\ build'.at = build.at /\ build'.todo = t
       /\ build'.listed = build.listed /\ build'.rows = rs /\ build'.handed = build.handed
  <2>1. LET z == [build EXCEPT !.todo = t, !.rows = rs]
        IN /\ z \in ViewPasses /\ z.at = build.at /\ z.todo = t /\ z.listed = build.listed
           /\ z.rows = rs /\ z.handed = build.handed
    <3>1. build \in ViewPasses BY <1>2
    <3> QED BY <3>1, <1>11 DEF ViewPasses
  <2> QED BY <1>1, <2>1, Zenon
<1>14. Machine(build.listed)' BY <1>1, <1>3, <1>13 DEF Machine
<1>15. \A q \in build'.todo \cup DOMAIN build'.rows : build'.listed[q].alive
  BY <1>3, <1>5, <1>12, <1>13 DEF t
<1>16. ASSUME rs # build.rows
       PROVE  /\ p \notin build.handed =>
                   /\ row.born = build.listed[p].born /\ row.line = build.listed[p].line
                   /\ row.created \in {0, row.born}
              /\ windows => row.ppid = build.listed[p].ppid
              /\ ~windows /\ p \notin build.handed /\ row.ppid \in Pids \ build.handed =>
                   build.listed[row.ppid].line \subseteq build.listed[p].line
  <2>1. CASE windows
    <3>1. x = build.listed[p] BY <2>1 DEF x
    <3>2. p \notin build.handed => created \in {0, build.listed[p].born} BY <1>3, <1>5 DEF created
    <3> QED BY <1>9, <2>1, <3>1, <3>2
  <2>2. CASE ~windows
    <3>1. x = proc[p] /\ proc[p].alive /\ created = proc[p].born
      BY <1>1, <1>12, <1>16, <2>2 DEF x, created
    <3>2. \A q \in Pids : proc[q].alive /\ proc[p].ppid = q => proc[q].line \subseteq proc[p].line
      BY <1>2, <1>5, <2>2, <3>1 DEF Machine
    <3>3. row.ppid \in Pids => proc[row.ppid].alive
      <4>1. row.ppid \in Pids => row.ppid # 0 BY ViewConstants
      <4> QED BY <1>2, <1>5, <1>9, <2>2, <3>1, <4>1 DEF Machine
    <3>4. p \notin build.handed =>
            proc[p].born = build.listed[p].born /\ proc[p].line = build.listed[p].line
      BY <1>3, <1>5
    <3>5. row.ppid \in Pids \ build.handed => proc[row.ppid].line = build.listed[row.ppid].line
      BY <1>3
    <3>6. row.ppid = proc[p].ppid /\ row.born = proc[p].born /\ row.line = proc[p].line
          /\ row.created = proc[p].born
      BY <1>9, <3>1
    <3> QED BY <2>2, <3>2, <3>3, <3>4, <3>5, <3>6
  <2> QED BY <2>1, <2>2
<1>17. \A q \in DOMAIN build'.rows : RowRight(build, q)'
  <2> SUFFICES ASSUME NEW q \in DOMAIN rs PROVE RowRight(build, q)' BY <1>13
  <2>1. CASE q \in DOMAIN build.rows /\ rs[q] = build.rows[q]
    <3>1. RowRight(build, q) BY <1>3, <2>1
    <3> QED BY <1>1, <1>13, <2>1, <3>1 DEF RowRight
  <2>2. CASE q = p /\ rs # build.rows
    <3>1. rs[q] = row BY <1>12, <2>2
    <3> QED BY <1>1, <1>13, <1>16, <2>2, <3>1 DEF RowRight
  <2> QED BY <1>12, <2>1, <2>2
<1>18. PassRight(build)' BY <1>1, <1>3, <1>13, <1>14, <1>15, <1>17 DEF PassRight
<1>19. Machine(proc)' BY <1>1, <1>2 DEF Machine
<1> QED BY <1>1, <1>13, <1>18, <1>19 DEF ViewInv

LEMMA BuildInv == ASSUME ViewInv, View!BuildProcessSet PROVE ViewInv'
<1>1. build' = View!Idle /\ windows' = windows /\ proc' = proc /\ forks' = forks
  BY DEF View!BuildProcessSet
<1>2. Machine(proc)' BY <1>1 DEF ViewInv, Machine
<1>3. build'.at # "read" BY <1>1, IdleIs
<1> QED BY <1>1, <1>2, <1>3, IdleIs DEF ViewInv

-----------------------------------------------------------------------------
\* The page made of the rows of a pass.
LEMMA ParentsAre ==
  ASSUME ViewInv, build.at = "read"
  PROVE  LET rs == build.rows
             up == View!Parents(rs)
         IN /\ DOMAIN rs \subseteq Pids
            /\ up \in [DOMAIN rs -> DOMAIN rs \cup {0}]
            /\ \A p \in DOMAIN rs :
                 /\ up[p] # p
                 /\ up[p] # 0 => up[p] = rs[p].ppid
                 /\ up[p] # 0 /\ windows /\ rs[up[p]].created # 0 /\ rs[p].created # 0 =>
                      ~(rs[up[p]].created > rs[p].created)
<1> DEFINE rs == build.rows
<1>1. DOMAIN rs \subseteq Pids
  <2>1. rs \in {<<>>} \cup RowsOf BY DEF ViewInv, ViewPasses
  <2> QED BY <2>1, NoRows DEF RowsOf
<1>2. ASSUME NEW p \in DOMAIN rs
      PROVE  LET q == View!Parent(rs, p)
             IN /\ q \in DOMAIN rs \cup {0} /\ q # p
                /\ q # 0 => q = rs[p].ppid
                /\ q # 0 /\ windows /\ rs[q].created # 0 /\ rs[p].created # 0 =>
                      ~(rs[q].created > rs[p].created)
  <2> HIDE DEF rs
  <2>1. p # 0 BY <1>1, ViewConstants
  <2> QED BY <2>1 DEF View!Parent, View!WindowsLiveParent, View!Nothing
<1> HIDE DEF rs
<1>3. View!Parents(rs) = [p \in DOMAIN rs |-> View!Parent(rs, p)] BY DEF View!Parents
<1>4. View!Parents(rs) \in [DOMAIN rs -> DOMAIN rs \cup {0}] BY <1>2, <1>3
<1>5. \A p \in DOMAIN rs : View!Parents(rs)[p] = View!Parent(rs, p) BY <1>3
<1>6. \A p \in DOMAIN rs :
        /\ View!Parents(rs)[p] # p
        /\ View!Parents(rs)[p] # 0 => View!Parents(rs)[p] = rs[p].ppid
        /\ View!Parents(rs)[p] # 0 /\ windows /\ rs[View!Parents(rs)[p]].created # 0
             /\ rs[p].created # 0 =>
                      ~(rs[View!Parents(rs)[p]].created > rs[p].created)
  BY <1>2, <1>5
<1> QED BY <1>1, <1>4, <1>6 DEF rs

\* A row to be relied on: its age was read, and its id is still that of the process
\* listed.
Sure(b, p) == p \notin b.handed /\ b.rows[p].created # 0

LEMMA SureEdge ==
  ASSUME ViewInv, build.at = "read", NEW p \in DOMAIN build.rows,
         View!Parents(build.rows)[p] # 0, Sure(build, p), Sure(build, View!Parents(build.rows)[p])
  PROVE  build.rows[View!Parents(build.rows)[p]].line \subseteq build.rows[p].line
<1> DEFINE rs == build.rows
           ls == build.listed
           q == View!Parents(rs)[p]
<1>1. /\ DOMAIN rs \subseteq Pids /\ q \in DOMAIN rs /\ q # p /\ q = rs[p].ppid
      /\ windows /\ rs[q].created # 0 /\ rs[p].created # 0 => ~(rs[q].created > rs[p].created)
  BY ParentsAre
<1>2. PassRight(build) BY DEF ViewInv
<1>3. /\ Machine(ls) /\ ls[p].alive /\ ls[q].alive /\ RowRight(build, p) /\ RowRight(build, q)
  BY <1>1, <1>2 DEF PassRight
<1> HIDE DEF q
<1>4. p \in Pids /\ q \in Pids /\ p \notin build.handed /\ q \notin build.handed
      /\ rs[p].created # 0 /\ rs[q].created # 0
  BY <1>1 DEF Sure, q
<1> HIDE DEF rs, ls
<1>5. /\ rs[p].born = ls[p].born /\ rs[p].line = ls[p].line /\ rs[p].created = rs[p].born
      /\ rs[q].born = ls[q].born /\ rs[q].line = ls[q].line /\ rs[q].created = rs[q].born
  BY <1>3, <1>4 DEF RowRight, rs, ls
<1>6. windows \in BOOLEAN BY DEF ViewInv
<1>7. windows => ls[q].line \subseteq ls[p].line
  <2> SUFFICES ASSUME windows PROVE ls[q].line \subseteq ls[p].line OBVIOUS
  <2>1. ls[p].ppid = q BY <1>1, <1>3, SMTT(20) DEF RowRight, rs, ls
  <2>2. ls[q].born < ls[p].born
    <3>1. ls[p].born \in Nat /\ ls[q].born \in Nat BY <1>3, <1>4 DEF Machine, ProcSet
    <3>2. ls[p].born # ls[q].born BY <1>1, <1>3, <1>4 DEF Machine
    <3>3. ~(ls[q].born > ls[p].born) BY <1>1, <1>4, <1>5
    <3> QED BY <3>1, <3>2, <3>3
  <2> QED BY <1>3, <1>4, <2>1, <2>2 DEF Machine
<1>8. ~windows => ls[q].line \subseteq ls[p].line
  <2> SUFFICES ASSUME ~windows PROVE ls[q].line \subseteq ls[p].line OBVIOUS
  <2> QED BY <1>1, <1>3, <1>4, Zenon DEF RowRight, rs, ls
<1>9. rs[q].line \subseteq rs[p].line
  <2>1. rs[p].line = ls[p].line /\ rs[q].line = ls[q].line BY <1>5
  <2> QED BY <1>6, <1>7, <1>8, <2>1
<1> QED BY <1>9 DEF q, rs

LEMMA SureBorn ==
  ASSUME ViewInv, build.at = "read", NEW r \in DOMAIN build.rows, Sure(build, r)
  PROVE  build.rows[r].born \in build.rows[r].line
<1>1. r \in Pids BY ParentsAre
<1>2. Machine(build.listed) /\ build.listed[r].alive /\ RowRight(build, r)
  BY DEF ViewInv, PassRight
<1>3. build.listed[r].born \in build.listed[r].line BY <1>1, <1>2 DEF Machine
<1> QED BY <1>1, <1>2, <1>3 DEF RowRight, Sure

\* Up a chain of rows to be relied on there are only births of the line.
LEMMA SureChain ==
  ASSUME ViewInv, build.at = "read", NEW p \in DOMAIN build.rows, NEW s,
         IsWalk(DOMAIN build.rows, View!Parents(build.rows), p, s),
         \A i \in DOMAIN s : Sure(build, s[i])
  PROVE  \A i \in DOMAIN s : build.rows[s[i]].born \in build.rows[p].line
<1> DEFINE rs == build.rows
           D == DOMAIN rs
           up == View!Parents(rs)
           L == Len(s)
           P == {i \in 1 .. L : rs[s[i]].line \subseteq rs[p].line}
<1>1. /\ s \in Seq(D) /\ s # <<>> /\ s[1] = p /\ \A i \in 1 .. L - 1 : s[i + 1] = up[s[i]]
  BY DEF IsWalk
<1>2. L \in Nat /\ L >= 1 /\ DOMAIN s = 1 .. L BY <1>1
<1>3. D \subseteq Pids /\ 0 \notin D BY ParentsAre, ViewConstants
<1>4. \A i \in 1 .. L : s[i] \in D BY <1>1, <1>2
<1>5. 1 \in P BY <1>1, <1>2
<1>6. ASSUME NEW i \in 1 .. L, i # L, i \in P PROVE i + 1 \in P
  <2>1. i \in 1 .. L - 1 /\ i + 1 \in 1 .. L BY <1>2, <1>6
  <2>2. s[i + 1] = up[s[i]] /\ s[i] \in D /\ s[i + 1] \in D BY <1>1, <1>4, <2>1
  <2>3. up[s[i]] # 0 /\ Sure(build, s[i]) /\ Sure(build, up[s[i]])
    BY <1>2, <1>3, <2>1, <2>2
  <2>4. rs[up[s[i]]].line \subseteq rs[s[i]].line BY <2>2, <2>3, SureEdge
  <2>5. rs[s[i]].line \subseteq rs[p].line BY <1>6
  <2>6. rs[s[i + 1]].line \subseteq rs[p].line BY <2>2, <2>4, <2>5
  <2> QED BY <2>1, <2>6
<1>7. 1 .. L \subseteq P
  <2> HIDE DEF P, L
  <2> QED BY <1>2, <1>5, <1>6, UpTo
<1>8. ASSUME NEW i \in 1 .. L PROVE rs[s[i]].born \in rs[p].line
  <2> DEFINE r == s[i]
  <2>1. r \in D /\ r \in Pids /\ Sure(build, r) BY <1>2, <1>3, <1>4
  <2> HIDE DEF r
  <2>4. rs[r].born \in rs[r].line BY <2>1, SureBorn
  <2>5. rs[r].line \subseteq rs[p].line BY <1>7 DEF r
  <2> QED BY <2>4, <2>5 DEF r
<1> QED BY <1>2, <1>8

\* The last of some places of a sequence.
LEMMA LastPlace ==
  ASSUME NEW n \in Nat, NEW T \in SUBSET (1 .. n), T # {}
  PROVE  View!Max(T) \in T /\ \A i \in T : i <= View!Max(T)
<1> DEFINE U == {n - i : i \in T}
<1>1. U \in SUBSET Nat /\ U # {}
  <2>1. \A i \in T : n - i \in Nat OBVIOUS
  <2>2. \E i \in T : n - i \in U OBVIOUS
  <2> QED BY <2>1, <2>2
<1>2. PICK u \in U : \A m \in U : <<m, u>> \notin OpToRel(<, Nat)
  <2> HIDE DEF U
  <2> QED BY <1>1, NatLessThanWellFounded, WFMin
<1>3. PICK t \in T : u = n - t BY <1>2
<1>4. \A i \in T : i <= t
  <2> SUFFICES ASSUME NEW i \in T, ~(i <= t) PROVE FALSE OBVIOUS
  <2>1. n - i \in Nat /\ n - t \in Nat /\ n - i < n - t /\ n - i \in U OBVIOUS
  <2>2. <<n - i, u>> \in OpToRel(<, Nat) BY <1>3, <2>1 DEF OpToRel
  <2> QED BY <1>2, <2>1, <2>2
<1>5. \E x \in T : \A y \in T : x >= y BY <1>3, <1>4
<1>6. View!Max(T) \in T /\ \A y \in T : View!Max(T) >= y
  BY <1>5 DEF View!Max
<1> QED BY <1>6

\* The launcher of a row is on its chain, and a boundary only when all of the chain
\* are and it is the row itself.
LEMMA LauncherIs ==
  ASSUME NEW D, 0 \notin D, NEW rs, DOMAIN rs = D, NEW up \in [D -> D \cup {0}], NEW p \in D
  PROVE  LET s == View!Chain(up, p)
             l == View!LauncherIndex(rs, up, p)
         IN /\ \E i \in DOMAIN s : l = s[i]
            /\ View!IsLauncherBoundary(rs[l].name) =>
                 \A i \in DOMAIN s : View!IsLauncherBoundary(rs[s[i]].name)
<1> DEFINE s == View!Chain(up, p)
           own == {i \in DOMAIN s : ~View!IsLauncherBoundary(rs[s[i]].name)}
           l == View!LauncherIndex(rs, up, p)
<1>1. s \in Seq(D) /\ s # <<>> /\ s[1] = p BY ChainIs DEF IsWalk
<1>2. l = IF own = {} THEN p ELSE s[View!Max(own)] BY DEF View!LauncherIndex
<1> HIDE DEF s, l
<1>3. DOMAIN s = 1 .. Len(s) /\ Len(s) \in Nat /\ 1 \in DOMAIN s BY <1>1
<1>4. CASE own = {}
  <2>1. l = s[1] BY <1>1, <1>2, <1>4
  <2>2. \A i \in DOMAIN s : View!IsLauncherBoundary(rs[s[i]].name) BY <1>4
  <2> QED BY <1>3, <2>1, <2>2 DEF s, l
<1>5. CASE own # {}
  <2>1. own \in SUBSET (1 .. Len(s)) BY <1>3
  <2>2. View!Max(own) \in own
    <3> HIDE DEF own
    <3> QED BY <1>3, <1>5, <2>1, LastPlace
  <2>3. l = s[View!Max(own)] BY <1>2, <1>5
  <2>4. View!Max(own) \in DOMAIN s /\ ~View!IsLauncherBoundary(rs[l].name) BY <2>2, <2>3
  <2> QED BY <2>3, <2>4 DEF s, l
<1> QED BY <1>4, <1>5

LEMMA ViewCardinality == \A S : View!Cardinality(S) = Cardinality(S)
BY Zenon DEF View!Cardinality, Cardinality

LEMMA TreeIs ==
  ASSUME NEW rs
  PROVE  LET tree == View!AnnotateProcessTree(rs)
             up == View!Parents(rs)
         IN /\ DOMAIN tree = DOMAIN rs /\ up = [q \in DOMAIN tree |-> tree[q].parent]
            /\ \A p \in DOMAIN rs :
                 /\ tree[p].row = rs[p] /\ tree[p].parent = up[p]
                 /\ tree[p].launcher = View!LauncherIndex(rs, up, p)
<1> DEFINE up == View!Parents(rs)
           n(p) == View!Cardinality({q \in DOMAIN rs : up[q] = p})
           tree == [p \in DOMAIN rs |-> [row |-> rs[p], parent |-> up[p], children |-> n(p),
                                         launcher |-> View!LauncherIndex(rs, up, p)]]
<1>1. View!AnnotateProcessTree(rs) = tree BY DEF View!AnnotateProcessTree
<1>2. DOMAIN up = DOMAIN rs /\ up = [q \in DOMAIN rs |-> up[q]] BY DEF View!Parents
<1> HIDE DEF up, n
<1>3. DOMAIN tree = DOMAIN rs OBVIOUS
<1>4. \A p \in DOMAIN rs :
        /\ tree[p].row = rs[p] /\ tree[p].parent = up[p]
        /\ tree[p].launcher = View!LauncherIndex(rs, up, p)
  OBVIOUS
<1> HIDE DEF tree
<1>5. up = [q \in DOMAIN tree |-> tree[q].parent] BY <1>2, <1>3, <1>4
<1> QED BY <1>1, <1>3, <1>4, <1>5 DEF up

\* What goes down from the agent holds all that is the agent's.
LEMMA AgentsIs ==
  ASSUME NEW tree, NEW p \in View!AgentSubtree(tree)
  PROVE  /\ 2 \in DOMAIN tree
         /\ \A S \in SUBSET DOMAIN tree :
              2 \in S /\ (\A q \in DOMAIN tree : tree[q].parent \in S => q \in S) => p \in S
BY DEF View!AgentSubtree, View!Agent

LEMMA AncestryIs ==
  ASSUME NEW tree, NEW p \in DOMAIN tree
  PROVE  /\ p \in View!Ancestry(tree, p)
         /\ tree[p].parent # 0 => View!Ancestry(tree,
              tree[p].parent) \subseteq View!Ancestry(tree, p)
<1>1. p \in View!Ancestry(tree, p) BY DEF View!Ancestry
<1>2. ASSUME tree[p].parent # 0, NEW a \in View!Ancestry(tree, tree[p].parent)
      PROVE  a \in View!Ancestry(tree, p)
  <2> SUFFICES ASSUME NEW S \in SUBSET DOMAIN tree, p \in S,
                      \A q \in S : tree[q].parent # 0 => tree[q].parent \in S
               PROVE  a \in DOMAIN tree /\ a \in S
    BY <1>2 DEF View!Ancestry, View!Nothing
  <2>1. tree[p].parent \in S BY <1>2
  <2> QED BY <1>2, <2>1 DEF View!Ancestry, View!Nothing
<1> QED BY <1>1, <1>2

\* A row whose whole ancestry is to be relied on, if it is the agent's, descends from
\* the agent: by induction down from the agent, on the set of rows this holds for.
LEMMA AgentsDescend ==
  ASSUME ViewInv, build.at = "read", NEW tree, NEW D, D = DOMAIN build.rows, DOMAIN tree = D,
         \A q \in D : /\ tree[q].row = build.rows[q]
                      /\ tree[q].parent = View!Parents(build.rows)[q],
         NEW p \in View!AgentSubtree(tree),
         \A q \in View!Ancestry(tree, p) : Sure(build, q)
  PROVE  tree[2].row.born \in tree[p].row.line
<1> DEFINE sure(x) == \A q \in View!Ancestry(tree, x) : Sure(build, q)
           S == {x \in D : sure(x) => tree[2].row.born \in tree[x].row.line}
<1>1. 2 \in D /\ 0 \notin D BY AgentsIs, ParentsAre, ViewConstants
<1>2. 2 \in S
  <2> SUFFICES ASSUME sure(2) PROVE tree[2].row.born \in tree[2].row.line
    BY <1>1
  <2>1. Sure(build, 2) BY <1>1, AncestryIs
  <2>2. build.rows[2].born \in build.rows[2].line BY <1>1, <2>1, SureBorn
  <2> QED BY <1>1, <2>2
<1>3. ASSUME NEW x \in D, tree[x].parent \in S PROVE x \in S
  <2> SUFFICES ASSUME sure(x) PROVE tree[2].row.born \in tree[x].row.line
    OBVIOUS
  <2> DEFINE y == tree[x].parent
  <2>1. y \in D /\ y # 0 /\ y = View!Parents(build.rows)[x] BY <1>1, <1>3
  <2>2. View!Ancestry(tree, y) \subseteq View!Ancestry(tree, x) /\ x \in View!Ancestry(tree, x)
    BY <2>1, AncestryIs
  <2>3. y \in View!Ancestry(tree, y) BY <2>1, AncestryIs
  <2>4. Sure(build, x) /\ Sure(build, y) BY <2>2, <2>3
  <2>5. build.rows[y].line \subseteq build.rows[x].line BY <2>1, <2>4, SureEdge
  <2>6. tree[2].row.born \in tree[y].row.line BY <1>3, <2>2
  <2> QED BY <2>1, <2>5, <2>6
<1>4. S \in SUBSET DOMAIN tree OBVIOUS
<1> HIDE DEF S
<1>5. \A q \in DOMAIN tree : tree[q].parent \in S => q \in S BY <1>3
<1>6. p \in S BY <1>2, <1>4, <1>5, AgentsIs
<1> QED BY <1>6 DEF S

LEMMA BuildFiled == ASSUME ViewInv, View!BuildProcessSet PROVE View!FiledUnderAncestor'
<1> DEFINE rs == build.rows
           D == DOMAIN rs
           tree == View!AnnotateProcessTree(rs)
           up == View!Parents(rs)
           certain(q) == q \notin build.handed /\ tree[q].row.created # 0
<1>1. /\ build.at = "read" /\ view'.tree = tree /\ view'.handed = build.handed
      /\ view'.agent = View!AgentSubtree(tree)
  BY DEF View!BuildProcessSet
<1>2. /\ DOMAIN tree = D /\ up = [q \in DOMAIN tree |-> tree[q].parent]
      /\ \A p \in D : /\ tree[p].row = rs[p] /\ tree[p].parent = up[p]
                      /\ tree[p].launcher = View!LauncherIndex(rs, up, p)
  BY TreeIs
<1>3. D \subseteq Pids /\ 0 \notin D
        /\ up \in [D -> D \cup {0}] BY <1>1, ParentsAre, ViewConstants
<1> HIDE DEF tree, up, D
<1>4. \A q \in D : certain(q) => Sure(build, q) BY <1>2 DEF Sure, rs
<1>5. SUFFICES ASSUME NEW p \in D
               PROVE  /\ (\A q \in View!ToSet(View!Chain(up, p)) : certain(q)) =>
                           tree[tree[p].launcher].row.born \in tree[p].row.line
                      /\ p \in View!AgentSubtree(tree)
                           /\ (\A q \in View!Ancestry(tree, p) : certain(q)) =>
                           tree[2].row.born \in tree[p].row.line
  BY <1>1, <1>2 DEF View!FiledUnderAncestor, View!Agent, View!Certain, View!Nothing
<1>6. ASSUME \A q \in View!ToSet(View!Chain(up, p)) : certain(q)
      PROVE  tree[tree[p].launcher].row.born \in tree[p].row.line
  <2> DEFINE s == View!Chain(up, p)
  <2>1. IsWalk(D, up, p, s) BY <1>3, ChainIs
  <2> HIDE DEF s
  <2>2. s \in Seq(D) /\ View!ToSet(s) = {s[i] : i \in DOMAIN s} BY <2>1 DEF IsWalk, View!ToSet
  <2>3. \A i \in DOMAIN s : s[i] \in D BY <2>2
  <2>4. \A i \in DOMAIN s : Sure(build, s[i])
    <3> SUFFICES ASSUME NEW i \in DOMAIN s PROVE Sure(build, s[i]) OBVIOUS
    <3>1. s[i] \in View!ToSet(View!Chain(up, p)) BY <2>2 DEF s
    <3>2. certain(s[i]) BY <1>6, <3>1
    <3> HIDE DEF certain
    <3> QED BY <1>4, <2>3, <3>2
  <2>5. \A i \in DOMAIN s : rs[s[i]].born \in rs[p].line
    BY <1>1, <2>1, <2>4, SureChain DEF D, up
  <2>6. \E i \in DOMAIN s : tree[p].launcher = s[i]
    <3>1. DOMAIN rs = D BY DEF D
    <3>2. \E i \in DOMAIN s : View!LauncherIndex(rs, up, p) = s[i]
      <4> HIDE DEF rs
      <4> QED BY <1>3, <3>1, LauncherIs DEF s
    <3> QED BY <1>2, <3>2
  <2> QED BY <1>2, <2>3, <2>5, <2>6
<1>7. ASSUME p \in View!AgentSubtree(tree), \A q \in View!Ancestry(tree, p) : certain(q)
      PROVE  tree[2].row.born \in tree[p].row.line
  <2>1. View!Ancestry(tree, p) \subseteq D BY <1>2 DEF View!Ancestry
  <2>2. \A q \in View!Ancestry(tree, p) : Sure(build, q)
    <3> HIDE DEF certain
    <3> QED BY <1>4, <1>7, <2>1
  <2>3. D = DOMAIN build.rows /\ \A q \in D : tree[q].row = build.rows[q]
                                    /\ tree[q].parent = View!Parents(build.rows)[q]
    BY <1>2 DEF D, up
  <2> QED BY <1>1, <1>2, <1>7, <2>2, <2>3, AgentsDescend
<1> QED BY <1>6, <1>7

LEMMA BuildBlames == ASSUME ViewInv, View!BuildProcessSet PROVE View!NoShellTakesTheBlame'
<1> DEFINE rs == build.rows
           D == DOMAIN rs
           tree == View!AnnotateProcessTree(rs)
           up == View!Parents(rs)
           key(p) == tree[tree[p].launcher].row.name
           apps == View!AggregateByApp(tree)
<1>1. build.at = "read" /\ view'.tree = tree /\ view'.apps = apps
  BY DEF View!BuildProcessSet
<1>2. /\ DOMAIN tree = D /\ up = [q \in DOMAIN tree |-> tree[q].parent]
      /\ \A p \in D : /\ tree[p].row = rs[p] /\ tree[p].parent = up[p]
                      /\ tree[p].launcher = View!LauncherIndex(rs, up, p)
  BY TreeIs
<1>3. /\ D \subseteq Pids /\ 0 \notin D /\ up \in [D -> D \cup {0}] /\ \A p \in D : up[p] # p
  BY <1>1, ParentsAre, ViewConstants
<1> HIDE DEF tree, up
<1>4. apps = [name \in {key(p) : p \in D} |-> {p \in D : key(p) = name}]
  BY <1>2 DEF View!AggregateByApp
<1> HIDE DEF key, apps, D
<1>5. ASSUME NEW p \in D, View!IsLauncherBoundary(tree[tree[p].launcher].row.name)
      PROVE  /\ View!IsLauncherBoundary(tree[p].row.name)
             /\ tree[p].parent # 0 => View!IsLauncherBoundary(tree[tree[p].parent].row.name)
  <2> DEFINE s == View!Chain(up, p)
             l == tree[p].launcher
  <2>1. IsWalk(D, up, p, s) /\ (up[p] \notin {0, p} => Len(s) >= 2) BY <1>3, ChainIs
  <2>2. /\ \E i \in DOMAIN s : l = s[i]
        /\ View!IsLauncherBoundary(rs[l].name) =>
             \A i \in DOMAIN s : View!IsLauncherBoundary(rs[s[i]].name)
    <3>1. DOMAIN rs = D /\ l = View!LauncherIndex(rs, up, p) BY <1>2 DEF D
    <3> HIDE DEF rs, l
    <3> QED BY <1>3, <3>1, LauncherIs
  <2> HIDE DEF s, l
  <2>3. s \in Seq(D) /\ s # <<>> /\ s[1] = p /\ \A i \in 1 .. Len(s) - 1 : s[i + 1] = up[s[i]]
    BY <2>1 DEF IsWalk
  <2>4. Len(s) \in Nat /\ Len(s) >= 1 /\ DOMAIN s = 1 .. Len(s) /\ \A i \in DOMAIN s : s[i] \in D
    BY <2>3
  <2>5. l \in D BY <2>2, <2>4
  <2>6. \A i \in DOMAIN s : View!IsLauncherBoundary(rs[s[i]].name)
    BY <1>2, <1>5, <2>2, <2>5 DEF l
  <2>7. View!IsLauncherBoundary(tree[p].row.name)
    <3>1. 1 \in DOMAIN s /\ s[1] = p BY <2>3, <2>4
    <3>2. View!IsLauncherBoundary(rs[p].name) BY <2>6, <3>1, Zenon
    <3> QED BY <1>2, <3>2
  <2>8. ASSUME tree[p].parent # 0 PROVE View!IsLauncherBoundary(tree[tree[p].parent].row.name)
    <3>1. up[p] # 0 /\ up[p] # p /\ tree[p].parent = up[p] BY <1>2, <1>3, <2>8
    <3>2. Len(s) >= 2 BY <2>1, <3>1
    <3>3. s[2] = up[p] /\ 2 \in DOMAIN s
      <4>1. 1 \in 1 .. Len(s) - 1 /\ 2 \in DOMAIN s /\ 1 + 1 = 2 BY <2>4, <3>2
      <4> QED BY <2>3, <4>1
    <3> QED BY <1>2, <2>4, <2>6, <3>1, <3>3
  <2> QED BY <2>7, <2>8
<1>6. ASSUME NEW p \in D PROVE View!Cardinality({a \in DOMAIN apps : p \in apps[a]}) = 1
  <2>1. {a \in DOMAIN apps : p \in apps[a]} = {key(p)} BY <1>4
  <2> QED BY <2>1, FS_Singleton, ViewCardinality
<1> QED BY <1>1, <1>2, <1>5, <1>6 DEF View!NoShellTakesTheBlame, View!Nothing

-----------------------------------------------------------------------------
(* Rows sent: TopRows.                                                      *)

\* Induction over the subsets of a finite set, on the set of those a fact holds for.
LEMMA BySize ==
  ASSUME NEW S, IsFiniteSet(S), NEW P, {} \in P,
         \A T \in SUBSET S : \A x \in S \ T : T \in P => T \cup {x} \in P
  PROVE  SUBSET S \subseteq P
<1> DEFINE bad == (SUBSET S) \ P
<1>1. SUFFICES ASSUME bad # {} PROVE FALSE OBVIOUS
<1>2. bad \subseteq FiniteSubsetsOf(S) BY FS_FiniteSubsetsOfFinite
<1> HIDE DEF bad
<1>3. PICK T \in bad : \A U \in bad : <<U, T>> \notin StrictSubsetOrdering(S)
  BY <1>1, <1>2, FS_StrictSubsetOrderingWellFounded, WFMin
<1>4. T \in SUBSET S /\ T \notin P BY DEF bad
<1>5. PICK x \in T : TRUE BY <1>4
<1> DEFINE U == T \ {x}
<1>6. U \in SUBSET S /\ x \in S \ U /\ U \cup {x} = T /\ U \subseteq T /\ U # T BY <1>4
<1> HIDE DEF U
<1>7. <<U, T>> \in StrictSubsetOrdering(S)
  <2>1. <<U, T>> \in (SUBSET S) \X (SUBSET S) BY <1>4, <1>6
  <2> QED BY <2>1, <1>6 DEF StrictSubsetOrdering
<1>8. U \notin bad BY <1>3, <1>7
<1>9. U \in P BY <1>6, <1>8 DEF bad
<1>10. U \cup {x} \in P BY <1>6, <1>9
<1> QED BY <1>4, <1>6, <1>10

LEMMA SubsetOfSize ==
  ASSUME NEW S, IsFiniteSet(S), NEW n \in Nat, n <= Cardinality(S)
  PROVE  \E T \in SUBSET S : Cardinality(T) = n
<1> DEFINE N == Cardinality(S)
           P == {k \in 0 .. N : \E T \in SUBSET S : Cardinality(T) = k}
<1>1. N \in Nat BY FS_CardinalityType
<1>2. 0 \in P
  <2>1. {} \in SUBSET S /\ Cardinality({}) = 0 BY FS_EmptySet
  <2> QED BY <1>1, <2>1
<1>3. ASSUME NEW k \in 0 .. N, k # N, k \in P PROVE k + 1 \in P
  <2>1. PICK T \in SUBSET S : Cardinality(T) = k BY <1>3
  <2>2. T # S BY <1>3, <2>1
  <2>3. PICK x \in S \ T : TRUE BY <2>2
  <2>4. IsFiniteSet(T) BY FS_Subset
  <2>5. Cardinality(T \cup {x}) = Cardinality(T) + 1 BY <2>3, <2>4, FS_AddElement
  <2>6. T \cup {x} \in SUBSET S BY <2>3
  <2>7. k + 1 \in 0 .. N BY <1>1, <1>3
  <2> QED BY <2>1, <2>5, <2>6, <2>7
<1>4. 0 .. N \subseteq P
  <2> HIDE DEF N, P
  <2> QED BY <1>1, <1>2, <1>3, UpTo
<1>5. n \in 0 .. N BY <1>1
<1> QED BY <1>4, <1>5

-----------------------------------------------------------------------------
\* The rows by processor time.
CPU(r) == value[r]["cpu"]
Ahead(r) == {q \in Rows : Table!Before(q, r, "cpu")}
Lead(n) == {r \in Rows : Cardinality(Ahead(r)) < n}

ValueInv == \A r \in Rows : CPU(r) \in {0, 1}

LEMMA TableConstants ==
  Rows \subseteq Nat /\ IsFiniteSet(Rows) /\ TopN \in Nat /\ TopN # 0 /\ HardCap = 2 * TopN
<1>1. \A S : Table!IsFiniteSet(S) = IsFiniteSet(S) BY Zenon DEF Table!IsFiniteSet, IsFiniteSet
<1> QED BY <1>1, ViewAssumed DEF Table!TopRowsAssumption

LEMMA TableCardinality == \A S : Table!Cardinality(S) = Cardinality(S)
BY Zenon DEF Table!Cardinality, Cardinality

LEMMA BeforeIs ==
  ASSUME ValueInv, NEW q \in Rows, NEW r \in Rows
  PROVE  /\ Table!Before(q, r, "cpu") <=> CPU(q) > CPU(r) \/ (CPU(q) = CPU(r) /\ q < r)
         /\ CPU(q) \in Nat /\ CPU(r) \in Nat /\ q \in Nat /\ r \in Nat
BY TableConstants DEF Table!Before, CPU, ValueInv

LEMMA AheadLess ==
  ASSUME ValueInv, NEW q \in Rows, NEW r \in Rows, q \in Ahead(r)
  PROVE  Cardinality(Ahead(q)) < Cardinality(Ahead(r))
<1>1. q \notin Ahead(q) BY BeforeIs DEF Ahead
<1>2. Ahead(q) \subseteq Ahead(r)
  <2> SUFFICES ASSUME NEW x \in Ahead(q) PROVE x \in Ahead(r) OBVIOUS
  <2>1. x \in Rows /\ Table!Before(x, q, "cpu") /\ Table!Before(q, r, "cpu") BY DEF Ahead
  <2>2. CPU(x) > CPU(q) \/ (CPU(x) = CPU(q) /\ x < q) BY <2>1, BeforeIs
  <2>3. CPU(q) > CPU(r) \/ (CPU(q) = CPU(r) /\ q < r) BY <2>1, BeforeIs
  <2>4. CPU(x) \in Nat /\ CPU(q) \in Nat /\ CPU(r) \in Nat /\ x \in Nat /\ q \in Nat /\ r \in Nat
    BY <2>1, BeforeIs
  <2>5. CPU(x) > CPU(r) \/ (CPU(x) = CPU(r) /\ x < r) BY <2>2, <2>3, <2>4
  <2>6. Table!Before(x, r, "cpu") BY <2>1, <2>5, BeforeIs
  <2> QED BY <2>1, <2>6 DEF Ahead
<1>3. IsFiniteSet(Ahead(r)) /\ IsFiniteSet(Ahead(q))
  <2>1. Ahead(r) \in SUBSET Rows /\ Ahead(q) \in SUBSET Rows BY DEF Ahead
  <2> QED BY <2>1, FS_Subset, TableConstants
<1>4. /\ Cardinality(Ahead(q)) <= Cardinality(Ahead(r))
      /\ Cardinality(Ahead(q)) # Cardinality(Ahead(r))
      /\ Cardinality(Ahead(q)) \in Nat /\ Cardinality(Ahead(r)) \in Nat
  BY <1>1, <1>2, <1>3, FS_Subset, FS_CardinalityType
<1> QED BY <1>4

LEMMA FirstRow ==
  ASSUME ValueInv, NEW U \in SUBSET Rows, U # {}
  PROVE  \E m \in U : \A u \in U \ {m} : m \in Ahead(u)
<1> DEFINE B == IF \E u \in U : CPU(u) = 1 THEN {u \in U : CPU(u) = 1} ELSE U
<1>1. B # {} /\ B \subseteq U /\ B \in SUBSET Nat BY TableConstants
<1>2. \A b \in B : \A u \in U : CPU(b) >= CPU(u) /\ (CPU(u) = CPU(b) => u \in B)
  <2> SUFFICES ASSUME NEW b \in B, NEW u \in U
    PROVE CPU(b) >= CPU(u) /\ (CPU(u) = CPU(b) => u \in B)
    OBVIOUS
  <2>1. b \in U /\ CPU(b) \in {0, 1} /\ CPU(u) \in {0, 1} BY <1>1 DEF ValueInv
  <2> QED BY <2>1
<1> HIDE DEF B
<1>3. PICK m \in B : \A x \in B : <<x, m>> \notin OpToRel(<, Nat)
  BY <1>1, NatLessThanWellFounded, WFMin
<1>4. ASSUME NEW u \in U \ {m} PROVE m \in Ahead(u)
  <2>1. m \in Rows /\ u \in Rows /\ m \in Nat /\ u \in Nat /\ m # u /\ CPU(m) \in Nat
          /\ CPU(u) \in Nat
    BY <1>1, <1>4, BeforeIs
  <2>2. CPU(m) >= CPU(u) BY <1>2, <1>4
  <2>3. CASE CPU(m) > CPU(u) BY <2>1, <2>3, BeforeIs DEF Ahead
  <2>4. CASE CPU(m) = CPU(u)
    <3>1. u \in B BY <1>2, <1>4, <2>4
    <3>2. ~(u < m) BY <1>3, <2>1, <3>1 DEF OpToRel
    <3>3. m < u BY <2>1, <3>2
    <3> QED BY <2>1, <2>4, <3>3, BeforeIs DEF Ahead
  <2> QED BY <2>1, <2>2, <2>3, <2>4
<1> QED BY <1>1, <1>4

\* The n first rows are n, if there are that many.
LEMMA LeadSize ==
  ASSUME ValueInv, NEW n \in Nat, n <= Cardinality(Rows)
  PROVE  Cardinality(Lead(n)) = n
<1> DEFINE N == Cardinality(Rows)
           P == {k \in 0 .. N : Cardinality(Lead(k)) = k}
<1>0. IsFiniteSet(Rows) BY TableConstants
<1>1. N \in Nat BY <1>0, FS_CardinalityType
<1>2. \A r \in Rows : Cardinality(Ahead(r)) \in Nat /\ IsFiniteSet(Ahead(r))
  <2>1. \A r \in Rows : Ahead(r) \in SUBSET Rows BY DEF Ahead
  <2>2. \A r \in Rows : IsFiniteSet(Ahead(r)) BY <1>0, <2>1, FS_Subset
  <2> QED BY <2>2, FS_CardinalityType
<1>3. 0 \in P
  <2>1. \A r \in Rows : ~(Cardinality(Ahead(r)) < 0) BY <1>2
  <2>2. Lead(0) = {} BY <2>1 DEF Lead
  <2> QED BY <1>1, <2>2, FS_EmptySet
<1>4. ASSUME NEW k \in 0 .. N, k # N, k \in P PROVE k + 1 \in P
  <2>0. k \in Nat /\ k < N /\ k + 1 \in 0 .. N BY <1>1, <1>4
  <2>1. Cardinality(Lead(k)) = k /\ Lead(k) \in SUBSET Rows BY <1>4 DEF Lead
  <2>2. Rows \ Lead(k) # {}
    <3>1. Lead(k) # Rows BY <1>1, <2>0, <2>1
    <3> QED BY <2>1, <3>1
  <2>3. PICK m \in Rows \ Lead(k) : \A u \in (Rows \ Lead(k)) \ {m} : m \in Ahead(u)
    <3>1. Rows \ Lead(k) \in SUBSET Rows OBVIOUS
    <3> QED BY <2>2, <3>1, FirstRow
  <2>4. ~(Cardinality(Ahead(m)) < k) BY <2>3 DEF Lead
  <2>5. Ahead(m) = Lead(k)
    <3>1. ASSUME NEW q \in Ahead(m) PROVE q \in Lead(k)
      <4>1. q \in Rows BY DEF Ahead
      <4>2. q \notin Ahead(q) /\ m \notin Ahead(q)
        <5>1. ~Table!Before(q, q, "cpu") BY <4>1, BeforeIs
        <5>2. Table!Before(q, m, "cpu") BY DEF Ahead
        <5>3. ~Table!Before(m, q, "cpu") BY <2>3, <4>1, <5>2, BeforeIs
        <5> QED BY <5>1, <5>3 DEF Ahead
      <4>3. q # m BY <4>2
      <4> QED BY <2>3, <4>1, <4>2, <4>3
    <3>2. ASSUME NEW q \in Lead(k), q \notin Ahead(m) PROVE FALSE
      <4>1. q \in Rows /\ Cardinality(Ahead(q)) < k BY DEF Lead
      <4>2. q # m BY <2>4, <4>1
      <4>3. ~Table!Before(q, m, "cpu") BY <3>2, <4>1 DEF Ahead
      <4>4. Table!Before(m, q, "cpu") BY <2>3, <4>1, <4>2, <4>3, BeforeIs
      <4>5. Cardinality(Ahead(m)) < Cardinality(Ahead(q))
        BY <2>3, <4>1, <4>4, AheadLess DEF Ahead
      <4> QED BY <1>2, <2>0, <2>3, <2>4, <4>1, <4>5
    <3> QED BY <3>1, <3>2
  <2>6. Cardinality(Ahead(m)) = k BY <2>1, <2>5
  <2>7. ASSUME NEW u \in (Rows \ Lead(k)) \ {m} PROVE ~(Cardinality(Ahead(u)) < k + 1)
    <3>1. Cardinality(Ahead(m)) < Cardinality(Ahead(u)) BY <2>3, <2>7, AheadLess
    <3>2. Cardinality(Ahead(u)) \in Nat BY <1>2, <2>7
    <3> QED BY <2>0, <2>6, <3>1, <3>2
  <2>8. Lead(k + 1) = Lead(k) \cup {m}
    <3>1. ASSUME NEW q \in Lead(k) PROVE q \in Lead(k + 1)
      <4>1. q \in Rows /\ Cardinality(Ahead(q)) < k /\ Cardinality(Ahead(q)) \in Nat
        BY <1>2 DEF Lead
      <4> QED BY <2>0, <4>1 DEF Lead
    <3>2. m \in Lead(k + 1) BY <2>0, <2>3, <2>6 DEF Lead
    <3>3. ASSUME NEW q \in Lead(k + 1), q \notin Lead(k), q # m PROVE FALSE
      <4>1. q \in Rows /\ Cardinality(Ahead(q)) < k + 1 BY DEF Lead
      <4> QED BY <2>7, <3>3, <4>1
    <3> QED BY <3>1, <3>2, <3>3
  <2>9. IsFiniteSet(Lead(k)) BY <1>0, <2>1, FS_Subset
  <2>10. Cardinality(Lead(k) \cup {m}) = k + 1 BY <2>1, <2>3, <2>9, FS_AddElement
  <2> QED BY <2>0, <2>8, <2>10
<1>5. 0 .. N \subseteq P
  <2> HIDE DEF N, P
  <2> QED BY <1>1, <1>3, <1>4, UpTo
<1>6. n \in 0 .. N BY <1>1
<1> QED BY <1>5, <1>6

LEMMA LeadBest ==
  ASSUME ValueInv, NEW n \in Nat, NEW r \in Lead(n), NEW q \in Rows \ Lead(n)
  PROVE  CPU(r) >= CPU(q)
<1>1. r \in Rows /\ Cardinality(Ahead(r)) < n /\ ~(Cardinality(Ahead(q)) < n) BY DEF Lead
<1>2. Cardinality(Ahead(r)) \in Nat /\ Cardinality(Ahead(q)) \in Nat
  <2>1. Ahead(r) \in SUBSET Rows /\ Ahead(q) \in SUBSET Rows BY DEF Ahead
  <2> QED BY <2>1, FS_Subset, FS_CardinalityType, TableConstants
<1>3. q \notin Ahead(r)
  <2> SUFFICES ASSUME q \in Ahead(r) PROVE FALSE OBVIOUS
  <2>1. Cardinality(Ahead(q)) < Cardinality(Ahead(r)) BY <1>1, AheadLess
  <2> QED BY <1>1, <1>2, <2>1
<1>4. ~(CPU(q) > CPU(r)) BY <1>1, <1>3, BeforeIs DEF Ahead
<1> QED BY <1>1, <1>4, BeforeIs

\* The leaders by processor time are picked first, and nothing picked is dropped before
\* the rows are trimmed.
LEMMA PickedIs ==
  ASSUME ValueInv
  PROVE  Lead(TopN) \subseteq Table!Picked /\ Table!Picked \in SUBSET Rows
<1> DEFINE N == Len(Table!Columns)
           step(i, s) == Table!Consider(s, Table!Columns[i], TopN)
           isPicked(f) == f = [i \in 0 .. N |-> IF i = 0 THEN {} ELSE step(i, f[i - 1])]
           F == CHOOSE f : isPicked(f)
<1>1. N = 5 /\ Table!Columns[1] = "cpu" BY DEF Table!Columns
<1>2. \A s \in SUBSET Rows : \A i \in 1 .. N : step(i, s) \in SUBSET Rows
        /\ s \subseteq step(i, s)
  BY DEF Table!Consider
<1>3. step(1, {}) = Lead(TopN)
  <2>1. Rows \ {} = Rows OBVIOUS
  <2>2. step(1, {}) = {r \in Rows : Table!Cardinality({q \in Rows : Table!Before(q, r,
          "cpu")}) < TopN}
    BY <1>1, <2>1 DEF Table!Consider
  <2> QED BY <2>2, TableCardinality DEF Lead, Ahead
<1>4. \E f : isPicked(f)
  <2> DEFINE S == SUBSET Rows
             g == [x \in (1 .. N) \X S |-> step(x[1], x[2])]
  <2>1. g \in [(1 .. N) \X S -> S] BY <1>2
  <2>2. \A i \in 1 .. N : \A s \in S : g[<<i, s>>] = step(i, s) OBVIOUS
  <2>3. {} \in S /\ N \in Nat BY <1>1
  <2> HIDE DEF g, S, N, step
  <2>4. Iterates(S, {}, N, g) BY <2>1, <2>3, Iterated
  <2>5. PICK f \in [0 .. N -> S] : f[0] = {} /\ \A i \in 1 .. N : f[i] = g[<<i, f[i - 1]>>]
    BY <2>4 DEF Iterates
  <2>6. ASSUME NEW i \in 0 .. N PROVE f[i] = IF i = 0 THEN {} ELSE step(i, f[i - 1])
    <3>1. CASE i = 0 BY <2>5, <3>1
    <3>2. CASE i # 0
      <4>1. i \in 1 .. N /\ i - 1 \in 0 .. N BY <2>3, <3>2
      <4> QED BY <2>2, <2>5, <3>2, <4>1
    <3> QED BY <3>1, <3>2
  <2>7. isPicked(f) BY <2>5, <2>6
  <2> QED BY <2>7
<1>5. isPicked(F) BY <1>4
<1>6. Table!Picked = F[N] BY DEF Table!Picked
<1> HIDE DEF F, step
<1>7. /\ F[0] = {} /\ F[1] = step(1, F[0]) /\ F[2] = step(2, F[1]) /\ F[3] = step(3, F[2])
      /\ F[4] = step(4, F[3]) /\ F[5] = step(5, F[4])
  BY <1>1, <1>5
<1>8. /\ F[1] = Lead(TopN) /\ F[1] \in SUBSET Rows BY <1>3, <1>7 DEF Lead
<1>9. 2 \in 1 .. N /\ 3 \in 1 .. N /\ 4 \in 1 .. N /\ 5 \in 1 .. N BY <1>1
<1>10. F[2] \in SUBSET Rows /\ F[1] \subseteq F[2] BY <1>2, <1>7, <1>8, <1>9
<1>11. F[3] \in SUBSET Rows /\ F[2] \subseteq F[3] BY <1>2, <1>7, <1>9, <1>10
<1>12. F[4] \in SUBSET Rows /\ F[3] \subseteq F[4] BY <1>2, <1>7, <1>9, <1>11
<1>13. F[5] \in SUBSET Rows /\ F[4] \subseteq F[5] BY <1>2, <1>7, <1>9, <1>12
<1> QED BY <1>1, <1>6, <1>8, <1>10, <1>11, <1>12, <1>13

\* What is dropped, of many rows, is no busier than what is kept.
LEMMA TrimKeepsLeaders ==
  ASSUME ValueInv, TopN < Cardinality(Rows), NEW P \in SUBSET Rows, Lead(TopN) \subseteq P,
         NEW K \in SUBSET P, Cardinality(K) = HardCap,
         \A r \in K : \A q \in P \ K : ~(CPU(q) > CPU(r))
  PROVE  \E best \in SUBSET K :
           Cardinality(best) = TopN /\ \A r \in best : \A q \in Rows \ best : CPU(r) >= CPU(q)
<1> DEFINE B == Lead(TopN)
<1>1. TopN \in Nat /\ TopN # 0 /\ HardCap = 2 * TopN /\ IsFiniteSet(Rows) BY TableConstants
<1>2. Cardinality(Rows) \in Nat BY <1>1, FS_CardinalityType
<1>3. Cardinality(B) = TopN BY <1>1, <1>2, LeadSize
<1>4. B \in SUBSET Rows /\ \A r \in B : \A q \in Rows \ B : CPU(r) >= CPU(q)
  BY <1>1, LeadBest DEF Lead
<1> HIDE DEF B
<1>5. \A r \in Rows : CPU(r) \in Nat BY DEF ValueInv
<1>6. IsFiniteSet(B) /\ IsFiniteSet(K) /\ K \in SUBSET Rows BY <1>1, <1>4, FS_Subset
<1>7. CASE B \subseteq K
  <2>1. B \in SUBSET K BY <1>7
  <2> QED BY <1>3, <1>4, <2>1
<1>8. CASE ~(B \subseteq K)
  <2> DEFINE C == B \cap K
             c == Cardinality(C)
             rest == K \ B
  <2>1. PICK b \in B : b \notin K BY <1>8
  <2>2. b \in P \ K /\ b \in Rows BY <1>4, <2>1 DEF B
  <2>3. IsFiniteSet(C) /\ c \in Nat /\ c <= TopN
    BY <1>3, <1>6, FS_Intersection, FS_CardinalityType
  <2>4. IsFiniteSet(rest) /\ Cardinality(rest) = 2 * TopN - c
    <3>1. K \cap B = C OBVIOUS
    <3>2. IsFiniteSet(K \ B) /\ Cardinality(K \ B) = Cardinality(K) - Cardinality(K \cap B)
      BY <1>6, FS_Difference
    <3> QED BY <1>1, <3>1, <3>2
  <2>5. TopN - c \in Nat /\ TopN - c <= Cardinality(rest) BY <1>1, <2>3, <2>4
  <2>6. PICK X \in SUBSET rest : Cardinality(X) = TopN - c
    <3> HIDE DEF rest, c
    <3> QED BY <2>4, <2>5, SubsetOfSize
  <2> DEFINE best == C \cup X
  <2>7. best \in SUBSET K OBVIOUS
  <2>8. Cardinality(best) = TopN
    <3>1. IsFiniteSet(X) BY <2>4, FS_Subset
    <3>2. C \cap X = {} OBVIOUS
    <3> HIDE DEF C, rest
    <3>3. Cardinality(C \cup X) = c + (TopN - c) - 0
      BY <2>3, <2>6, <3>1, <3>2, FS_Union, FS_EmptySet
    <3> QED BY <1>1, <2>3, <3>3
  <2>9. ASSUME NEW r \in best, NEW q \in Rows \ best PROVE CPU(r) >= CPU(q)
    <3>1. r \in K /\ r \in Rows /\ CPU(r) \in Nat /\ CPU(q) \in Nat /\ CPU(b) \in Nat
      BY <1>5, <1>6, <2>2
    <3>2. ~(CPU(b) > CPU(r)) BY <2>2, <3>1
    <3>3. CASE q \in B
      <4>1. q \in P \ K BY <3>3 DEF B
      <4>2. ~(CPU(q) > CPU(r)) BY <3>1, <4>1
      <4> QED BY <3>1, <4>2
    <3>4. CASE q \notin B
      <4>1. CPU(b) >= CPU(q) BY <1>4, <2>1, <3>4
      <4> QED BY <3>1, <3>2, <4>1
    <3> QED BY <3>3, <3>4
  <2> QED BY <2>7, <2>8, <2>9
<1> QED BY <1>7, <1>8

TableInv == ValueInv /\ Table!CPULeadersSent

LEMMA RowsInit == ASSUME Table!Init PROVE TableInv
<1>1. PICK busy \in SUBSET Rows, heavy \in [Rows -> 1 .. Len(Table!Columns)] :
       value = [r \in Rows |-> [c \in Table!ToSet(Table!Columns) |->
                 IF c = "cpu" THEN IF r \in busy THEN 1 ELSE 0
                 ELSE IF Table!Columns[heavy[r]] = c THEN 1 ELSE 0]]
  BY DEF Table!Init
<1>2. "cpu" \in Table!ToSet(Table!Columns) BY DEF Table!ToSet, Table!Columns
<1>3. ASSUME NEW r \in Rows PROVE CPU(r) \in {0, 1}
  <2>1. CPU(r) = IF r \in busy THEN 1 ELSE 0 BY <1>1, <1>2 DEF CPU
  <2> QED BY <2>1
<1>4. sent = {} BY DEF Table!Init
<1> QED BY <1>3, <1>4 DEF TableInv, ValueInv, Table!CPULeadersSent

LEMMA SelectInv == ASSUME TableInv, Table!Next PROVE TableInv'
<1>1. value' = value /\ sent' \in IF Table!Cardinality(Rows) <= TopN THEN {Rows}
                                  ELSE Table!TrimmedByCPU(Table!Picked)
  BY DEF Table!Next, Table!Select
<1>2. ValueInv BY DEF TableInv
<1>3. ValueInv' BY <1>1, <1>2 DEF ValueInv, CPU
<1>4. /\ TopN \in Nat /\ TopN # 0 /\ HardCap = 2 * TopN /\ IsFiniteSet(Rows)
      /\ Cardinality(Rows) \in Nat
  BY TableConstants, FS_CardinalityType
<1> DEFINE P == Table!Picked
<1>5. Lead(TopN) \subseteq P /\ P \in SUBSET Rows BY <1>2, PickedIs
<1> HIDE DEF P
<1>6. /\ sent' \in SUBSET Rows /\ Cardinality(sent') <= HardCap
      /\ \E best \in SUBSET sent' :
           /\ best = Rows \/ Cardinality(best) = TopN
           /\ \A r \in best : \A q \in Rows \ best : CPU(r) >= CPU(q)
  <2>1. CASE Cardinality(Rows) <= TopN
    <3>1. sent' = Rows BY <1>1, <2>1, TableCardinality
    <3>2. Cardinality(Rows) <= HardCap BY <1>4, <2>1
    <3> QED BY <3>1, <3>2
  <2>2. CASE ~(Cardinality(Rows) <= TopN)
    <3>1. sent' \in Table!TrimmedByCPU(P) BY <1>1, <2>2, TableCardinality DEF P
    <3>2. TopN < Cardinality(Rows) BY <1>4, <2>2
    <3>3. CASE Cardinality(P) <= HardCap
      <4>1. sent' = P BY <3>1, <3>3, TableCardinality DEF Table!TrimmedByCPU
      <4>2. Cardinality(Lead(TopN)) = TopN BY <1>2, <1>4, <3>2, LeadSize
      <4>3. \A r \in Lead(TopN) : \A q \in Rows \ Lead(TopN) : CPU(r) >= CPU(q)
        BY <1>2, <1>4, LeadBest
      <4> QED BY <1>5, <3>3, <4>1, <4>2, <4>3
    <3>4. CASE ~(Cardinality(P) <= HardCap)
      <4>1. /\ sent' \in SUBSET P /\ Cardinality(sent') = HardCap
            /\ \A r \in sent' : \A q \in P \ sent' : ~Table!Busier(q, r)
        BY <3>1, <3>4, TableCardinality DEF Table!TrimmedByCPU
      <4>2. \A r \in sent' : \A q \in P \ sent' : ~(CPU(q) > CPU(r))
        BY <4>1 DEF Table!Busier, CPU
      <4>3. \E best \in SUBSET sent' :
              Cardinality(best) = TopN /\ \A r \in best : \A q \in Rows \ best : CPU(r) >= CPU(q)
        BY <1>2, <1>5, <3>2, <4>1, <4>2, TrimKeepsLeaders
      <4> QED BY <1>4, <1>5, <4>1, <4>3
    <3> QED BY <3>3, <3>4
  <2> QED BY <2>1, <2>2
<1>7. Table!CPULeadersSent'
  <2>1. \A r : CPU(r) = value'[r]["cpu"] BY <1>1 DEF CPU
  <2>2. PICK best \in SUBSET sent' :
           /\ best = Rows \/ Cardinality(best) = TopN
           /\ \A r \in best : \A q \in Rows \ best : CPU(r) >= CPU(q)
    BY <1>6
  <2>3. \A r \in best, q \in Rows \ best : value'[r]["cpu"] >= value'[q]["cpu"] BY <2>1, <2>2
  <2>4. Table!LeadersSent("cpu")' BY <2>2, <2>3, TableCardinality DEF Table!LeadersSent
  <2>5. Table!Cardinality(sent') <= HardCap BY <1>6, TableCardinality
  <2> QED BY <2>4, <2>5 DEF Table!CPULeadersSent
<1> QED BY <1>3, <1>7 DEF TableInv

-----------------------------------------------------------------------------
FiledInv == ViewInv /\ View!FiledUnderAncestor /\ View!NoShellTakesTheBlame

LEMMA NothingFiled ==
  ASSUME view = View!NoView PROVE View!FiledUnderAncestor /\ View!NoShellTakesTheBlame
<1>1. DOMAIN view.tree = {} BY NoRows DEF View!NoView
<1> QED BY <1>1 DEF View!FiledUnderAncestor, View!NoShellTakesTheBlame

LEMMA NothingFiledNext ==
  ASSUME view' = View!NoView PROVE View!FiledUnderAncestor' /\ View!NoShellTakesTheBlame'
<1>1. DOMAIN view'.tree = {} BY NoRows DEF View!NoView
<1> QED BY <1>1 DEF View!FiledUnderAncestor, View!NoShellTakesTheBlame

LEMMA FiledStays ==
  ASSUME FiledInv, UNCHANGED processVars PROVE FiledInv'
<1>1. /\ windows' = windows /\ proc' = proc /\ forks' = forks
      /\ build' = build /\ view' = view
  BY DEF processVars
<1>2. ViewInv' BY <1>1 DEF FiledInv, ViewInv, Machine, PassRight, RowRight
<1>3. View!FiledUnderAncestor' BY <1>1 DEF FiledInv, View!FiledUnderAncestor, View!Certain
<1>4. View!NoShellTakesTheBlame' BY <1>1 DEF FiledInv, View!NoShellTakesTheBlame
<1> QED BY <1>2, <1>3, <1>4 DEF FiledInv

LEMMA FiledStep == ASSUME FiledInv, View!Next PROVE FiledInv'
<1>0. ViewInv BY DEF FiledInv
<1>1. ASSUME NEW p \in Pids, NEW c \in Pids, NEW n \in View!Names, View!Fork(p, c, n)
  PROVE FiledInv'
  <2>1. view' = View!NoView BY <1>1 DEF View!Fork
  <2> QED BY <1>0, <1>1, <2>1, ForkInv, NothingFiledNext DEF FiledInv
<1>2. ASSUME NEW c \in Pids, View!Exit(c) PROVE FiledInv'
  <2>1. view' = View!NoView BY <1>2 DEF View!Exit
  <2> QED BY <1>0, <1>2, <2>1, ExitInv, NothingFiledNext DEF FiledInv
<1>3. CASE View!List
  <2>1. view' = View!NoView BY <1>3 DEF View!List
  <2> QED BY <1>0, <1>3, <2>1, ListedInv, NothingFiledNext DEF FiledInv
<1>4. ASSUME NEW protected \in BOOLEAN, View!Read(protected) PROVE FiledInv'
  <2>1. view' = View!NoView BY <1>4 DEF View!Read
  <2> QED BY <1>0, <1>4, <2>1, ReadInv, NothingFiledNext DEF FiledInv
<1>5. CASE View!BuildProcessSet BY <1>0, <1>5, BuildInv, BuildFiled, BuildBlames DEF FiledInv
<1> QED BY <1>1, <1>2, <1>3, <1>4, <1>5 DEF View!Next

FilingInv == FiledInv /\ (part = "table" => TableInv)

-----------------------------------------------------------------------------
(* Sums over a set, by induction.                                           *)

\* h adds up fun over each subset of S, in whatever order.
Adds(h, fun, S) ==
  /\ h \in [SUBSET S -> Nat] /\ h[{}] = 0
  /\ \A T \in SUBSET S : \A x \in T : h[T] = fun[x] + h[T \ {x}]

Added(fun, S) == \E h : Adds(h, fun, S)

LEMMA AddsThere ==
  ASSUME NEW S, IsFiniteSet(S), NEW fun, \A x \in S : fun[x] \in Nat
  PROVE  \E h : Adds(h, fun, S)
<1> DEFINE P == {T \in SUBSET S : Added(fun, T)}
<1>1. {} \in P
  <2> DEFINE h == [T \in SUBSET {} |-> 0]
  <2>1. Adds(h, fun, {}) BY DEF Adds
  <2> HIDE DEF h
  <2> QED BY <2>1 DEF Added
<1>2. ASSUME NEW T \in SUBSET S, NEW x \in S \ T, T \in P PROVE T \cup {x} \in P
  <2> DEFINE V == T \cup {x}
  <2>1. PICK h : Adds(h, fun, T) BY <1>2 DEF Added
  <2>2. /\ h \in [SUBSET T -> Nat] /\ h[{}] = 0
        /\ \A A \in SUBSET T : \A y \in A : h[A] = fun[y] + h[A \ {y}]
    BY <2>1 DEF Adds
  <2> DEFINE k == [A \in SUBSET V |-> IF x \in A THEN fun[x] + h[A \ {x}] ELSE h[A]]
  <2>3. \A A \in SUBSET V : A \ {x} \in SUBSET T /\ (x \notin A => A \in SUBSET T) OBVIOUS
  <2>4. fun[x] \in Nat BY <1>2
  <2>5. \A A \in SUBSET V : k[A] = IF x \in A THEN fun[x] + h[A \ {x}] ELSE h[A] OBVIOUS
  <2>6. k \in [SUBSET V -> Nat]
    <3>1. \A A \in SUBSET V : h[A \ {x}] \in Nat /\ (x \notin A => h[A] \in Nat) BY <2>2, <2>3
    <3>2. \A A \in SUBSET V : (IF x \in A THEN fun[x] + h[A \ {x}] ELSE h[A]) \in Nat
      BY <2>4, <3>1
    <3> QED BY <3>2
  <2> HIDE DEF k, V
  <2>7. k[{}] = 0 BY <2>2, <2>5
  <2>8. ASSUME NEW A \in SUBSET V, NEW y \in A PROVE k[A] = fun[y] + k[A \ {y}]
    <3>1. A \ {y} \in SUBSET V BY <2>8
    <3>2. CASE y = x
      <4>1. x \notin A \ {y} /\ x \in A BY <3>2
      <4> QED BY <2>5, <3>1, <3>2, <4>1
    <3>3. CASE y # x /\ x \notin A
      <4>1. x \notin A \ {y} /\ A \in SUBSET T BY <2>3, <3>3
      <4>2. k[A] = h[A] /\ k[A \ {y}] = h[A \ {y}] BY <2>5, <3>1, <3>3, <4>1
      <4> QED BY <2>2, <4>1, <4>2
    <3>4. CASE y # x /\ x \in A
      <4> DEFINE B == A \ {x}
                 a == h[B \ {y}]
      <4>1. B \in SUBSET T /\ y \in B /\ B \ {y} \in SUBSET T /\ (A \ {y}) \ {x} = B \ {y}
        BY <2>3, <3>4
      <4>2. k[A] = fun[x] + h[B] BY <2>5, <3>4
      <4>3. k[A \ {y}] = fun[x] + a BY <2>5, <3>1, <3>4, <4>1
      <4>4. h[B] = fun[y] + a BY <2>2, <4>1
      <4>5. a \in Nat /\ fun[y] \in Nat /\ fun[x] \in Nat BY <1>2, <2>2, <2>4, <4>1
      <4> HIDE DEF a, B
      <4> QED BY <4>2, <4>3, <4>4, <4>5
    <3> QED BY <3>2, <3>3, <3>4
  <2>9. Adds(k, fun, V) BY <2>6, <2>7, <2>8 DEF Adds
  <2>10. Added(fun, V) BY <2>9 DEF Added
  <2> QED BY <2>10 DEF V
<1>3. SUBSET S \subseteq P
  <2> HIDE DEF P
  <2> QED BY <1>1, <1>2, BySize
<1>4. S \in P BY <1>3
<1> QED BY <1>4 DEF Added

\* There is one such sum, whatever is said of fun elsewhere.
LEMMA AddsOne ==
  ASSUME NEW S, IsFiniteSet(S), NEW fun, NEW gun, \A x \in S : fun[x] = gun[x],
         NEW h, NEW k, Adds(h, fun, S), Adds(k, gun, S)
  PROVE  \A T \in SUBSET S : h[T] = k[T]
<1> DEFINE P == {T \in SUBSET S : h[T] = k[T]}
<1>1. {} \in P BY DEF Adds
<1>2. ASSUME NEW T \in SUBSET S, NEW x \in S \ T, T \in P PROVE T \cup {x} \in P
  <2>1. T \cup {x} \in SUBSET S /\ x \in T \cup {x} /\ (T \cup {x}) \ {x} = T BY <1>2
  <2>2. h[T \cup {x}] = fun[x] + h[T] BY <2>1 DEF Adds
  <2>3. k[T \cup {x}] = gun[x] + k[T] BY <2>1 DEF Adds
  <2> QED BY <1>2, <2>1, <2>2, <2>3
<1>3. SUBSET S \subseteq P
  <2> HIDE DEF P
  <2> QED BY <1>1, <1>2, BySize
<1> QED BY <1>3

LEMMA SumAdds ==
  ASSUME NEW S, IsFiniteSet(S), NEW fun, NEW h, Adds(h, fun, S)
  PROVE  SumFunctionOnSet(fun, S) = h[S]
<1> DEFINE val(i, T) == LET x == CHOOSE x \in T : TRUE IN fun[x] + i[T \ {x}]
           isIter(i) == i = [T \in SUBSET S |-> IF T = {} THEN 0 ELSE val(i, T)]
           F == CHOOSE i : isIter(i)
<1>1. SumFunctionOnSet(fun, S) = F[S]
  BY DEF SumFunctionOnSet, FoldFunctionOnSet, MapThenFoldSet
<1>2. h \in [SUBSET S -> Nat] /\ h[{}] = 0
      /\ \A T \in SUBSET S : \A x \in T : h[T] = fun[x] + h[T \ {x}]
  BY DEF Adds
<1>3. isIter(h)
  <2>1. ASSUME NEW T \in SUBSET S, T # {} PROVE h[T] = val(h, T)
    <3>1. (CHOOSE x \in T : TRUE) \in T BY <2>1
    <3> QED BY <1>2, <3>1
  <2> HIDE DEF val
  <2> QED BY <1>2, <2>1
<1>4. isIter(F) BY <1>3
<1> HIDE DEF F
<1> DEFINE P == {T \in SUBSET S : F[T] = h[T]}
           pick(T) == CHOOSE x \in T : TRUE
<1>5. \A T \in SUBSET S : T # {} => pick(T) \in T /\ F[T] = fun[pick(T)] + F[T \ {pick(T)}]
  BY <1>4
<1>6. F[{}] = 0 BY <1>4
<1> HIDE DEF pick
<1>7. SUBSET S \subseteq P
  <2> DEFINE bad == (SUBSET S) \ P
  <2>1. SUFFICES ASSUME bad # {} PROVE FALSE OBVIOUS
  <2>2. bad \subseteq FiniteSubsetsOf(S) BY FS_FiniteSubsetsOfFinite
  <2> HIDE DEF bad
  <2>3. PICK T \in bad : \A U \in bad : <<U, T>> \notin StrictSubsetOrdering(S)
    BY <2>1, <2>2, FS_StrictSubsetOrderingWellFounded, WFMin
  <2>4. T \in SUBSET S /\ F[T] # h[T] BY DEF bad
  <2>5. T # {} BY <1>2, <1>6, <2>4
  <2> DEFINE x == pick(T)
             U == T \ {x}
  <2>6. x \in T /\ F[T] = fun[x] + F[U] /\ h[T] = fun[x] + h[U] BY <1>2, <1>5, <2>4, <2>5
  <2>7. U \in SUBSET S /\ U \subseteq T /\ U # T BY <2>4, <2>6
  <2> HIDE DEF x, U
  <2>8. <<U, T>> \in StrictSubsetOrdering(S)
    <3>1. <<U, T>> \in (SUBSET S) \X (SUBSET S) BY <2>4, <2>7
    <3> QED BY <2>7, <3>1 DEF StrictSubsetOrdering
  <2>9. U \notin bad BY <2>3, <2>8
  <2>10. F[U] = h[U] BY <2>7, <2>9 DEF bad
  <2> QED BY <2>4, <2>6, <2>10
<1> QED BY <1>1, <1>7

-----------------------------------------------------------------------------
\* Sums of natural numbers over a finite set.
LEMMA SumNone == \A fun : SumFunctionOnSet(fun, {}) = 0
<1> SUFFICES ASSUME NEW fun PROVE SumFunctionOnSet(fun, {}) = 0 OBVIOUS
<1>1. IsFiniteSet({}) BY FS_EmptySet
<1>2. PICK h : Adds(h, fun, {}) BY <1>1, AddsThere
<1> QED BY <1>1, <1>2, SumAdds DEF Adds

LEMMA SumPart ==
  ASSUME NEW S, IsFiniteSet(S), NEW fun, NEW h, Adds(h, fun, S), NEW A \in SUBSET S
  PROVE  SumFunctionOnSet(fun, A) = h[A]
<1> DEFINE k == [T \in SUBSET A |-> h[T]]
<1>1. IsFiniteSet(A) BY FS_Subset
<1>2. \A T \in SUBSET A : T \in SUBSET S OBVIOUS
<1>3. \A T \in SUBSET A : k[T] = h[T] OBVIOUS
<1>4. k \in [SUBSET A -> Nat] BY <1>2 DEF Adds
<1> HIDE DEF k
<1>5. Adds(k, fun, A)
  <2>1. k[{}] = 0 BY <1>3 DEF Adds
  <2>2. \A T \in SUBSET A : \A x \in T : k[T] = fun[x] + k[T \ {x}]
    <3> SUFFICES ASSUME NEW T \in SUBSET A, NEW x \in T PROVE k[T] = fun[x] + k[T \ {x}] OBVIOUS
    <3>1. T \ {x} \in SUBSET A OBVIOUS
    <3>2. h[T] = fun[x] + h[T \ {x}] BY <1>2 DEF Adds
    <3> QED BY <1>3, <3>1, <3>2
  <2> QED BY <1>4, <2>1, <2>2 DEF Adds
<1>6. SumFunctionOnSet(fun, A) = k[A] BY <1>1, <1>5, SumAdds
<1> QED BY <1>3, <1>6

LEMMA SumSame ==
  ASSUME NEW S, IsFiniteSet(S), NEW fun, NEW gun, \A x \in S : fun[x] \in Nat /\ gun[x] = fun[x]
  PROVE  SumFunctionOnSet(fun, S) = SumFunctionOnSet(gun, S)
<1>1. PICK h : Adds(h, fun, S) BY AddsThere
<1>2. PICK k : Adds(k, gun, S) BY AddsThere
<1>3. SumFunctionOnSet(fun, S) = h[S] /\ SumFunctionOnSet(gun, S) = k[S] BY <1>1, <1>2, SumAdds
<1>4. \A T \in SUBSET S : h[T] = k[T]
  <2>1. \A x \in S : fun[x] = gun[x] OBVIOUS
  <2> QED BY <1>1, <1>2, <2>1, AddsOne
<1> QED BY <1>3, <1>4

LEMMA SumNat ==
  ASSUME NEW S, IsFiniteSet(S), NEW fun, \A x \in S : fun[x] \in Nat
  PROVE  /\ SumFunctionOnSet(fun, S) \in Nat
         /\ \A x \in S : SumFunctionOnSet(fun, S) = fun[x] + SumFunctionOnSet(fun, S \ {x})
<1>1. PICK h : Adds(h, fun, S) BY AddsThere
<1>2. h \in [SUBSET S -> Nat] /\ \A x \in S : h[S] = fun[x] + h[S \ {x}] BY <1>1 DEF Adds
<1>3. \A A \in SUBSET S : SumFunctionOnSet(fun, A) = h[A] BY <1>1, SumPart
<1>4. SumFunctionOnSet(fun, S) = h[S] /\ h[S] \in Nat BY <1>2, <1>3
<1>5. \A x \in S : SumFunctionOnSet(fun, S \ {x}) = h[S \ {x}] BY <1>3
<1> QED BY <1>2, <1>4, <1>5

LEMMA SumMore ==
  ASSUME NEW S, IsFiniteSet(S), NEW fun, \A x \in S : fun[x] \in Nat, NEW A \in SUBSET S
  PROVE  SumFunctionOnSet(fun, A) <= SumFunctionOnSet(fun, S)
<1>1. PICK h : Adds(h, fun, S) BY AddsThere
<1>2. h \in [SUBSET S -> Nat] BY <1>1 DEF Adds
<1>3. SumFunctionOnSet(fun, A) = h[A] /\ SumFunctionOnSet(fun, S) = h[S] BY <1>1, SumPart
<1> DEFINE R == S \ A
           P == {T \in SUBSET R : h[A] <= h[A \cup T]}
<1>4. IsFiniteSet(R) BY FS_Difference
<1>5. {} \in P
  <2>1. A \cup {} = A /\ h[A] \in Nat BY <1>2
  <2> QED BY <2>1
<1>6. ASSUME NEW T \in SUBSET R, NEW x \in R \ T, T \in P PROVE T \cup {x} \in P
  <2> DEFINE U == A \cup (T \cup {x})
  <2>1. U \in SUBSET S /\ x \in U /\ U \ {x} = A \cup T /\ A \cup T \in SUBSET S BY <1>6
  <2>2. h[U] = fun[x] + h[A \cup T] BY <1>1, <2>1 DEF Adds
  <2>3. h[A] \in Nat /\ h[A \cup T] \in Nat /\ fun[x] \in Nat /\ h[A] <= h[A \cup T]
    BY <1>2, <1>6, <2>1
  <2>4. h[A] <= h[U] BY <2>2, <2>3
  <2> QED BY <1>6, <2>4
<1>7. R \in P
  <2> HIDE DEF P, R
  <2>1. SUBSET R \subseteq P BY <1>4, <1>5, <1>6, BySize
  <2> QED BY <2>1
<1>8. A \cup R = S OBVIOUS
<1>9. h[A] <= h[S] BY <1>7, <1>8
<1> QED BY <1>3, <1>9

-----------------------------------------------------------------------------
(* Drives: WindowsDrives and LinuxDrives.                                   *)

\* Windows: one read of a device is outstanding at most, and what is listed and not
\* sized is what answered that it holds no media.
WindowsPasses ==
  [at : {"idle", "sizes", "spaces"}, listed : SUBSET Slots, sized : SUBSET Slots,
   asked : SUBSET Volumes, failed : SUBSET Slots]

WindowsInv ==
  /\ reads \in [Windows!Keys -> {0, 1}]
  /\ lastRead \in [Windows!Keys -> {"never", "ok", "failed"}]
  /\ discovery \in WindowsPasses
  /\ discovery.at = "spaces" => discovery.sized = discovery.listed \ discovery.failed
  /\ rows.set => rows.drives = rows.seen \ rows.failed

LEMMA WindowsIdle ==
  LET i == Windows!Idle
  IN i \in WindowsPasses /\ i.at = "idle"
BY DEF Windows!Idle, WindowsPasses

LEMMA WindowsFirst == ASSUME Windows!Init PROVE WindowsInv
<1>1. /\ reads = [k \in Windows!Keys |-> 0] /\ lastRead = [k \in Windows!Keys |-> "never"]
      /\ discovery = Windows!Idle /\ rows = Windows!NoRows
  BY DEF Windows!Init
<1>2. ~rows.set BY <1>1 DEF Windows!NoRows
<1> QED BY <1>1, <1>2, WindowsIdle DEF WindowsInv

LEMMA StartedIs ==
  ASSUME WindowsInv, NEW keys
  PROVE  Windows!Started(keys) \in [Windows!Keys -> {0, 1}]
BY DEF WindowsInv, Windows!Started

LEMMA IdentifiedIs ==
  ASSUME NEW l \in SUBSET Slots
  PROVE  LET i == [Windows!Idle EXCEPT !.at = "sizes", !.listed = l]
         IN i \in WindowsPasses /\ i.at = "sizes"
BY DEF Windows!Idle, WindowsPasses

LEMMA WindowsStep == ASSUME WindowsInv, Windows!Next PROVE WindowsInv'
<1>1. /\ reads \in [Windows!Keys -> {0, 1}]
      /\ lastRead \in [Windows!Keys -> {"never", "ok", "failed"}]
      /\ discovery \in WindowsPasses
      /\ discovery.at = "spaces" => discovery.sized = discovery.listed \ discovery.failed
      /\ rows.set => rows.drives = rows.seen \ rows.failed
  BY DEF WindowsInv
<1>2. ASSUME NEW s, NEW d, Windows!Plug(s, d) PROVE WindowsInv'
  BY <1>1, <1>2 DEF Windows!Plug, WindowsInv
<1>3. ASSUME NEW k \in Windows!Keys, Windows!Answer(k) PROVE WindowsInv'
  <2>1. /\ reads[k] > 0 /\ reads' = [reads EXCEPT ![k] = @ - 1]
        /\ lastRead' = [lastRead EXCEPT ![k] = IF Windows!Answers(k) THEN "ok" ELSE "failed"]
        /\ discovery' = discovery /\ rows' = rows
    BY <1>3 DEF Windows!Answer
  <2>2. reads[k] - 1 = 0
    <3>1. reads[k] \in {0, 1} BY <1>1
    <3> QED BY <2>1, <3>1
  <2>3. reads' \in [Windows!Keys -> {0, 1}] BY <1>1, <2>1, <2>2
  <2>4. lastRead' \in [Windows!Keys -> {"never", "ok", "failed"}] BY <1>1, <2>1
  <2> QED BY <1>1, <2>1, <2>3, <2>4 DEF WindowsInv
<1>4. CASE Windows!Identify
  <2> DEFINE l == {s \in Slots : drive[s].present /\ ~drive[s].excluded}
  <2>1. /\ discovery' = [Windows!Idle EXCEPT !.at = "sizes", !.listed = l]
        /\ reads' = Windows!Started(l) /\ lastRead' = lastRead /\ rows' = rows
    BY <1>4 DEF Windows!Identify
  <2>2. l \in SUBSET Slots OBVIOUS
  <2> HIDE DEF l
  <2>3. discovery' \in WindowsPasses /\ discovery'.at = "sizes" BY <2>1, <2>2, IdentifiedIs
  <2> QED BY <1>1, <2>1, <2>3, StartedIs DEF WindowsInv
<1>5. CASE Windows!Sized
  <2> DEFINE s == {k \in discovery.listed : lastRead[k] # "failed"}
             f == {k \in discovery.listed : lastRead[k] = "failed"}
             a == {v \in Volumes : on[v] \cap s # {} /\ Windows!There(v)}
  <2>1. /\ discovery' = [discovery EXCEPT !.at = "spaces", !.sized = s, !.asked = a, !.failed = f]
        /\ reads' = Windows!Started(a) /\ lastRead' = lastRead /\ rows' = rows
    BY <1>5 DEF Windows!Sized, Windows!Result
  <2>2. discovery.listed \in SUBSET Slots BY <1>1 DEF WindowsPasses
  <2>3. s \in SUBSET Slots /\ f \in SUBSET Slots /\ a \in SUBSET Volumes BY <2>2
  <2>4. s = discovery.listed \ f OBVIOUS
  <2> HIDE DEF s, f, a
  <2>5. /\ discovery' \in WindowsPasses /\ discovery'.sized = s /\ discovery'.failed = f
        /\ discovery'.listed = discovery.listed
    <3>1. discovery \in WindowsPasses BY <1>1
    <3> QED BY <2>1, <2>3, <3>1 DEF WindowsPasses
  <2> QED BY <1>1, <2>1, <2>4, <2>5, StartedIs DEF WindowsInv
<1>6. CASE Windows!Publish
  <2>1. /\ discovery.at = "spaces" /\ rows'.drives = discovery.sized
             /\ rows'.seen = discovery.listed
        /\ rows'.failed = discovery.failed /\ discovery' = Windows!Idle
        /\ reads' = reads /\ lastRead' = lastRead
    BY <1>6 DEF Windows!Publish
  <2> QED BY <1>1, <2>1, WindowsIdle DEF WindowsInv
<1>7. CASE Windows!WindowsDisks BY <1>1, <1>7 DEF Windows!WindowsDisks, WindowsInv
<1> QED BY <1>2, <1>3, <1>4, <1>5, <1>6, <1>7 DEF Windows!Next

LEMMA WindowsSound == ASSUME WindowsInv PROVE Windows!SilentDriveStaysListed
<1>1. \A k \in Windows!Keys : reads[k] \in {0, 1} BY DEF WindowsInv
<1>2. \A k \in Windows!Keys : reads[k] <= 1 BY <1>1
<1> QED BY <1>2 DEF WindowsInv, Windows!SilentDriveStaysListed

-----------------------------------------------------------------------------
\* Linux: the mount table is one.
Mounts == [part : Parts, place : Linux!Places]

LinuxInv ==
  /\ hardware \in [Drives -> [attached : {"direct", "usb", "virtual"},
                              sensor : BOOLEAN, excluded : BOOLEAN]]
  /\ holds \in [Parts -> Drives \cup {"mapped"}]
  /\ size \in [Parts -> Sizes]
  /\ table \in Seq(Mounts)

LEMMA LinuxFirst == ASSUME Linux!Init PROVE LinuxInv
BY DEF Linux!Init, LinuxInv

LEMMA LinuxStep == ASSUME LinuxInv, Linux!Next PROVE LinuxInv'
<1>1. ASSUME NEW p \in Parts, NEW place \in Linux!Places, Linux!Mount(p, place) PROVE LinuxInv'
  <2>1. table' = Append(table, [part |-> p, place |-> place])
        /\ hardware' = hardware /\ holds' = holds /\ size' = size
    BY <1>1 DEF Linux!Mount
  <2>2. [part |-> p, place |-> place] \in Mounts BY DEF Mounts
  <2>3. table' \in Seq(Mounts) BY <2>1, <2>2 DEF LinuxInv
  <2> QED BY <2>1, <2>3 DEF LinuxInv
<1>2. ASSUME NEW i \in DOMAIN table, Linux!Unmount(i) PROVE LinuxInv'
  <2>1. table' = SubSeq(table, 1, i - 1) \o SubSeq(table, i + 1, Len(table))
        /\ hardware' = hardware /\ holds' = holds /\ size' = size
    BY <1>2 DEF Linux!Unmount, Linux!RemoveAt
  <2>2. table \in Seq(Mounts) BY DEF LinuxInv
  <2>3. SubSeq(table, 1, i - 1) \in Seq(Mounts)
          /\ SubSeq(table, i + 1, Len(table)) \in Seq(Mounts)
    <3>1. \A j \in 1 .. Len(table) : table[j] \in Mounts BY <2>2
    <3>2. i \in 1 .. Len(table) /\ Len(table) \in Nat BY <2>2
    <3>3. \A j \in 1 .. i - 1 : table[j] \in Mounts BY <3>1, <3>2
    <3>4. \A j \in i + 1 .. Len(table) : table[j] \in Mounts BY <3>1, <3>2
    <3> QED BY <2>2, <3>2, <3>3, <3>4
  <2>4. table' \in Seq(Mounts) BY <2>1, <2>3
  <2> QED BY <2>1, <2>4 DEF LinuxInv
<1>3. ASSUME NEW places, Linux!Fail(places) PROVE LinuxInv'
  BY <1>3 DEF Linux!Fail, LinuxInv
<1> QED BY <1>1, <1>2, <1>3 DEF Linux!Next

LEMMA PlaceDepths ==
  ASSUME NEW a \in Linux!Places, NEW b \in Linux!Places, a # b
  PROVE  Linux!IsMoreRootMountpoint(a, b) \/ Linux!IsMoreRootMountpoint(b, a)
<1>1. Linux!Depth["/"] = 0 /\ Linux!Depth["/srv"] = 1 /\ Linux!Depth["/run/lock"] = 2
      /\ Linux!Depth["/run/media/disk"] = 3
  BY DEF Linux!Depth, Linux!Places
<1> QED BY <1>1 DEF Linux!IsMoreRootMountpoint, Linux!Places

LEMMA LinuxTotals ==
  ASSUME LinuxInv, NEW A \in SUBSET Parts, NEW B \in SUBSET A
  PROVE  Linux!Total(B) <= Linux!Total(A)
<1>1. IsFiniteSet(Parts)
  <2>1. \A S : Linux!IsFiniteSet(S) = IsFiniteSet(S) BY Zenon DEF Linux!IsFiniteSet, IsFiniteSet
  <2> QED BY <2>1, DrivesAssumed DEF Linux!LinuxDrivesAssumption
<1>2. IsFiniteSet(A) BY <1>1, FS_Subset
<1>3. \A p \in A : size[p] \in Nat BY DrivesAssumed DEF LinuxInv, Linux!LinuxDrivesAssumption
<1>4. SumFunctionOnSet(size, B) <= SumFunctionOnSet(size, A) BY <1>2, <1>3, SumMore
<1>5. \A S : Linux!Total(S) = SumFunctionOnSet(size, S)
  BY Zenon DEF Linux!Total, Linux!SumFunctionOnSet, Linux!FoldFunctionOnSet, Linux!MapThenFoldSet,
     SumFunctionOnSet, FoldFunctionOnSet, MapThenFoldSet
<1> QED BY <1>4, <1>5

LEMMA TableIs ==
  ASSUME LinuxInv
  PROVE  /\ DOMAIN table \subseteq Nat
         /\ \A i \in DOMAIN table : table[i] \in Mounts /\ table[i].part \in Parts
                                    /\ table[i].place \in Linux!Places
         /\ Linux!ToSet(table) = {table[i] : i \in DOMAIN table}
<1>1. table \in Seq(Mounts) BY DEF LinuxInv
<1>2. DOMAIN table \subseteq Nat /\ \A i \in DOMAIN table : table[i] \in Mounts BY <1>1
<1>3. \A m \in Mounts : m.part \in Parts /\ m.place \in Linux!Places BY DEF Mounts
<1> QED BY <1>2, <1>3 DEF Linux!ToSet

LEMMA CountedIsMounted ==
  ASSUME LinuxInv, NEW d
  PROVE  /\ Linux!Counted(d) \subseteq Linux!MountedOn(d)
         /\ failing = {} => Linux!MountedOn(d) \subseteq Linux!Counted(d)
         /\ Linux!MountedOn(d) \in SUBSET Parts
<1> DEFINE mounts == {i \in DOMAIN table :
                        Linux!ShouldIncludeStorageMount(table[i]) /\ holds[table[i].part] = d}
           isFirst(i) == \A j \in mounts : table[j].part = table[i].part => i <= j
<1>1. Linux!Counted(d) =
        {table[i].part : i \in {k \in mounts : isFirst(k) /\ table[k].place \notin failing}}
  BY DEF Linux!Counted, Linux!SeenAs
<1>2. \A i \in DOMAIN table :
        Linux!ShouldIncludeStorageMount(table[i]) <=> table[i].place # "/run/lock"
  BY TableIs DEF Linux!ShouldIncludeStorageMount, Linux!ShouldIncludeMount, Linux!Places
<1>3. Linux!Counted(d) \subseteq Linux!MountedOn(d)
  <2> SUFFICES ASSUME NEW i \in mounts PROVE table[i].part \in Linux!MountedOn(d)
    BY <1>1
  <2> QED BY <1>2, TableIs DEF Linux!MountedOn
<1>4. ASSUME failing = {}, NEW p \in Linux!MountedOn(d) PROVE p \in Linux!Counted(d)
  <2> DEFINE places == {i \in mounts : table[i].part = p}
  <2>1. places # {} BY <1>2 DEF Linux!MountedOn
  <2>2. places \in SUBSET Nat BY TableIs
  <2> HIDE DEF places
  <2>3. PICK i \in places : \A j \in places : <<j, i>> \notin OpToRel(<, Nat)
    BY <2>1, <2>2, NatLessThanWellFounded, WFMin
  <2>4. \A j \in places : i <= j
    <3> SUFFICES ASSUME NEW j \in places, ~(i <= j) PROVE FALSE OBVIOUS
    <3>1. j < i /\ j \in Nat /\ i \in Nat BY <2>2
    <3> QED BY <2>3, <3>1 DEF OpToRel
  <2>5. i \in mounts /\ table[i].part = p /\ isFirst(i) BY <2>4 DEF places
  <2> HIDE DEF mounts
  <2> QED BY <1>1, <1>4, <2>5
<1>5. Linux!MountedOn(d) \in SUBSET Parts BY DEF Linux!MountedOn
<1> QED BY <1>3, <1>4, <1>5

LEMMA CapacityOnce == ASSUME LinuxInv PROVE Linux!CapacityCountedOnce
<1>1. ASSUME NEW d PROVE /\ Linux!Total(Linux!Counted(d)) <= Linux!Total(Linux!MountedOn(d))
                         /\ failing = {} =>
                                Linux!Total(Linux!Counted(d)) = Linux!Total(Linux!MountedOn(d))
  <2>1. Linux!Total(Linux!Counted(d)) <= Linux!Total(Linux!MountedOn(d))
    BY CountedIsMounted, LinuxTotals
  <2>2. failing = {} => Linux!Counted(d) = Linux!MountedOn(d) BY CountedIsMounted
  <2> QED BY <2>1, <2>2
<1>2. ASSUME NEW m \in Linux!DiskRows, NEW n \in Linux!DiskRows, m.part = n.part PROVE m = n
  <2> DEFINE T == {x \in Linux!ToSet(table) : Linux!ShouldIncludeMount(x)}
  <2>1. /\ m \in T /\ n \in T
        /\ ~Linux!IsMoreRootMountpoint(n.place, m.place)
        /\ ~Linux!IsMoreRootMountpoint(m.place, n.place)
    BY <1>2 DEF Linux!DiskRows, Linux!CollapseMountsByDevice
  <2>2. m \in Mounts /\ n \in Mounts BY <2>1, TableIs
  <2> HIDE DEF T
  <2>3. m.place \in Linux!Places /\ n.place \in Linux!Places BY <2>2 DEF Mounts
  <2>4. m.place = n.place BY <2>1, <2>3, PlaceDepths
  <2> QED BY <1>2, <2>2, <2>4 DEF Mounts
<1> QED BY <1>1, <1>2 DEF Linux!CapacityCountedOnce

LEMMA FaultsAreIssues == ASSUME LinuxInv PROVE Linux!OnlyFaultsAreIssues
<1>1. \A d \in Linux!Devices : d \in Drives
        /\ hardware[d].attached \in {"direct", "usb", "virtual"}
                               /\ hardware[d].sensor \in BOOLEAN
  BY DEF Linux!Devices, LinuxInv
<1>2. ASSUME failing = {}, Linux!DiskRows # {}, Linux!Devices # {},
             \A d \in Linux!Devices : hardware[d].sensor \/ hardware[d].attached # "direct"
      PROVE  Linux!CollectionErrors = {}
  <2>1. \A d \in Linux!Devices :
          Linux!CapacityGap(d) = "none" \/ Linux!IsExpectedStorageCondition(Linux!CapacityGap(d))
    BY DEF Linux!CapacityGap, Linux!IsExpectedStorageCondition
  <2>2. ASSUME NEW d \in Linux!Devices
        PROVE  Linux!TemperatureGap(d) = "none"
               \/ Linux!IsExpectedStorageCondition(Linux!TemperatureGap(d))
    <3>1. CASE hardware[d].sensor
      <4>1. Linux!TemperatureGap(d) = "none" BY <3>1 DEF Linux!TemperatureGap
      <4> QED BY <4>1
    <3>2. CASE ~hardware[d].sensor /\ hardware[d].attached = "usb"
      <4>1. Linux!TemperatureGap(d) = "usb enclosure" BY <3>2 DEF Linux!TemperatureGap
      <4> QED BY <4>1 DEF Linux!IsExpectedStorageCondition
    <3>3. CASE ~hardware[d].sensor /\ hardware[d].attached = "virtual"
      <4>1. Linux!TemperatureGap(d) = "virtual disk" BY <3>3 DEF Linux!TemperatureGap
      <4> QED BY <4>1 DEF Linux!IsExpectedStorageCondition
    <3> QED BY <1>1, <1>2, <3>1, <3>2, <3>3
  <2>3. \A g \in Linux!StorageGaps : Linux!IsExpectedStorageCondition(g[3])
    <3> SUFFICES ASSUME NEW g \in Linux!Gaps, g[3] # "none"
                 PROVE  Linux!IsExpectedStorageCondition(g[3])
      BY DEF Linux!StorageGaps
    <3>1. CASE \E d \in Linux!Devices : g = <<d, "capacity", Linux!CapacityGap(d)>> BY <2>1, <3>1
    <3>2. CASE \E d \in Linux!Devices : g = <<d, "temperature", Linux!TemperatureGap(d)>>
      BY <2>2, <3>2
    <3> QED BY <3>1, <3>2 DEF Linux!Gaps
  <2> QED BY <1>2, <2>3 DEF Linux!CollectionErrors
<1>3. ASSUME NEW d \in Linux!Devices, ~hardware[d].sensor, hardware[d].attached = "direct"
      PROVE  \E e \in Linux!CollectionErrors : e[1] = d /\ e[2] = "temperature"
  <2> DEFINE e == <<d, "temperature", "no sensor exposed">>
  <2>1. Linux!TemperatureGap(d) = "no sensor exposed" BY <1>3 DEF Linux!TemperatureGap
  <2>2. e \in Linux!Gaps BY <2>1 DEF Linux!Gaps
  <2>3. e[1] = d /\ e[2] = "temperature" /\ e[3] = "no sensor exposed" OBVIOUS
  <2>4. e[3] # "none" /\ ~Linux!IsExpectedStorageCondition(e[3])
    BY <2>3 DEF Linux!IsExpectedStorageCondition
  <2> HIDE DEF e
  <2>5. e \in Linux!CollectionErrors
          BY <1>3, <2>2, <2>4 DEF Linux!StorageGaps, Linux!CollectionErrors
  <2> QED BY <2>3, <2>5
<1> QED BY <1>2, <1>3 DEF Linux!OnlyFaultsAreIssues

DriveInv == WindowsInv /\ LinuxInv

-----------------------------------------------------------------------------
(* Token counts: TokenCounts.                                               *)

\* The records of the transcripts, and what they say was used on a day.
RecSet == [day : Tokens!Calendar, request : Nat, tokens : Nat]
SumAll(f) == SumFunctionOnSet(f, DOMAIN f)

LEMMA TokenConstants ==
  IsFiniteSet(Files) /\ Days \in Nat /\ Days # 0 /\ MaxDay \in Nat /\ MaxDay # 0
<1>1. \A S : Tokens!IsFiniteSet(S) = IsFiniteSet(S) BY Zenon DEF Tokens!IsFiniteSet, IsFiniteSet
<1> QED BY <1>1, TokensAssumed DEF Tokens!TokenAssumption

LEMMA TokenSum == \A f : Tokens!SumFunction(f) = SumAll(f)
BY Zenon DEF SumAll, Tokens!SumFunction, Tokens!SumFunctionOnSet, Tokens!FoldFunctionOnSet,
   Tokens!MapThenFoldSet, SumFunctionOnSet, FoldFunctionOnSet, MapThenFoldSet

\* One more element in the domain of a sum.
Extends(g, f, x) ==
  /\ IsFiniteSet(DOMAIN f) /\ x \notin DOMAIN f /\ DOMAIN g = DOMAIN f \cup {x}
  /\ g[x] \in Nat /\ \A y \in DOMAIN f : f[y] \in Nat /\ g[y] = f[y]

LEMMA SumExtended ==
  \A f, g, x : Extends(g, f, x) => SumAll(f) \in Nat /\ SumAll(g) = SumAll(f) + g[x]
<1> SUFFICES ASSUME NEW f, NEW g, NEW x, Extends(g, f, x)
             PROVE  SumAll(f) \in Nat /\ SumAll(g) = SumAll(f) + g[x]
  OBVIOUS
<1> DEFINE S == DOMAIN f
           V == DOMAIN g
<1>1. /\ IsFiniteSet(S) /\ x \notin S /\ V = S \cup {x}
      /\ g[x] \in Nat /\ \A y \in S : f[y] \in Nat /\ g[y] = f[y]
  BY DEF Extends
<1> HIDE DEF S, V
<1>2. IsFiniteSet(V) BY <1>1, FS_AddElement
<1>3. x \in V /\ V \ {x} = S /\ \A y \in V : g[y] \in Nat BY <1>1
<1>4. SumFunctionOnSet(g, V) = g[x] + SumFunctionOnSet(g, S) BY <1>2, <1>3, SumNat
<1>5. SumFunctionOnSet(f, S) = SumFunctionOnSet(g, S) BY <1>1, SumSame
<1>6. SumFunctionOnSet(f, S) \in Nat BY <1>1, SumNat
<1> QED BY <1>1, <1>4, <1>5, <1>6 DEF SumAll, S, V

LEMMA SumsSame ==
  ASSUME NEW f, NEW g, DOMAIN f = DOMAIN g, IsFiniteSet(DOMAIN f),
         \A y \in DOMAIN f : f[y] \in Nat /\ g[y] = f[y]
  PROVE  SumAll(f) \in Nat /\ SumAll(g) = SumAll(f)
BY SumSame, SumNat DEF SumAll

\* One value of a sum changes by n.
LEMMA SumRaised ==
  ASSUME NEW S, IsFiniteSet(S), NEW x \in S, NEW n \in Nat, NEW f, NEW g, DOMAIN f = S,
           DOMAIN g = S,
         \A y \in S : f[y] \in Nat, \A y \in S \ {x} : g[y] = f[y], g[x] = f[x] + n
  PROVE  SumAll(g) = SumAll(f) + n
<1>1. IsFiniteSet(S \ {x}) BY FS_RemoveElement
<1>2. \A y \in S : g[y] \in Nat
  <2> SUFFICES ASSUME NEW y \in S PROVE g[y] \in Nat OBVIOUS
  <2>1. CASE y = x
    <3>1. f[x] \in Nat OBVIOUS
    <3> QED BY <2>1, <3>1
  <2>2. CASE y # x BY <2>2
  <2> QED BY <2>1, <2>2
<1>3. SumFunctionOnSet(f, S) = f[x] + SumFunctionOnSet(f, S \ {x}) BY SumNat
<1>4. SumFunctionOnSet(g, S) = g[x] + SumFunctionOnSet(g, S \ {x}) BY <1>2, SumNat
<1>5. SumFunctionOnSet(f, S \ {x}) = SumFunctionOnSet(g, S \ {x})
        /\ SumFunctionOnSet(f, S \ {x}) \in Nat
  BY <1>1, SumSame, SumNat
<1>6. f[x] \in Nat OBVIOUS
<1> QED BY <1>3, <1>4, <1>5, <1>6 DEF SumAll

\* The types of the transcripts.
Transcripts ==
  /\ codex \in BOOLEAN /\ today \in Tokens!Calendar
  /\ records \in [Files -> Seq(RecSet)]
  /\ touched \in [Files -> Nat] /\ \A f \in Files : touched[f] <= today
  /\ \A f \in Files : \A i \in DOMAIN records[f] :
       records[f][i].day <= touched[f] /\ records[f][i].request <= Tokens!Records
  /\ used \in [Tokens!Calendar -> Nat]
  /\ ~codex => restarted = {}

All == UNION {Tokens!ToSet(records[f]) : f \in Files}
Entries == UNION {{f} \X DOMAIN records[f] : f \in Files}

\* What is in the transcripts is what was used.
TokenInv ==
  /\ Transcripts
  /\ \A d \in Tokens!Calendar :
       IF codex THEN /\ Tokens!Grown(Files, d) <= used[d]
                     /\ restarted = {} => Tokens!Grown(Files, d) = used[d]
       ELSE Tokens!Spent(All, d) = used[d]
  /\ Tokens!TokensCountedOnce

LEMMA LinesOf ==
  ASSUME Transcripts, NEW f \in Files
  PROVE  /\ records[f] \in Seq(RecSet) /\ Len(records[f]) \in Nat
         /\ DOMAIN records[f] = 1 .. Len(records[f])
         /\ \A i \in DOMAIN records[f] :
              /\ records[f][i] \in RecSet /\ records[f][i].day \in Tokens!Calendar
              /\ records[f][i].request \in Nat /\ records[f][i].tokens \in Nat
         /\ Tokens!ToSet(records[f]) = {records[f][i] : i \in DOMAIN records[f]}
<1>1. records[f] \in Seq(RecSet) BY DEF Transcripts
<1>2. Len(records[f]) \in Nat /\ DOMAIN records[f] = 1 .. Len(records[f])
      /\ \A i \in DOMAIN records[f] : records[f][i] \in RecSet
  BY <1>1
<1>3. \A r \in RecSet : r.day \in Tokens!Calendar /\ r.request \in Nat /\ r.tokens \in Nat
  BY DEF RecSet
<1> QED BY <1>1, <1>2, <1>3 DEF Tokens!ToSet

LEMMA AllIs ==
  ASSUME Transcripts
  PROVE  /\ IsFiniteSet(All) /\ All \subseteq RecSet
         /\ All = {records[e[1]][e[2]] : e \in Entries}
<1>1. All \subseteq RecSet
  <2> SUFFICES ASSUME NEW f \in Files, NEW r \in Tokens!ToSet(records[f]) PROVE r \in RecSet
    BY DEF All
  <2>1. PICK i \in DOMAIN records[f] : r = records[f][i] BY LinesOf
  <2> QED BY <2>1, LinesOf
<1>2. ASSUME NEW f \in Files PROVE IsFiniteSet(Tokens!ToSet(records[f]))
  <2> DEFINE s == records[f]
  <2>1. DOMAIN s = 1 .. Len(s) /\ Len(s) \in Nat /\ Tokens!ToSet(s) = {s[i] : i \in DOMAIN s}
        /\ s \in Seq(RecSet)
    BY LinesOf
  <2> HIDE DEF s
  <2>2. s \in [1 .. Len(s) -> Tokens!ToSet(s)] BY <2>1
  <2>3. s \in Surjection(1 .. Len(s), Tokens!ToSet(s)) BY <2>1, <2>2 DEF Surjection
  <2>4. ExistsSurjection(1 .. Len(s), Tokens!ToSet(s)) BY <2>3 DEF ExistsSurjection
  <2> QED BY <2>1, <2>4, FS_NatSurjection DEF s
<1>3. IsFiniteSet({Tokens!ToSet(records[f]) : f \in Files})
  <2> DEFINE T == {Tokens!ToSet(records[f]) : f \in Files}
             g == [f \in Files |-> Tokens!ToSet(records[f])]
  <2>1. g \in Surjection(Files, T) BY DEF Surjection
  <2> HIDE DEF T, g
  <2>2. IsFiniteSet(T) BY <2>1, FS_Surjection, TokenConstants
  <2> QED BY <2>2 DEF T
<1>4. IsFiniteSet(All) BY <1>2, <1>3, FS_UNION DEF All
<1>5. All = {records[e[1]][e[2]] : e \in Entries}
  <2>1. ASSUME NEW r \in All PROVE \E e \in Entries : r = records[e[1]][e[2]]
    <3>1. PICK f \in Files : r \in Tokens!ToSet(records[f]) BY DEF All
    <3>2. PICK i \in DOMAIN records[f] : r = records[f][i] BY <3>1, LinesOf
    <3>3. <<f, i>> \in Entries BY <3>1, <3>2 DEF Entries
    <3> QED BY <3>2, <3>3
  <2>2. ASSUME NEW e \in Entries PROVE records[e[1]][e[2]] \in All
    <3>1. PICK f \in Files : e \in {f} \X DOMAIN records[f] BY DEF Entries
    <3>2. e[1] = f /\ e[2] \in DOMAIN records[f] BY <3>1
    <3> QED BY <3>2, LinesOf DEF All
  <2> QED BY <2>1, <2>2
<1> QED BY <1>1, <1>4, <1>5

AllByEntries == All = {records[e[1]][e[2]] : e \in Entries}

LEMMA AllIsNext == Transcripts' => AllByEntries'
<1>1. Transcripts => AllByEntries BY AllIs DEF AllByEntries
<1> QED BY <1>1, PTL

LEMMA EntriesAre ==
  ASSUME Transcripts
  PROVE  /\ IsFiniteSet(Entries)
         /\ \A e : e \in Entries <=> /\ e = <<e[1], e[2]>> /\ e[1] \in Files
                                     /\ e[2] \in DOMAIN records[e[1]]
<1>1. ASSUME NEW f \in Files PROVE IsFiniteSet({f} \X DOMAIN records[f])
  <2>1. IsFiniteSet({f}) BY FS_Singleton
  <2>2. IsFiniteSet(DOMAIN records[f])
    <3>1. DOMAIN records[f] = 1 .. Len(records[f]) /\ Len(records[f]) \in Nat BY LinesOf
    <3> QED BY <3>1, FS_Interval
  <2> QED BY <2>1, <2>2, FS_Product
<1>2. IsFiniteSet({{f} \X DOMAIN records[f] : f \in Files})
  <2> DEFINE T == {{f} \X DOMAIN records[f] : f \in Files}
             g == [f \in Files |-> {f} \X DOMAIN records[f]]
  <2>1. g \in Surjection(Files, T) BY DEF Surjection
  <2> HIDE DEF T, g
  <2>2. IsFiniteSet(T) BY <2>1, FS_Surjection, TokenConstants
  <2> QED BY <2>2 DEF T
<1>3. IsFiniteSet(Entries) BY <1>1, <1>2, FS_UNION DEF Entries
<1> QED BY <1>3 DEF Entries

\* What a transcript grew by, record by record.
LEMMA GrowthIs ==
  ASSUME Transcripts, NEW f \in Files, NEW i \in DOMAIN records[f]
  PROVE  /\ Tokens!Growth(f, i) \in Nat
         /\ records[f][i].day \in Tokens!Calendar
<1>1. records[f][i].tokens \in Nat /\ records[f][i].day \in Tokens!Calendar BY LinesOf
<1>2. i \in Nat /\ i # 0 BY LinesOf
<1>3. i # 1 => records[f][i - 1].tokens \in Nat
  <2> SUFFICES ASSUME i # 1 PROVE records[f][i - 1].tokens \in Nat OBVIOUS
  <2>1. i - 1 \in DOMAIN records[f] BY LinesOf
  <2> QED BY <2>1, LinesOf
<1>4. \A m, n \in Nat : Tokens!Delta(m, n) \in Nat BY DEF Tokens!Delta
<1>5. 0 \in Nat OBVIOUS
<1>6. (IF i = 1 THEN 0 ELSE records[f][i - 1].tokens) \in Nat BY <1>3, <1>5
<1>7. Tokens!Growth(f, i) \in Nat BY <1>1, <1>4, <1>6 DEF Tokens!Growth
<1> QED BY <1>1, <1>7

Dated(d) == {e \in Entries : records[e[1]][e[2]].day = d}
Grows(d) == [e \in Dated(d) |-> Tokens!Growth(e[1], e[2])]

LEMMA GrownIs == \A d : Tokens!Grown(Files, d) = SumAll(Grows(d))
BY TokenSum DEF Tokens!Grown, Grows, Dated, Entries

LEMMA GrowsAre ==
  ASSUME Transcripts, NEW d
  PROVE  /\ IsFiniteSet(Dated(d)) /\ DOMAIN Grows(d) = Dated(d)
         /\ \A e \in Dated(d) : Grows(d)[e] = Tokens!Growth(e[1], e[2]) /\ Grows(d)[e] \in Nat
<1>1. Dated(d) \subseteq Entries BY DEF Dated
<1>2. IsFiniteSet(Dated(d)) BY <1>1, EntriesAre, FS_Subset
<1>3. ASSUME NEW e \in Dated(d) PROVE Tokens!Growth(e[1], e[2]) \in Nat
  <2>1. e[1] \in Files /\ e[2] \in DOMAIN records[e[1]] BY <1>1, EntriesAre
  <2> QED BY <2>1, GrowthIs
<1> QED BY <1>2, <1>3 DEF Grows

Made(d) == {r \in All : r.day = d}
Tells(d) == [r \in Made(d) |-> r.tokens]

LEMMA SpentIs == \A d : Tokens!Spent(All, d) = SumAll(Tells(d))
BY TokenSum DEF Tokens!Spent, Tells, Made

LEMMA TellsAre ==
  ASSUME Transcripts, NEW d
  PROVE  /\ IsFiniteSet(Made(d)) /\ DOMAIN Tells(d) = Made(d)
         /\ \A r \in Made(d) : Tells(d)[r] = r.tokens /\ r.tokens \in Nat
<1>1. Made(d) \subseteq All BY DEF Made
<1>2. IsFiniteSet(Made(d)) BY <1>1, AllIs, FS_Subset
<1>3. \A r \in Made(d) : r.tokens \in Nat BY <1>1, AllIs DEF RecSet
<1> QED BY <1>2, <1>3 DEF Tells

\* Nothing has been written yet.
LEMMA TokensFirst == Tokens!Init => TokenInv
<1> SUFFICES ASSUME Tokens!Init PROVE TokenInv OBVIOUS
<1>1. /\ codex \in BOOLEAN /\ today = 1 /\ restarted = {} /\ chart = Tokens!NoChart
      /\ records = [f \in Files |-> <<>>] /\ touched = [f \in Files |-> 0]
      /\ used = [d \in Tokens!Calendar |-> 0]
  BY DEF Tokens!Init
<1>2. 1 \in Tokens!Calendar BY TokenConstants DEF Tokens!Calendar
<1>3. <<>> \in Seq(RecSet) /\ DOMAIN <<>> = {}
  <2>1. DOMAIN <<>> = 1 .. Len(<<>>) /\ Len(<<>>) = 0 OBVIOUS
  <2> QED BY <2>1
<1>4. Transcripts
  <2>1. \A f \in Files : records[f] = <<>> /\ touched[f] = 0 BY <1>1
  <2>2. records \in [Files -> Seq(RecSet)]
    <3>1. \A f \in Files : records[f] \in Seq(RecSet) BY <2>1, <1>3
    <3> QED BY <3>1, <1>1
  <2>3. \A f \in Files : \A i \in DOMAIN records[f] : FALSE BY <2>1, <1>3
  <2>4. touched \in [Files -> Nat] /\ \A f \in Files : touched[f] <= today BY <1>1, <2>1
  <2>5. used \in [Tokens!Calendar -> Nat] BY <1>1
  <2> QED BY <1>1, <1>2, <2>2, <2>3, <2>4, <2>5 DEF Transcripts
<1>5. Entries = {}
  <2>1. \A f \in Files : DOMAIN records[f] = {} BY <1>1, <1>3
  <2>2. \A e : e \notin Entries BY <1>4, <2>1, EntriesAre
  <2> QED BY <2>2
<1>6. All = {} BY <1>4, <1>5, AllIs
<1>7. ASSUME NEW d \in Tokens!Calendar
      PROVE  Tokens!Grown(Files, d) = used[d] /\ Tokens!Spent(All, d) = used[d]
  <2>1. Dated(d) = {} /\ Made(d) = {} BY <1>5, <1>6 DEF Dated, Made
  <2>2. SumAll(Grows(d)) = 0 /\ SumAll(Tells(d)) = 0
    BY <1>4, <2>1, GrowsAre, TellsAre, SumNone DEF SumAll
  <2>3. used[d] = 0 BY <1>1
  <2> QED BY <2>2, <2>3, GrownIs, SpentIs
<1>8. \A d \in Tokens!Calendar : used[d] <= used[d]
  <2>1. \A d \in Tokens!Calendar : used[d] \in Nat BY <1>4 DEF Transcripts
  <2> QED BY <2>1
<1>9. Tokens!TokensCountedOnce BY <1>1 DEF Tokens!TokensCountedOnce
<1> QED BY <1>4, <1>7, <1>8, <1>9 DEF TokenInv

\* A record is appended to a transcript.
Written(f, r) ==
  /\ f \in Files /\ r \in RecSet
  /\ records' = [records EXCEPT ![f] = Append(@, r)]
  /\ touched' = [touched EXCEPT ![f] = today]
  /\ today' = today /\ codex' = codex

LEMMA RecordsCount ==
  ASSUME Transcripts
  PROVE  /\ Tokens!Records \in Nat
         /\ \A f, r : Written(f, r) => Tokens!Records' = Tokens!Records + 1
<1> DEFINE lens == [f \in Files |-> Len(records[f])]
<1>1. \A f \in Files : lens[f] \in Nat BY LinesOf
<1>2. Tokens!Records = SumAll(lens) BY TokenSum DEF Tokens!Records
<1>3. DOMAIN lens = Files OBVIOUS
<1>4. ASSUME NEW f, NEW r, Written(f, r) PROVE Tokens!Records' = Tokens!Records + 1
  <2> DEFINE more == [g \in Files |-> Len(records'[g])]
  <2>1. Tokens!Records' = SumAll(more)
    <3>1. Tokens!Records' = Tokens!SumFunction(more) BY DEF Tokens!Records
    <3> QED BY <3>1, TokenSum
  <2>2. f \in Files /\ DOMAIN more = Files BY <1>4 DEF Written
  <2>3. \A g \in Files \ {f} : more[g] = lens[g]
    <3>1. \A g \in Files \ {f} : records'[g] = records[g] BY <1>4 DEF Written, Transcripts
    <3> QED BY <3>1
  <2>4. more[f] = lens[f] + 1
    <3>1. records'[f] = Append(records[f], r) BY <1>4 DEF Written, Transcripts
    <3>2. records[f] \in Seq(RecSet) /\ r \in RecSet BY <1>4, <2>2, LinesOf DEF Written
    <3>3. Len(Append(records[f], r)) = Len(records[f]) + 1 BY <3>2
    <3> QED BY <2>2, <3>1, <3>3
  <2>5. 1 \in Nat OBVIOUS
  <2> HIDE DEF lens, more
  <2>6. SumAll(more) = SumAll(lens) + 1
    BY <1>1, <1>3, <2>2, <2>3, <2>4, <2>5, TokenConstants, SumRaised
  <2> QED BY <1>2, <2>1, <2>6
<1>5. Tokens!Records \in Nat
  <2> HIDE DEF lens
  <2>1. SumFunctionOnSet(lens, Files) \in Nat BY <1>1, TokenConstants, SumNat
  <2> QED BY <2>1, <1>2, <1>3 DEF SumAll
<1> QED BY <1>4, <1>5

\* What is in the transcripts afterwards.
LEMMA WrittenIs ==
  ASSUME Transcripts, NEW f, NEW r, Written(f, r), r.day <= today,
           r.request <= Tokens!Records + 1,
         used' \in [Tokens!Calendar -> Nat], ~codex => restarted' = {}
  PROVE  /\ Transcripts'
         /\ All' = All \cup {r}
         /\ LET n == Len(records[f]) + 1 IN
            /\ <<f, n>> \notin Entries /\ Entries' = Entries \cup {<<f, n>>}
            /\ \A e \in Entries : records'[e[1]][e[2]] = records[e[1]][e[2]]
            /\ n \in DOMAIN records'[f] /\ records'[f][n] = r
            /\ n # 1 => records'[f][n - 1] = Tokens!Last(records[f])
            /\ n = 1 <=> records[f] = <<>>
<1> DEFINE n == Len(records[f]) + 1
<1>1. f \in Files /\ r \in RecSet /\ today' = today /\ codex' = codex
      /\ records' = [records EXCEPT ![f] = Append(@, r)]
      /\ touched' = [touched EXCEPT ![f] = today]
  BY DEF Written
<1>2. records[f] \in Seq(RecSet) /\ records \in [Files -> Seq(RecSet)] BY <1>1 DEF Transcripts
<1>3. records'[f] = Append(records[f], r) /\ \A g \in Files \ {f} : records'[g] = records[g]
  BY <1>1, <1>2
<1>4. /\ Append(records[f], r) \in Seq(RecSet) /\ Len(records[f]) \in Nat
      /\ DOMAIN Append(records[f], r) = 1 .. n /\ DOMAIN records[f] = 1 .. Len(records[f])
      /\ \A i \in DOMAIN records[f] : Append(records[f], r)[i] = records[f][i]
      /\ Append(records[f], r)[n] = r
  BY <1>1, <1>2
<1>5. /\ DOMAIN records'[f] = 1 .. n /\ DOMAIN records[f] = 1 .. Len(records[f])
      /\ \A i \in DOMAIN records[f] : records'[f][i] = records[f][i]
      /\ records'[f][n] = r
  BY <1>3, <1>4
<1>6. n \in Nat /\ n # 0 /\ DOMAIN records'[f] = DOMAIN records[f] \cup {n}
        /\ n \notin DOMAIN records[f]
  BY <1>4, <1>5
<1> HIDE DEF n
<1>7. records' \in [Files -> Seq(RecSet)]
  <2>1. \A g \in Files : records'[g] \in Seq(RecSet)
    <3> SUFFICES ASSUME NEW g \in Files PROVE records'[g] \in Seq(RecSet) OBVIOUS
    <3>1. CASE g = f BY <3>1, <1>3, <1>4
    <3>2. CASE g # f BY <3>2, <1>2, <1>3
    <3> QED BY <3>1, <3>2
  <2>2. records' = [g \in Files |-> records'[g]]
    <3>1. records' = [g \in Files |-> [records EXCEPT ![f] = Append(@, r)][g]] BY <1>1, <1>2
    <3> QED BY <3>1, <1>1
  <2> QED BY <2>1, <2>2
<1>8. Tokens!Records' = Tokens!Records + 1 /\ Tokens!Records \in Nat BY RecordsCount
<1>9. /\ today \in Nat /\ touched \in [Files -> Nat] /\ \A g \in Files : touched[g] <= today
  BY DEF Transcripts, Tokens!Calendar
<1>10. touched' \in [Files -> Nat] /\ touched'[f] = today
         /\ \A g \in Files \ {f} : touched'[g] = touched[g]
  BY <1>1, <1>9
<1>11. ASSUME NEW g \in Files, NEW i \in DOMAIN records'[g]
       PROVE  records'[g][i].day <= touched'[g] /\ records'[g][i].request <= Tokens!Records'
  <2>1. ASSUME NEW h \in Files, NEW j \in DOMAIN records[h]
        PROVE  /\ records[h][j].day <= touched[h] /\ records[h][j].request <= Tokens!Records
               /\ records[h][j].day \in Nat /\ records[h][j].request \in Nat
               /\ touched[h] <= today /\ touched[h] \in Nat
    <3>1. records[h][j].day \in Nat /\ records[h][j].request \in Nat
      BY LinesOf DEF Tokens!Calendar
    <3> QED BY <3>1, <1>9 DEF Transcripts
  <2>2. CASE g = f /\ i = n
    <3>1. records'[g][i] = r /\ touched'[g] = today BY <2>2, <1>5, <1>10
    <3> QED BY <3>1, <1>8
  <2>3. CASE g = f /\ i # n
    <3>1. i \in DOMAIN records[f] /\ records'[g][i] = records[f][i] BY <2>3, <1>5, <1>6
    <3>2. records[f][i].day <= touched[f] /\ records[f][i].request <= Tokens!Records
      /\ records[f][i].day \in Nat /\ records[f][i].request \in Nat
      /\ touched[f] <= today /\ touched[f] \in Nat
      BY <1>1, <2>1, <3>1
    <3>3. records[f][i].day <= today /\ records[f][i].request <= Tokens!Records + 1
      BY <3>2, <1>8, <1>9
    <3> QED BY <2>3, <3>1, <3>3, <1>8, <1>10
  <2>4. CASE g # f
    <3>1. i \in DOMAIN records[g] /\ records'[g][i] = records[g][i] /\ touched'[g] = touched[g]
      BY <2>4, <1>3, <1>10
    <3>2. records[g][i].day <= touched[g] /\ records[g][i].request <= Tokens!Records
      /\ records[g][i].request \in Nat
      BY <2>1, <3>1
    <3>3. records[g][i].request <= Tokens!Records + 1 BY <3>2, <1>8
    <3> QED BY <3>1, <3>2, <3>3, <1>8
  <2> QED BY <2>2, <2>3, <2>4
<1>12. \A g \in Files : touched'[g] <= today'
  <2>1. today <= today BY <1>9
  <2> QED BY <1>1, <1>9, <1>10, <2>1
<1>13. Transcripts'
  <2>1. codex \in BOOLEAN /\ today \in Tokens!Calendar BY DEF Transcripts
  <2>2. ~codex' => restarted' = {} BY <1>1
  <2>3. Tokens!Calendar' = Tokens!Calendar BY DEF Tokens!Calendar
  <2> QED BY <1>1, <1>7, <1>10, <1>11, <1>12, <2>1, <2>2, <2>3 DEF Transcripts
<1>14. <<f, n>> \notin Entries /\ Entries' = Entries \cup {<<f, n>>}
  <2>1. <<f, n>> \notin Entries BY <1>6, EntriesAre
  <2>2. Entries' = UNION {{g} \X DOMAIN records'[g] : g \in Files} BY DEF Entries
  <2>3. ASSUME NEW e \in Entries' PROVE e \in Entries \cup {<<f, n>>}
    <3>1. PICK g \in Files : e \in {g} \X DOMAIN records'[g] BY <2>2
    <3>2. e = <<e[1], e[2]>> /\ e[1] = g /\ e[2] \in DOMAIN records'[g] BY <3>1
    <3>3. CASE g = f /\ e[2] = n BY <3>2, <3>3
    <3>4. CASE g = f /\ e[2] # n
      <4>1. e[2] \in DOMAIN records[f] BY <3>2, <3>4, <1>6
      <4> QED BY <3>2, <3>4, <4>1, EntriesAre, <1>1
    <3>5. CASE g # f
      <4>1. e[2] \in DOMAIN records[g] BY <3>2, <3>5, <1>3
      <4> QED BY <3>2, <4>1, EntriesAre
    <3> QED BY <3>3, <3>4, <3>5
  <2>4. ASSUME NEW e \in Entries PROVE e \in Entries'
    <3>1. e = <<e[1], e[2]>> /\ e[1] \in Files /\ e[2] \in DOMAIN records[e[1]] BY EntriesAre
    <3>2. e[2] \in DOMAIN records'[e[1]]
      <4>1. CASE e[1] = f BY <3>1, <4>1, <1>6
      <4>2. CASE e[1] # f BY <3>1, <4>2, <1>3
      <4> QED BY <4>1, <4>2
    <3>3. e \in {e[1]} \X DOMAIN records'[e[1]] BY <3>1, <3>2
    <3> QED BY <2>2, <3>1, <3>3
  <2>5. <<f, n>> \in Entries'
    <3>1. <<f, n>> \in {f} \X DOMAIN records'[f] BY <1>6
    <3> QED BY <2>2, <3>1, <1>1
  <2> QED BY <2>1, <2>3, <2>4, <2>5
<1>15. \A e \in Entries : records'[e[1]][e[2]] = records[e[1]][e[2]]
  <2> SUFFICES ASSUME NEW e \in Entries PROVE records'[e[1]][e[2]] = records[e[1]][e[2]] OBVIOUS
  <2>1. e[1] \in Files /\ e[2] \in DOMAIN records[e[1]] BY EntriesAre
  <2>2. CASE e[1] = f BY <2>1, <2>2, <1>5
  <2>3. CASE e[1] # f BY <2>1, <2>3, <1>3
  <2> QED BY <2>2, <2>3
<1>16. All' = All \cup {r}
  <2>1. All = {records[e[1]][e[2]] : e \in Entries} BY AllIs
  <2>2. All' = {records'[e[1]][e[2]] : e \in Entries'} BY <1>13, AllIsNext DEF AllByEntries
  <2> DEFINE new == <<f, n>>
  <2>3. new[1] = f /\ new[2] = n OBVIOUS
  <2>4. records'[new[1]][new[2]] = r BY <2>3, <1>5
  <2>5. Entries' = Entries \cup {new} BY <1>14
  <2> HIDE DEF new
  <2> QED BY <2>1, <2>2, <2>4, <2>5, <1>15
<1>17. n \in DOMAIN records'[f] BY <1>6
<1>18. n # 1 => records'[f][n - 1] = Tokens!Last(records[f])
  <2> SUFFICES ASSUME n # 1 PROVE records'[f][n - 1] = Tokens!Last(records[f]) OBVIOUS
  <2>1. n - 1 = Len(records[f]) /\ Len(records[f]) \in DOMAIN records[f] BY <1>4, <1>6 DEF n
  <2> QED BY <2>1, <1>5 DEF Tokens!Last
<1>19. n = 1 <=> records[f] = <<>>
  <2>1. n = 1 <=> Len(records[f]) = 0 BY <1>4 DEF n
  <2> QED BY <2>1, <1>2
<1> QED BY <1>5, <1>13, <1>14, <1>15, <1>16, <1>17, <1>18, <1>19 DEF n

\* On the day of the record, the transcripts grew by what it adds to the one before.
LEMMA GrownBy ==
  ASSUME Transcripts, Transcripts', NEW f \in Files, NEW r, r.day \in Tokens!Calendar, NEW n,
           n = Len(records[f]) + 1,
         <<f, n>> \notin Entries, Entries' = Entries \cup {<<f, n>>},
         \A e \in Entries : records'[e[1]][e[2]] = records[e[1]][e[2]],
         n \in DOMAIN records'[f], records'[f][n] = r,
         NEW g \in Nat, Tokens!Growth(f, n)' = g
  PROVE  \A d \in Tokens!Calendar :
           /\ Tokens!Grown(Files, d) \in Nat
           /\ Tokens!Grown(Files, d)' =
                IF d = r.day THEN Tokens!Grown(Files, d) + g ELSE Tokens!Grown(Files, d)
<1> SUFFICES ASSUME NEW d \in Tokens!Calendar
             PROVE  /\ Tokens!Grown(Files, d) \in Nat
                    /\ Tokens!Grown(Files, d)' =
                       IF d = r.day THEN Tokens!Grown(Files, d) + g ELSE Tokens!Grown(Files, d)
  OBVIOUS
<1> DEFINE new == <<f, n>>
<1>1. new[1] = f /\ new[2] = n OBVIOUS
<1>2. ASSUME NEW e \in Entries PROVE Tokens!Growth(e[1], e[2])' = Tokens!Growth(e[1], e[2])
  <2>1. e[1] \in Files /\ e[2] \in DOMAIN records[e[1]] BY EntriesAre
  <2>2. records'[e[1]][e[2]] = records[e[1]][e[2]] OBVIOUS
  <2>3. e[2] # 1 => records'[e[1]][e[2] - 1] = records[e[1]][e[2] - 1]
    <3> SUFFICES ASSUME e[2] # 1 PROVE records'[e[1]][e[2] - 1] = records[e[1]][e[2] - 1]
      OBVIOUS
    <3> DEFINE b == <<e[1], e[2] - 1>>
    <3>1. e[2] - 1 \in DOMAIN records[e[1]] BY <2>1, LinesOf
    <3>2. b[1] = e[1] /\ b[2] = e[2] - 1 /\ b = <<b[1], b[2]>> OBVIOUS
    <3> HIDE DEF b
    <3>3. b \in Entries BY <2>1, <3>1, <3>2, EntriesAre
    <3>4. records'[b[1]][b[2]] = records[b[1]][b[2]] BY <3>3
    <3> QED BY <3>2, <3>4
  <2> QED BY <2>2, <2>3 DEF Tokens!Growth
<1>3. Tokens!Grown(Files, d) = SumAll(Grows(d)) BY GrownIs
<1>4. Tokens!Grown(Files, d)' = SumAll([e \in {x \in Entries' : records'[x[1]][x[2]].day = d} |->
                                        Tokens!Growth(e[1], e[2])'])
  <2>1. Tokens!Grown(Files, d)' =
          Tokens!SumFunction([e \in {x \in Entries' : records'[x[1]][x[2]].day = d} |->
                                        Tokens!Growth(e[1], e[2])'])
    BY DEF Tokens!Grown, Entries
  <2> QED BY <2>1, TokenSum
<1> DEFINE S == {x \in Entries' : records'[x[1]][x[2]].day = d}
           h == [e \in S |-> Tokens!Growth(e[1], e[2])']
<1>5. DOMAIN h = S /\ \A e \in S : h[e] = Tokens!Growth(e[1], e[2])' OBVIOUS
<1>6. S = IF d = r.day THEN Dated(d) \cup {new} ELSE Dated(d) BY <1>1 DEF Dated
<1>7. new \notin Dated(d) BY DEF Dated
<1>8. new \in S => h[new] = g BY <1>1, <1>5
<1>9. \A e \in Dated(d) : e \in S /\ h[e] = Grows(d)[e]
  <2>1. \A e \in Dated(d) : e \in Entries /\ e \in S BY <1>6 DEF Dated
  <2> QED BY <2>1, <1>2, <1>5, GrowsAre
<1>10. Tokens!Grown(Files, d)' = SumAll(h) BY <1>4
<1> HIDE DEF S, h, new
<1>11. CASE d = r.day
  <2>1. S = Dated(d) \cup {new} /\ h[new] = g BY <1>6, <1>8, <1>11
  <2>2. SumAll(Grows(d)) \in Nat /\ SumAll(h) = SumAll(Grows(d)) + h[new]
    <3>1. IsFiniteSet(Dated(d)) /\ DOMAIN Grows(d) = Dated(d) BY GrowsAre
    <3>2. \A e \in Dated(d) : Grows(d)[e] \in Nat /\ h[e] = Grows(d)[e] BY <1>9, GrowsAre
    <3>3. DOMAIN h = Dated(d) \cup {new} /\ h[new] \in Nat BY <1>5, <2>1
    <3>4. Extends(h, Grows(d), new) BY <1>7, <3>1, <3>2, <3>3 DEF Extends
    <3> QED BY <3>4, SumExtended
  <2> QED BY <1>3, <1>10, <1>11, <2>1, <2>2
<1>12. CASE d # r.day
  <2>1. DOMAIN h = DOMAIN Grows(d) BY <1>5, <1>6, <1>12, GrowsAre
  <2>2. SumAll(Grows(d)) \in Nat /\ SumAll(h) = SumAll(Grows(d))
    BY <1>9, <2>1, GrowsAre, SumsSame
  <2> QED BY <1>3, <1>10, <1>12, <2>2
<1> QED BY <1>11, <1>12

\* On the day of the record, its tokens are spent, unless it was there already.
LEMMA SpentBy ==
  ASSUME Transcripts, NEW r \in RecSet, All' = All \cup {r}
  PROVE  \A d \in Tokens!Calendar :
           /\ Tokens!Spent(All, d) \in Nat
           /\ Tokens!Spent(All, d)' =
                IF d = r.day /\ r \notin All THEN Tokens!Spent(All, d) + r.tokens
                ELSE Tokens!Spent(All, d)
<1> SUFFICES ASSUME NEW d \in Tokens!Calendar
             PROVE  /\ Tokens!Spent(All, d) \in Nat
                    /\ Tokens!Spent(All, d)' =
                       IF d = r.day /\ r \notin All THEN Tokens!Spent(All, d) + r.tokens
                       ELSE Tokens!Spent(All, d)
  OBVIOUS
<1> DEFINE S == {x \in All' : x.day = d}
           h == [x \in S |-> x.tokens]
<1>1. Tokens!Spent(All, d)' = SumAll(h)
  <2>1. Tokens!Spent(All, d)' = Tokens!SumFunction(h) BY DEF Tokens!Spent
  <2> QED BY <2>1, TokenSum
<1>2. DOMAIN h = S /\ \A x \in S : h[x] = x.tokens OBVIOUS
<1>3. S = IF d = r.day /\ r \notin All THEN Made(d) \cup {r} ELSE Made(d) BY DEF Made
<1>4. Tokens!Spent(All, d) = SumAll(Tells(d)) BY SpentIs
<1>5. \A x \in Made(d) : x \in S /\ h[x] = Tells(d)[x] BY <1>2, <1>3, TellsAre
<1>6. r.tokens \in Nat BY DEF RecSet
<1> HIDE DEF S, h
<1>7. CASE d = r.day /\ r \notin All
  <2>1. S = Made(d) \cup {r} /\ h[r] = r.tokens /\ r \notin Made(d) BY <1>2, <1>3, <1>7 DEF Made
  <2>2. SumAll(Tells(d)) \in Nat /\ SumAll(h) = SumAll(Tells(d)) + h[r]
    <3>1. IsFiniteSet(Made(d)) /\ DOMAIN Tells(d) = Made(d) BY TellsAre
    <3>2. \A x \in Made(d) : Tells(d)[x] \in Nat /\ h[x] = Tells(d)[x] BY <1>5, TellsAre
    <3>3. DOMAIN h = Made(d) \cup {r} /\ h[r] \in Nat BY <1>2, <1>6, <2>1
    <3>4. Extends(h, Tells(d), r) BY <2>1, <3>1, <3>2, <3>3 DEF Extends
    <3> QED BY <3>4, SumExtended
  <2> QED BY <1>1, <1>4, <1>7, <2>1, <2>2
<1>8. CASE ~(d = r.day /\ r \notin All)
  <2>1. DOMAIN h = DOMAIN Tells(d) BY <1>2, <1>3, <1>8, TellsAre
  <2>2. SumAll(Tells(d)) \in Nat /\ SumAll(h) = SumAll(Tells(d))
    BY <1>5, <2>1, TellsAre, SumsSame
  <2> QED BY <1>1, <1>4, <1>8, <2>2
<1> QED BY <1>7, <1>8

\* What was written and used stays: what the counts are compared with does too.
LEMMA CountsStay ==
  ASSUME TokenInv, UNCHANGED <<codex, records, used, restarted>>, today' \in Tokens!Calendar,
         touched' \in [Files -> Nat], \A f \in Files : touched'[f] <= today',
         \A f \in Files : touched[f] <= touched'[f], Tokens!TokensCountedOnce'
  PROVE  TokenInv'
<1>1. Transcripts BY DEF TokenInv
<1>2. codex' = codex /\ records' = records /\ used' = used /\ restarted' = restarted OBVIOUS
<1>3. Tokens!Records' = Tokens!Records /\ Tokens!Calendar' = Tokens!Calendar
  BY <1>2 DEF Tokens!Records, Tokens!Calendar
<1>4. \A f \in Files : \A i \in DOMAIN records[f] :
        records[f][i].day <= touched'[f] /\ records[f][i].request <= Tokens!Records
  <2> SUFFICES ASSUME NEW f \in Files, NEW i \in DOMAIN records[f]
               PROVE  records[f][i].day <= touched'[f] /\ records[f][i].request <= Tokens!Records
    OBVIOUS
  <2>1. records[f][i].day <= touched[f] /\ records[f][i].request <= Tokens!Records
        /\ touched[f] \in Nat
    BY <1>1 DEF Transcripts
  <2>2. records[f][i].day \in Nat BY <1>1, LinesOf DEF Tokens!Calendar
  <2>3. touched[f] <= touched'[f] /\ touched'[f] \in Nat OBVIOUS
  <2> QED BY <2>1, <2>2, <2>3
<1>5. Transcripts' BY <1>1, <1>2, <1>3, <1>4 DEF Transcripts
<1>6. All' = All BY <1>2 DEF All
<1>7. \A d : Tokens!Spent(All, d)' = Tokens!Spent(All, d)
        /\ Tokens!Grown(Files, d)' = Tokens!Grown(Files, d)
  BY <1>2, <1>6 DEF Tokens!Spent, Tokens!Grown, Tokens!Growth
<1> QED BY <1>2, <1>3, <1>5, <1>7 DEF TokenInv


LEMMA LastIs ==
  ASSUME Transcripts, NEW f \in Files, records[f] # <<>>
  PROVE  LET l == Tokens!Last(records[f]) IN
         /\ l \in RecSet /\ l \in All /\ l.day <= today /\ l.request <= Tokens!Records
         /\ l.tokens \in Nat /\ l.request \in Nat
<1> DEFINE n == Len(records[f])
<1>1. records[f] \in Seq(RecSet) BY DEF Transcripts
<1>2. n \in Nat /\ n # 0 /\ n \in DOMAIN records[f] BY <1>1
<1>3. Tokens!Last(records[f]) = records[f][n] BY DEF Tokens!Last
<1> HIDE DEF n
<1>4. /\ records[f][n] \in RecSet /\ records[f][n].day \in Nat
      /\ records[f][n].tokens \in Nat /\ records[f][n].request \in Nat
  BY <1>2, LinesOf DEF Tokens!Calendar
<1>5. records[f][n] \in Tokens!ToSet(records[f]) BY <1>2, LinesOf
<1>6. records[f][n] \in All BY <1>5 DEF All
<1>7. records[f][n].day <= touched[f] /\ records[f][n].request <= Tokens!Records
  BY <1>2 DEF Transcripts
<1>8. touched[f] <= today /\ touched[f] \in Nat
        /\ today \in Nat BY DEF Transcripts, Tokens!Calendar
<1>9. records[f][n].day <= today BY <1>4, <1>7, <1>8
<1> QED BY <1>3, <1>4, <1>6, <1>7, <1>9

\* What the next record adds to the count of the one before.
LEMMA NextGrowth ==
  ASSUME Transcripts, NEW f, NEW r, Written(f, r), r.day <= today,
           r.request <= Tokens!Records + 1,
         used' \in [Tokens!Calendar -> Nat], ~codex => restarted' = {},
         NEW n, n = Len(records[f]) + 1
  PROVE  LET before == IF records[f] = <<>> THEN 0 ELSE Tokens!Last(records[f]).tokens IN
         /\ before \in Nat
         /\ Tokens!Growth(f, n)' = Tokens!Delta(before, r.tokens)
<1> DEFINE before == IF records[f] = <<>> THEN 0 ELSE Tokens!Last(records[f]).tokens
<1>1. /\ n \in DOMAIN records'[f] /\ records'[f][n] = r
      /\ n # 1 => records'[f][n - 1] = Tokens!Last(records[f])
      /\ n = 1 <=> records[f] = <<>>
  BY WrittenIs
<1>2. f \in Files BY DEF Written
<1>3. before \in Nat
  <2>1. 0 \in Nat OBVIOUS
  <2>2. records[f] # <<>> => Tokens!Last(records[f]).tokens \in Nat BY <1>2, LastIs
  <2> QED BY <2>1, <2>2
<1>4. Tokens!Growth(f, n)' =
        Tokens!Delta(IF n = 1 THEN 0 ELSE records'[f][n - 1].tokens, records'[f][n].tokens)
  BY DEF Tokens!Growth, Tokens!Delta
<1>5. (IF n = 1 THEN 0 ELSE records'[f][n - 1].tokens) = before
        /\ records'[f][n].tokens = r.tokens
  BY <1>1
<1> HIDE DEF before
<1>6. Tokens!Growth(f, n)' = Tokens!Delta(before, r.tokens) BY <1>4, <1>5
<1> QED BY <1>3, <1>6 DEF before

\* A record and what it stands for are accounted for on one day.
Accounted(f, r, n) ==
  IF codex
  THEN LET before == IF records[f] = <<>> THEN 0 ELSE Tokens!Last(records[f]).tokens
           g == Tokens!Delta(before, r.tokens)
       IN /\ g = 0 \/ r.day = today
          /\ g <= n /\ (restarted' = {} => restarted = {} /\ g = n)
  ELSE /\ restarted' = {}
       /\ \/ r \in All /\ n = 0
          \/ r \notin All /\ r.day = today /\ r.tokens = n

LEMMA CountsGrow ==
  ASSUME TokenInv, NEW f, NEW r, Written(f, r), r.day <= today, r.request <= Tokens!Records + 1,
         NEW n \in Nat, used' = [used EXCEPT ![today] = @ + n], chart' = Tokens!NoChart,
         Accounted(f, r, n)
  PROVE  TokenInv'
<1>1. Transcripts /\ today \in Tokens!Calendar /\ used \in [Tokens!Calendar -> Nat]
  BY DEF TokenInv, Transcripts
<1>2. used' \in [Tokens!Calendar -> Nat]
      /\ \A d \in Tokens!Calendar : used'[d] = IF d = today THEN used[d] + n ELSE used[d]
  BY <1>1
<1>3. f \in Files /\ r \in RecSet /\ codex' = codex /\ today' = today BY DEF Written
<1>4. ~codex => restarted' = {} BY DEF Accounted
<1> DEFINE k == Len(records[f]) + 1
<1>5. /\ Transcripts' /\ All' = All \cup {r}
      /\ <<f, k>> \notin Entries /\ Entries' = Entries \cup {<<f, k>>}
      /\ \A e \in Entries : records'[e[1]][e[2]] = records[e[1]][e[2]]
      /\ k \in DOMAIN records'[f] /\ records'[f][k] = r
  BY <1>1, <1>2, <1>4, WrittenIs
<1>6. r.day \in Tokens!Calendar /\ r.tokens \in Nat BY <1>3 DEF RecSet
<1>7. Tokens!TokensCountedOnce' BY DEF Tokens!TokensCountedOnce
<1>8. Tokens!Calendar' = Tokens!Calendar BY DEF Tokens!Calendar
<1>9. CASE codex
  <2> DEFINE before == IF records[f] = <<>> THEN 0 ELSE Tokens!Last(records[f]).tokens
             g == Tokens!Delta(before, r.tokens)
  <2>1. PICK m : m = k OBVIOUS
  <2>2. before \in Nat /\ Tokens!Growth(f, m)' = g BY <1>1, <1>2, <1>4, <2>1, NextGrowth
  <2>3. g \in Nat BY <2>2, <1>6 DEF Tokens!Delta
  <2>4. /\ g = 0 \/ r.day = today
        /\ g <= n /\ (restarted' = {} => restarted = {} /\ g = n)
    BY <1>9 DEF Accounted
  <2> HIDE DEF g, before
  <2>5. \A d \in Tokens!Calendar :
          /\ Tokens!Grown(Files, d) \in Nat
          /\ Tokens!Grown(Files, d)' =
               IF d = r.day THEN Tokens!Grown(Files, d) + g ELSE Tokens!Grown(Files, d)
    BY <1>1, <1>3, <1>5, <1>6, <2>1, <2>2, <2>3, GrownBy
  <2>6. \A d \in Tokens!Calendar :
          /\ Tokens!Grown(Files, d) <= used[d]
          /\ restarted = {} => Tokens!Grown(Files, d) = used[d]
    BY <1>9 DEF TokenInv
  <2>7. ASSUME NEW d \in Tokens!Calendar
        PROVE  /\ Tokens!Grown(Files, d)' <= used'[d]
               /\ restarted' = {} => Tokens!Grown(Files, d)' = used'[d]
    <3>1. PICK a \in Nat : a = Tokens!Grown(Files, d) BY <2>5
    <3>2. PICK b \in Nat : b = used[d] BY <1>1
    <3>3. a <= b /\ (restarted = {} => a = b) BY <2>6, <3>1, <3>2
    <3>4. Tokens!Grown(Files, d)' = IF d = r.day THEN a + g ELSE a BY <2>5, <3>1
    <3>5. used'[d] = IF d = today THEN b + n ELSE b BY <1>2, <3>2
    <3>6. CASE r.day = today
      <4>1. CASE d = today
        <5>1. Tokens!Grown(Files, d)' = a + g /\ used'[d] = b + n BY <3>4, <3>5, <3>6, <4>1
        <5>2. a + g <= b + n /\ (restarted' = {} => a + g = b + n) BY <2>3, <2>4, <3>3
        <5> QED BY <5>1, <5>2
      <4>2. CASE d # today
        <5>1. Tokens!Grown(Files, d)' = a /\ used'[d] = b BY <3>4, <3>5, <3>6, <4>2
        <5> QED BY <5>1, <2>4, <3>3
      <4> QED BY <4>1, <4>2
    <3>7. CASE g = 0
      <4>1. Tokens!Grown(Files, d)' = a BY <3>4, <3>7
      <4>2. b <= used'[d] /\ (n = 0 => used'[d] = b) BY <3>5
      <4>3. a <= used'[d]
        <5>1. used'[d] \in Nat BY <1>2
        <5> QED BY <5>1, <4>2, <3>3
      <4>4. restarted' = {} => a = used'[d] BY <4>2, <2>4, <3>3, <3>7
      <4> QED BY <4>1, <4>3, <4>4
    <3> QED BY <2>4, <3>6, <3>7
  <2> QED BY <1>3, <1>5, <1>7, <1>8, <1>9, <2>7 DEF TokenInv
<1>10. CASE ~codex
  <2>1. \A d \in Tokens!Calendar :
          /\ Tokens!Spent(All, d) \in Nat
          /\ Tokens!Spent(All, d)' =
               IF d = r.day /\ r \notin All THEN Tokens!Spent(All, d) + r.tokens
               ELSE Tokens!Spent(All, d)
    BY <1>1, <1>3, <1>5, SpentBy
  <2>2. \/ r \in All /\ n = 0
        \/ r \notin All /\ r.day = today /\ r.tokens = n
    BY <1>10 DEF Accounted
  <2>3. \A d \in Tokens!Calendar : Tokens!Spent(All, d) = used[d] BY <1>10 DEF TokenInv
  <2>4. ASSUME NEW d \in Tokens!Calendar PROVE Tokens!Spent(All, d)' = used'[d]
    <3>1. PICK b \in Nat : b = used[d] BY <1>1
    <3>2. used'[d] = IF d = today THEN b + n ELSE b BY <1>2, <3>1
    <3>3. Tokens!Spent(All, d)' = IF d = r.day /\ r \notin All THEN b + r.tokens ELSE b
      BY <2>1, <2>3, <3>1
    <3>4. CASE r \in All /\ n = 0
      <4>1. b + n = b BY <3>4
      <4> QED BY <3>2, <3>3, <3>4, <4>1
    <3>5. CASE r \notin All /\ r.day = today /\ r.tokens = n BY <3>2, <3>3, <3>5
    <3> QED BY <2>2, <3>4, <3>5
  <2> QED BY <1>3, <1>5, <1>7, <1>8, <1>10, <2>4 DEF TokenInv
<1> QED BY <1>9, <1>10

LEMMA WriteIsWritten ==
  ASSUME NEW f \in Files, NEW r \in RecSet, Tokens!Write(f, r)
  PROVE  Written(f, r) /\ chart' = Tokens!NoChart
BY DEF Tokens!Write, Written

LEMMA RespondInv ==
  ASSUME TokenInv, NEW f \in Files, NEW n \in 1 .. MaxTokens, Tokens!Respond(f, n) PROVE TokenInv'
<1> DEFINE before == IF records[f] = <<>> THEN 0 ELSE Tokens!Last(records[f]).tokens
           t == IF codex THEN before + n ELSE n
           r == [day |-> today, request |-> Tokens!Records + 1, tokens |-> t]
<1>1. Transcripts /\ today \in Tokens!Calendar /\ today \in Nat /\ n \in Nat /\ n # 0
  BY DEF TokenInv, Transcripts, Tokens!Calendar
<1>2. Tokens!Records \in Nat BY <1>1, RecordsCount
<1>3. before \in Nat
  <2>1. records[f] # <<>> => Tokens!Last(records[f]).tokens \in Nat BY <1>1, LastIs
  <2>2. 0 \in Nat OBVIOUS
  <2> QED BY <2>1, <2>2
<1>4. Tokens!Write(f, r) /\ used' = [used EXCEPT ![today] = @ + n] /\ restarted' = restarted
  BY DEF Tokens!Respond
<1>5. r.day = today /\ r.request = Tokens!Records + 1 /\ r.tokens = t OBVIOUS
<1> HIDE DEF before
<1>6. t \in Nat BY <1>1, <1>3
<1> HIDE DEF t
<1>7. r \in RecSet BY <1>1, <1>2, <1>6 DEF RecSet
<1> HIDE DEF r
<1>8. Written(f, r) /\ chart' = Tokens!NoChart BY <1>4, <1>7, WriteIsWritten
<1>9. r.day <= today /\ r.request <= Tokens!Records + 1 BY <1>1, <1>2, <1>5
<1>10. Accounted(f, r, n)
  <2>1. CASE codex
    <3>1. t = before + n BY <2>1 DEF t
    <3>2. Tokens!Delta(before, t) = n BY <1>1, <1>3, <3>1 DEF Tokens!Delta
    <3>3. n <= n BY <1>1
    <3> QED BY <2>1, <1>4, <1>5, <3>2, <3>3 DEF Accounted, before
  <2>2. CASE ~codex
    <3>1. restarted' = {} BY <2>2, <1>1, <1>4 DEF Transcripts
    <3>2. r \notin All
      <4> SUFFICES ASSUME r \in All PROVE FALSE OBVIOUS
      <4>1. PICK e \in Entries : r = records[e[1]][e[2]] BY <1>1, AllIs
      <4>2. e[1] \in Files /\ e[2] \in DOMAIN records[e[1]] BY <1>1, EntriesAre
      <4>3. r.request <= Tokens!Records BY <1>1, <4>1, <4>2 DEF Transcripts
      <4> QED BY <1>2, <1>5, <4>3
    <3>3. t = n BY <2>2 DEF t
    <3> QED BY <2>2, <1>5, <3>1, <3>2, <3>3 DEF Accounted
  <2> QED BY <2>1, <2>2
<1> QED BY <1>1, <1>4, <1>8, <1>9, <1>10, CountsGrow

LEMMA RestartInv ==
  ASSUME TokenInv, NEW f \in Files, NEW n \in 1 .. MaxTokens, Tokens!Restart(f, n) PROVE TokenInv'
<1> DEFINE before == IF records[f] = <<>> THEN 0 ELSE Tokens!Last(records[f]).tokens
           r == [day |-> today, request |-> Tokens!Records + 1, tokens |-> n]
<1>1. Transcripts /\ today \in Tokens!Calendar /\ today \in Nat /\ n \in Nat
  BY DEF TokenInv, Transcripts, Tokens!Calendar
<1>2. Tokens!Records \in Nat BY <1>1, RecordsCount
<1>3. /\ codex /\ Tokens!Write(f, r) /\ used' = [used EXCEPT ![today] = @ + n]
      /\ restarted' = restarted \cup {f} /\ records[f] # <<>>
  BY DEF Tokens!Restart
<1>4. before \in Nat BY <1>1, <1>3, LastIs
<1>5. r.day = today /\ r.request = Tokens!Records + 1 /\ r.tokens = n OBVIOUS
<1>6. r \in RecSet BY <1>1, <1>2 DEF RecSet
<1> HIDE DEF r, before
<1>7. Written(f, r) /\ chart' = Tokens!NoChart BY <1>3, <1>6, WriteIsWritten
<1>8. r.day <= today /\ r.request <= Tokens!Records + 1 BY <1>1, <1>2, <1>5
<1>9. Tokens!Delta(before, n) <= n BY <1>1, <1>4 DEF Tokens!Delta
<1>10. restarted' # {} BY <1>3
<1>11. Accounted(f, r, n) BY <1>3, <1>5, <1>9, <1>10 DEF Accounted, before
<1> QED BY <1>1, <1>3, <1>7, <1>8, <1>11, CountsGrow

LEMMA RepeatInv ==
  ASSUME TokenInv, NEW f \in Files, NEW g \in Files, Tokens!Repeat(f, g) PROVE TokenInv'
<1> DEFINE r == Tokens!Last(records[f])
<1>1. Transcripts /\ today \in Tokens!Calendar /\ used \in [Tokens!Calendar -> Nat]
  BY DEF TokenInv, Transcripts
<1>2. /\ records[f] # <<>> /\ (codex => f = g) /\ Tokens!Write(g, r)
      /\ used' = used /\ restarted' = restarted
  BY DEF Tokens!Repeat
<1>3. /\ r \in RecSet /\ r \in All /\ r.day <= today /\ r.request <= Tokens!Records
      /\ r.tokens \in Nat /\ r.request \in Nat
  BY <1>1, <1>2, LastIs
<1> HIDE DEF r
<1>4. Written(g, r) /\ chart' = Tokens!NoChart BY <1>2, <1>3, WriteIsWritten
<1>5. Tokens!Records \in Nat BY <1>1, RecordsCount
<1>6. r.request <= Tokens!Records + 1 BY <1>3, <1>5
<1>7. used' = [used EXCEPT ![today] = @ + 0]
  <2>1. used[today] \in Nat BY <1>1
  <2>2. used[today] + 0 = used[today] BY <2>1
  <2> QED BY <1>1, <1>2, <2>2
<1>8. Accounted(g, r, 0)
  <2>1. CASE codex
    <3>1. r = Tokens!Last(records[g]) /\ records[g] # <<>> BY <2>1, <1>2 DEF r
    <3>2. Tokens!Delta(r.tokens, r.tokens) = 0 BY <1>3 DEF Tokens!Delta
    <3>3. 0 <= 0 OBVIOUS
    <3> QED BY <2>1, <1>2, <3>1, <3>2, <3>3 DEF Accounted
  <2>2. CASE ~codex
    <3>1. restarted' = {} BY <2>2, <1>1, <1>2 DEF Transcripts
    <3> QED BY <2>2, <1>3, <3>1 DEF Accounted
  <2> QED BY <2>1, <2>2
<1>9. 0 \in Nat OBVIOUS
<1> QED BY <1>3, <1>4, <1>6, <1>7, <1>8, <1>9, CountsGrow

LEMMA HalfWriteInv ==
  ASSUME TokenInv, NEW f \in Files, Tokens!HalfWrite(f) PROVE TokenInv'
<1>1. /\ touched' = [touched EXCEPT ![f] = today] /\ chart' = Tokens!NoChart
      /\ UNCHANGED <<codex, today, records, restarted, used>>
  BY DEF Tokens!HalfWrite
<1>2. today \in Tokens!Calendar /\ today \in Nat /\ touched \in [Files -> Nat]
      /\ \A g \in Files : touched[g] <= today
  BY DEF TokenInv, Transcripts, Tokens!Calendar
<1>3. touched' \in [Files -> Nat] BY <1>1, <1>2
<1>4. \A g \in Files : touched'[g] = IF g = f THEN today ELSE touched[g] BY <1>1, <1>2
<1>5. \A g \in Files : touched'[g] <= today' /\ touched[g] <= touched'[g]
  <2>1. today <= today BY <1>2
  <2>2. \A g \in Files : touched[g] <= touched[g] BY <1>2
  <2> QED BY <1>1, <1>2, <1>4, <2>1, <2>2
<1>6. Tokens!TokensCountedOnce' BY <1>1 DEF Tokens!TokensCountedOnce
<1> QED BY <1>1, <1>2, <1>3, <1>5, <1>6, CountsStay

LEMMA MidnightInv ==
  ASSUME TokenInv, Tokens!Midnight PROVE TokenInv'
<1>1. /\ today < MaxDay /\ today' = today + 1 /\ chart' = Tokens!NoChart
      /\ UNCHANGED <<codex, records, touched, restarted, used>>
  BY DEF Tokens!Midnight
<1>2. today \in Tokens!Calendar /\ today \in Nat /\ touched \in [Files -> Nat]
      /\ \A g \in Files : touched[g] <= today
  BY DEF TokenInv, Transcripts, Tokens!Calendar
<1>3. today' \in Tokens!Calendar BY <1>1, <1>2, TokenConstants DEF Tokens!Calendar
<1>4. \A g \in Files : touched'[g] <= today' /\ touched[g] <= touched'[g]
  <2> SUFFICES ASSUME NEW g \in Files PROVE touched'[g] <= today' /\ touched[g] <= touched'[g]
    OBVIOUS
  <2>1. touched[g] \in Nat /\ touched[g] <= today /\ touched'[g] = touched[g] BY <1>1, <1>2
  <2> QED BY <1>1, <1>2, <2>1
<1>5. Tokens!TokensCountedOnce' BY <1>1 DEF Tokens!TokensCountedOnce
<1> QED BY <1>1, <1>2, <1>3, <1>4, <1>5, CountsStay

\* A transcript with a record of a day of the chart is read.
LEMMA ReadInFull ==
  ASSUME Transcripts, NEW f \in Files, NEW i \in DOMAIN records[f],
         records[f][i].day \in Tokens!Start .. today
  PROVE  f \in Tokens!RecentFiles
<1>1. records[f][i].day \in Nat /\ records[f][i].day # 0 BY LinesOf DEF Tokens!Calendar
<1>2. records[f][i].day <= touched[f] /\ touched[f] \in Nat BY DEF Transcripts
<1>3. today \in Nat /\ Days \in Nat BY TokenConstants DEF Transcripts, Tokens!Calendar
<1>4. Tokens!Start \in Int BY <1>3 DEF Tokens!Start
<1>5. touched[f] > 0 /\ touched[f] >= Tokens!Start BY <1>1, <1>2, <1>3, <1>4
<1> QED BY <1>5 DEF Tokens!RecentFiles

LEMMA ScanInv == ASSUME TokenInv, Tokens!Scan PROVE TokenInv'
<1>1. /\ chart' = IF codex THEN Tokens!ScanCodex ELSE Tokens!ScanClaude
      /\ UNCHANGED <<codex, today, records, touched, restarted, used>>
  BY DEF Tokens!Scan
<1>2. Transcripts BY DEF TokenInv
<1>3. Tokens!Start' = Tokens!Start /\ Tokens!Calendar' = Tokens!Calendar
  BY <1>1 DEF Tokens!Start, Tokens!Calendar
<1>4. today \in Tokens!Calendar /\ touched \in [Files -> Nat]
        /\ \A g \in Files : touched[g] <= today
  BY <1>2 DEF Transcripts
<1>5. \A g \in Files : touched[g] <= touched'[g]
  <2>1. \A g \in Files : touched[g] <= touched[g] BY <1>4
  <2> QED BY <1>1, <2>1
<1>6. ASSUME NEW d \in Tokens!Calendar, d \in Tokens!Start .. today
      PROVE  IF restarted = {} THEN chart'[d] = used[d] ELSE chart'[d] <= used[d]
  <2>1. CASE codex
    <3>1. chart'[d] = Tokens!Grown(Tokens!RecentFiles, d) BY <2>1, <1>1, <1>6 DEF Tokens!ScanCodex
    <3> DEFINE near == UNION {{f} \X DOMAIN records[f] : f \in Tokens!RecentFiles}
               S == {e \in near : records[e[1]][e[2]].day = d}
               h == [e \in S |-> Tokens!Growth(e[1], e[2])]
    <3>2. Tokens!Grown(Tokens!RecentFiles, d) = SumAll(h) BY TokenSum DEF Tokens!Grown
    <3>3. S \subseteq Dated(d) BY DEF Dated, Entries, Tokens!RecentFiles
    <3>4. ASSUME NEW e \in Dated(d) PROVE e \in S
      <4>1. /\ e = <<e[1], e[2]>> /\ e[1] \in Files /\ e[2] \in DOMAIN records[e[1]]
            /\ records[e[1]][e[2]].day = d
        BY <1>2, EntriesAre DEF Dated
      <4>2. e[1] \in Tokens!RecentFiles BY <1>2, <1>6, <4>1, ReadInFull
      <4>3. e \in {e[1]} \X DOMAIN records[e[1]] BY <4>1
      <4>4. e \in near BY <4>2, <4>3
      <4> HIDE DEF near
      <4> QED BY <4>1, <4>4
    <3>5. S = Dated(d) BY <3>3, <3>4
    <3>6. h = Grows(d) BY <3>5 DEF Grows
    <3>7. Tokens!Grown(Tokens!RecentFiles, d) = Tokens!Grown(Files, d) BY <3>2, <3>6, GrownIs
    <3> HIDE DEF near, S, h
    <3>8. Tokens!Grown(Files, d) <= used[d] /\ (restarted = {}
            => Tokens!Grown(Files, d) = used[d])
      BY <2>1 DEF TokenInv
    <3> QED BY <3>1, <3>7, <3>8
  <2>2. CASE ~codex
    <3> DEFINE once == {r \in UNION {Tokens!ToSet(records[f]) : f \in Tokens!RecentFiles} :
                          Tokens!InRange(r)}
               S == {r \in once : r.day = d}
               h == [r \in S |-> r.tokens]
    <3>1. chart'[d] = Tokens!Spent(once, d) BY <2>2, <1>1, <1>6 DEF Tokens!ScanClaude
    <3>2. Tokens!Spent(once, d) = SumAll(h) BY TokenSum DEF Tokens!Spent
    <3>3. S \subseteq Made(d) BY DEF Made, All, Tokens!RecentFiles
    <3>4. ASSUME NEW r \in Made(d) PROVE r \in S
      <4>1. r.day = d /\ r \in All BY DEF Made
      <4>2. PICK f \in Files : r \in Tokens!ToSet(records[f]) BY <4>1 DEF All
      <4>3. PICK i \in DOMAIN records[f] : r = records[f][i] BY <1>2, <4>2, LinesOf
      <4>4. f \in Tokens!RecentFiles BY <1>2, <1>6, <4>1, <4>3, ReadInFull
      <4>5. Tokens!InRange(r) BY <1>6, <4>1 DEF Tokens!InRange
      <4>6. r \in once BY <4>2, <4>4, <4>5
      <4> HIDE DEF once
      <4> QED BY <4>1, <4>6
    <3>5. S = Made(d) BY <3>3, <3>4
    <3>6. h = Tells(d) BY <3>5 DEF Tells
    <3>7. Tokens!Spent(once, d) = Tokens!Spent(All, d) BY <3>2, <3>6, SpentIs
    <3> HIDE DEF once, S, h
    <3>8. Tokens!Spent(All, d) = used[d]
            /\ used[d] \in Nat BY <2>2, <1>2 DEF TokenInv, Transcripts
    <3>9. used[d] <= used[d] BY <3>8
    <3> QED BY <3>1, <3>7, <3>8, <3>9
  <2> QED BY <2>1, <2>2
<1>7. Tokens!TokensCountedOnce' BY <1>1, <1>3, <1>6 DEF Tokens!TokensCountedOnce
<1>8. today' \in Tokens!Calendar /\ touched' \in [Files -> Nat]
        /\ \A g \in Files : touched'[g] <= today'
  BY <1>1, <1>4
<1> QED BY <1>1, <1>5, <1>7, <1>8, CountsStay

LEMMA TokensStay == ASSUME TokenInv, UNCHANGED tokenVars PROVE TokenInv'
<1>1. UNCHANGED <<codex, today, records, touched, restarted, used, chart>> BY DEF tokenVars
<1>2. today \in Tokens!Calendar /\ touched \in [Files -> Nat]
        /\ \A g \in Files : touched[g] <= today
  BY DEF TokenInv, Transcripts
<1>3. \A g \in Files : touched[g] <= touched'[g]
  <2>1. \A g \in Files : touched[g] <= touched[g]  BY <1>2
  <2> QED BY <1>1, <2>1
<1>4. Tokens!TokensCountedOnce' 
  <2>1. Tokens!TokensCountedOnce BY DEF TokenInv
  <2> QED BY <1>1, <2>1 DEF Tokens!TokensCountedOnce, Tokens!Start, Tokens!Calendar
<1> QED BY <1>1, <1>2, <1>3, <1>4, CountsStay

-----------------------------------------------------------------------------
(* What holds.                                                              *)

\* One part runs and leaves the counters, the readings and the passes of the others
\* alone.
LEMMA HostRates ==
  /\ HostInit => RateInv /\ SaidFair
  /\ RateInv /\ SaidFair /\ [HostNext]_hostVars => (RateInv /\ SaidFair)'
<1>1. Init => RateInv /\ SaidFair
  <2>1. Init => SaidFair BY DEF Init, SaidFair
  <2> QED BY <2>1, InitRates, RatesAssumed
<1>2. HostInit => Init BY DEF HostInit
<1>3. [HostNext]_hostVars => [Next]_vars BY DEF HostNext, hostVars, rateVars
<1>4. RateInv /\ SaidFair /\ [Next]_vars => (RateInv /\ SaidFair)'
  BY NextRates, StepsFair, RatesAssumed
<1> QED BY <1>1, <1>2, <1>3, <1>4

\* Every counter, what it really counted and what is said of it stay what they are:
\* a report is a natural number, that is the differences of two readings in
\* collector_linux.go, collector_windows*.go and storage_rates.go never show less
\* than nothing.
THEOREM RatesTypeCorrect == HostSpec => []TypeOK
<1>1. RateInv /\ SaidFair => TypeOK
  <2> SUFFICES ASSUME RateInv, SaidFair PROVE TypeOK
    OBVIOUS
  <2>1. /\ kind \in Kinds /\ now \in Nat \ {0} /\ now <= MaxTime /\ MaxTime \in Nat
    BY RatesAssumed DEF RateInv, Typed, RatesAssumption
  <2>2. ASSUME NEW k \in Keys PROVE count[k] \in Absent..MaxTime /\ moved[k] \in 0..MaxTime
    <3>1. moved[k] \in Nat /\ moved[k] < now /\ (count[k] = Absent \/ count[k] \in 0 .. now)
      BY DEF RateInv, Typed
    <3> QED BY <3>1, <2>1 DEF Absent
  <2>3. \A r \in told : r.said \in Nat BY DEF SaidFair, Fair
  <2> QED BY <2>1, <2>2, <2>3 DEF TypeOK
<1> QED BY <1>1, HostRates, PTL DEF HostSpec

\* No rate or load is made of what did not happen between its two readings, but for
\* the mistakes the code does not notice (Rates' and TakenForWrap): not by an
\* interface, drive or process counter that began again or vanished, not by a counter
\* that wrapped, not by a process id that was used again, and not by two passes whose
\* readings were kept in the wrong order (collector_linux.go, collector_windows*.go,
\* storage_rates.go).
THEOREM RatesHonest == HostSpec => []NeverOverstated
<1>1. SaidFair => NeverOverstated BY DEF SaidFair, Fair, NeverOverstated
<1> QED BY <1>1, HostRates, PTL DEF HostSpec

\* Whichever lane ran, failed in part or panicked last, each metric without a value
\* says why (but swap before its lane has run), nothing measured outlives a slow lane
\* that panicked, a sensor is named exactly with its reading, and a snapshot with
\* processor and memory is a ready one (collector_linux.go, collector_windows.go,
\* sampler.go, selfcheck.go).
THEOREM SnapshotIsHonest == HostSpec => []SnapshotHonest
<1>1. HostInit => FieldInv BY FieldsInit DEF HostInit
<1>2. FieldInv /\ [HostNext]_hostVars => FieldInv'
  <2> SUFFICES ASSUME FieldInv, [HostNext]_hostVars PROVE FieldInv' OBVIOUS
  <2>1. [Snapshot!Next]_fieldVars BY DEF HostNext, hostVars, otherVars
  <2> QED BY <2>1, FieldsStep
<1>3. FieldInv => SnapshotHonest BY FieldsHonest DEF SnapshotHonest
<1> QED BY <1>1, <1>2, <1>3, PTL DEF HostSpec

\* The drive panel is blank only when no drive was found within the grace period, and
\* rows older than that are shown only while the discovery that may replace them has
\* just begun, whichever discoveries fail, panic or hang (collector_windows_cache.go).
THEOREM DriveListIsHonest == HostSpec => DriveListHonest
<1>1. HostInit => ListInv
  <2>1. ASSUME List!Init PROVE ListInv
    BY <2>1 DEF List!Init, ListInv
  <2> QED BY <2>1 DEF HostInit
<1>2. [HostNext]_hostVars => [List!Next]_listVars BY DEF HostNext, hostVars, diskVars
<1>3. ListInv /\ [HostNext]_hostVars => ListInv' BY <1>2, ListStep
<1>4. ListInv /\ [HostNext]_hostVars => [answer' # answer => Honest]_listVars
  <2> SUFFICES ASSUME ListInv, List!Next, answer' # answer PROVE Honest
    BY <1>2
  <2>1. List!PassAtOnce \/ List!FirstPassAnswered
    BY DEF List!Next, List!Tick, List!FirstPassWaits, List!DiscoveryEnds
  <2> QED BY <2>1, AnsweredHonestly
<1>5. [][answer' # answer => Honest]_listVars => DriveListHonest
  BY PTL DEF DriveListHonest, List!DriveListHonest, List!vars, listVars, Honest
<1> QED BY <1>1, <1>3, <1>4, <1>5, PTL DEF HostSpec

\* While the same sensors can be read, the CPU temperature comes from the same class of
\* register, however warm each is (metrics.go, rankCPUTemperature), and the ceiling of
\* the clock is the highest believable clock seen or the seed (cpu_clock_peak.go).
THEOREM TemperatureKeepsItsMeaning == HostSpec => TemperatureKeepsMeaning
<1>1. HostInit => SensorInv BY SensorsInit DEF HostInit
<1>2. SensorInv /\ [HostNext]_hostVars => SensorInv' /\ [MeaningKept]_sensorVars
  <2> SUFFICES ASSUME SensorInv, [HostNext]_hostVars PROVE SensorInv' /\ [MeaningKept]_sensorVars
    OBVIOUS
  <2>1. [Sensed!Next]_sensorVars BY DEF HostNext, hostVars, otherVars
  <2>2. CASE Sensed!Next
    <3>1. SensorInv' /\ MeaningKept
      BY <2>2, ReadTemperaturesInv, ObserveClockInv DEF Sensed!Next, MeaningKept
    <3> QED BY <3>1
  <2>3. CASE UNCHANGED sensorVars BY <2>3 DEF SensorInv, sensorVars
  <2> QED BY <2>1, <2>2, <2>3
<1>3. SensorInv => (part = "sensors" => Sensed!CeilingIsHighestSeen) BY CeilingIs
<1>4. [][MeaningKept]_sensorVars => Sensed!TemperatureKeepsMeaning
  BY PTL DEF Sensed!TemperatureKeepsMeaning, Sensed!vars, sensorVars, MeaningKept
<1> QED BY <1>1, <1>2, <1>3, <1>4, PTL DEF HostSpec, TemperatureKeepsMeaning

\* The process table files a process only under one it descends from, and counts no
\* other as the agent's; what it files under a shell or a terminal has nothing else
\* above it; and of the rows sent none are missing that have used more processor time
\* (process_tree.go, agent_cost.go, processes.go).
THEOREM ProcessesAreFiledRight == HostSpec => []ProcessesFiledRight
<1>1. HostInit => FilingInv
  <2> SUFFICES ASSUME HostInit PROVE FilingInv OBVIOUS
  <2>1. View!Init /\ (part = "table" => Table!Init) BY DEF HostInit
  <2>2. view = View!NoView BY <2>1 DEF View!Init
  <2> QED BY <2>1, <2>2, FilesInit, RowsInit, NothingFiled DEF FilingInv, FiledInv
<1>2. FilingInv /\ [HostNext]_hostVars => FilingInv'
  <2> SUFFICES ASSUME FilingInv, [HostNext]_hostVars PROVE FilingInv' OBVIOUS
  <2>1. part' = part BY DEF HostNext, hostVars
  <2>2. FiledInv'
    <3>1. View!Next \/ UNCHANGED processVars BY DEF HostNext, hostVars, rowVars
    <3> QED BY <3>1, FiledStays, FiledStep DEF FilingInv
  <2>3. ASSUME part = "table" PROVE TableInv'
    <3>1. TableInv BY <2>3 DEF FilingInv
    <3>2. CASE Table!Next BY <3>1, <3>2, SelectInv
    <3>3. CASE UNCHANGED tableVars
      <4>1. value' = value /\ sent' = sent BY <3>3 DEF tableVars
      <4> QED BY <3>1, <4>1 DEF TableInv, ValueInv, CPU, Table!CPULeadersSent, Table!LeadersSent
    <3>4. Table!Next \/ UNCHANGED tableVars BY <2>3 DEF HostNext, hostVars, rowVars
    <3> QED BY <3>2, <3>3, <3>4
  <2> QED BY <2>1, <2>2, <2>3 DEF FilingInv
<1>3. FilingInv => ProcessesFiledRight
  BY DEF FilingInv, FiledInv, ViewInv, TableInv, ProcessesFiledRight
<1> QED BY <1>1, <1>2, <1>3, PTL DEF HostSpec

\* A drive whose device is silent keeps its row, and one read of it is outstanding at
\* most, however many passes come and give up; a file system counts once in its drive's
\* capacity wherever and in whatever order it is mounted; and what a machine reports as
\* an issue is a fault (collector_windows_storage.go, collector_linux.go,
\* storage_notes.go).
THEOREM DrivesAreCountedOnce == HostSpec => []DrivesCountedOnce
<1>1. HostInit => DriveInv BY WindowsFirst, LinuxFirst DEF HostInit, DriveInv
<1>2. DriveInv /\ [HostNext]_hostVars => DriveInv'
  <2> SUFFICES ASSUME DriveInv, [HostNext]_hostVars PROVE DriveInv' OBVIOUS
  <2>1. WindowsInv'
    <3>1. CASE Windows!Next BY <3>1, WindowsStep DEF DriveInv
    <3>2. CASE UNCHANGED windowsVars
      <4>1. reads' = reads /\ lastRead' = lastRead /\ discovery' = discovery /\ rows' = rows
        BY <3>2 DEF windowsVars
      <4> QED BY <4>1 DEF DriveInv, WindowsInv
    <3>3. Windows!Next \/ UNCHANGED windowsVars BY DEF HostNext, hostVars, diskVars
    <3> QED BY <3>1, <3>2, <3>3
  <2>2. LinuxInv'
    <3>1. CASE Linux!Next BY <3>1, LinuxStep DEF DriveInv
    <3>2. CASE UNCHANGED linuxVars
      <4>1. hardware' = hardware /\ holds' = holds /\ size' = size /\ table' = table
        BY <3>2 DEF linuxVars
      <4> QED BY <4>1 DEF DriveInv, LinuxInv
    <3>3. Linux!Next \/ UNCHANGED linuxVars BY DEF HostNext, hostVars, diskVars
    <3> QED BY <3>1, <3>2, <3>3
  <2> QED BY <2>1, <2>2 DEF DriveInv
<1>3. DriveInv => DrivesCountedOnce
  BY WindowsSound, CapacityOnce, FaultsAreIssues DEF DriveInv, DrivesCountedOnce
<1> QED BY <1>1, <1>2, <1>3, PTL DEF HostSpec

\* However often a response was written, in whichever transcripts and over however
\* many midnights, the chart counts what was used on a day once; a Codex count that
\* started again may hide some of it and never adds any (token_usage.go:93-95, 202-203).
THEOREM TokensAreCountedOnce == HostSpec => []TokensCountedOnce
<1>1. HostInit => TokenInv BY TokensFirst DEF HostInit
<1>2. TokenInv /\ [HostNext]_hostVars => TokenInv'
  <2> SUFFICES ASSUME TokenInv, [HostNext]_hostVars PROVE TokenInv' OBVIOUS
  <2>1. CASE Tokens!Next
    <3>1. CASE Tokens!Midnight BY <3>1, MidnightInv
    <3>2. CASE \E f \in Files, n \in 1 .. MaxTokens : Tokens!Respond(f, n) BY <3>2, RespondInv
    <3>3. CASE \E f \in Files, n \in 1 .. MaxTokens : Tokens!Restart(f, n) BY <3>3, RestartInv
    <3>4. CASE \E f, g \in Files : Tokens!Repeat(f, g) BY <3>4, RepeatInv
    <3>5. CASE \E f \in Files : Tokens!HalfWrite(f) BY <3>5, HalfWriteInv
    <3>6. CASE Tokens!Scan BY <3>6, ScanInv
    <3> QED BY <2>1, <3>1, <3>2, <3>3, <3>4, <3>5, <3>6 DEF Tokens!Next
  <2>2. CASE UNCHANGED tokenVars BY <2>2, TokensStay
  <2>3. Tokens!Next \/ UNCHANGED tokenVars BY DEF HostNext, hostVars, otherVars
  <2> QED BY <2>1, <2>2, <2>3
<1>3. TokenInv => TokensCountedOnce BY DEF TokenInv, TokensCountedOnce
<1> QED BY <1>1, <1>2, <1>3, PTL DEF HostSpec
=============================================================================

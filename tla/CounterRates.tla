---------------------------- MODULE CounterRates -----------------------------
(***************************************************************************)
(* Every rate the agent shows is the difference of two readings of a       *)
(* cumulative counter of the machine: processor time, package energy,      *)
(* network, drive and process counters (src/collector_linux.go,            *)
(* src/collector_windows*.go, src/storage_rates.go).  The reading before   *)
(* last is kept in the collector, and two passes may be under way at once: *)
(* a sampling lane's and a request's of its own.  Counters wrap, start     *)
(* again and vanish.  A reading is stamped before or after it is made, so  *)
(* two that overlap may be stamped in one order and made in the other.     *)
(* The network's of Windows is as Linux's.                                 *)
(***************************************************************************)
EXTENDS Integers, FiniteSets

CONSTANTS Passes,     \* passes that may overlap
          Width,      \* values a Windows tick counter takes: 2^64
          MaxEnergy,  \* highest value of an energy counter
          MinSample,  \* shortest interval a rate is made from
          Unsteady,   \* bound: the counters that begin again or vanish
          MaxTime     \* bound: the clock stops here

\* What is assumed of the constants.
RatesAssumption ==
  /\ {Width, MaxEnergy, MinSample, MaxTime} \subseteq Nat \ {0}
  /\ 2 * MaxTime < Width

VARIABLES
  kind,   \* which collector
  now,
  count,  \* the machine's counters
  moved,  \* history: what each counter really counted
  born,   \* when the process or device behind a counter began
  kept,   \* the reading the collector keeps, and whether there is one
  pass,   \* where each pass is and what it has read
  told    \* what this step reported: what was said to have moved, and what did

vars == <<kind, now, count, moved, born, kept, pass, told>>

\* Of a processor: the time it was busy, and idle.
Busy == "one"
Idle == "two"
Keys == {Busy, Idle}
Absent == -1

Processes == {"linux processes", "windows processes"}
Power == {"power", "power of unknown range"}
Cpu == {"linux cpu", "windows cpu"}
Kinds == Processes \cup Power \cup Cpu \cup {"network", "drives"}

\* Keys are independent but where they are added up.
Live == IF kind \in Power \cup Cpu THEN Keys ELSE {Busy}

Reading(t, c, m, b) == [set |-> TRUE, at |-> t, count |-> c, moved |-> m, born |-> b]
Sample == Reading(now, count, moved, born)
Nowhere == [k \in Keys |-> 0]
NoReading == [Reading(0, [k \in Keys |-> Absent], Nowhere, Nowhere) EXCEPT !.set = FALSE]
AtRest == [at |-> "idle", got |-> NoReading, prev |-> NoReading]

\* Only Linux reads processor, energy and network counters at construction.
Init ==
  /\ kind \in Kinds /\ now = 1
  /\ count = [k \in Keys |-> 1] /\ moved = Nowhere /\ born = Nowhere
  /\ kept \in IF kind \in Power \cup {"linux cpu", "network"}
              THEN {NoReading, Sample} ELSE {NoReading}
  /\ pass = [p \in Passes |-> AtRest] /\ told = {}

-----------------------------------------------------------------------------
(* The machine.                                                             *)

Grown(k, n) ==
  IF count[k] = Absent THEN Absent
  ELSE IF kind \in Power THEN (count[k] + n) % (MaxEnergy + 1) ELSE count[k] + n

Tick(n) ==
  /\ now < MaxTime /\ now' = now + 1
  /\ \A k \in Keys : n[k] # 0 => k \in Live
  /\ count' = [k \in Keys |-> Grown(k, n[k])]
  /\ moved' = [k \in Keys |-> IF count[k] = Absent THEN moved[k] ELSE moved[k] + n[k]]
  /\ told' = {} /\ UNCHANGED <<kind, born, kept, pass>>

\* An interface or drive that is plugged in again, a process id used again, an
\* energy counter set back by its driver: once.
StartsAgain(k) ==
  /\ kind \notin Cpu /\ k \in Live \cap Unsteady /\ born[k] = 0
  /\ count' = [count EXCEPT ![k] = 0] /\ born' = [born EXCEPT ![k] = now]
  /\ told' = {} /\ UNCHANGED <<kind, now, moved, kept, pass>>

\* It is gone, or may not be read.
Vanishes(k) ==
  /\ kind \notin Cpu /\ k \in Live \cap Unsteady /\ count[k] # Absent
  /\ count' = [count EXCEPT ![k] = Absent]
  /\ told' = {} /\ UNCHANGED <<kind, now, moved, born, kept, pass>>

-----------------------------------------------------------------------------
(* Two readings compared.                                                   *)

Both(from, to) == {k \in Live : from.count[k] # Absent /\ to.count[k] # Absent}
Real(from, to, K) ==
  (IF Busy \in K THEN to.moved[Busy] - from.moved[Busy] ELSE 0)
  + (IF Idle \in K THEN to.moved[Idle] - from.moved[Idle] ELSE 0)

\* Mutant of Rate: a counter that went back is taken for one that wrapped.
RateUnsigned(from, to, k) ==
  IF kind = "windows processes" /\ from.born[k] # to.born[k] THEN Absent
  ELSE (to.count[k] - from.count[k]) % Width

\* networkCounterRate, diskCounterRate, processDiskRate, counterRate and
\* processCPUPercent: a counter that went back has no rate.
Rate(from, to, k) ==
  IF \/ to.count[k] < from.count[k]
     \/ kind = "windows processes" /\ from.born[k] # to.born[k]
  THEN Absent ELSE to.count[k] - from.count[k]

\* What was said to have moved, of how much, and what did, and whether the readings
\* were mistaken for what they are not.
Said(said, of, real, over, mistaken) ==
  [said |-> said, of |-> of, real |-> real, over |-> over, mistaken |-> mistaken]

\* A reading of an earlier counter is taken for one of the later.
Rates(from, to) ==
  {Said(Rate(from, to, k), 1, Real(from, to, {k}), 1, to.born[k] < from.born[k]) :
     k \in {k \in Both(from, to) : Rate(from, to, k) # Absent}}

\* A counter that is lower because it began again, or because it was read earlier,
\* is taken for one that wrapped; and the earlier reading may be the higher one of a
\* counter that wrapped or began again between the two.
TakenForWrap(from, to, k) ==
  \/ to.moved[k] < from.moved[k] \/ to.born[k] < from.born[k]
  \/ from.born[k] # to.born[k] /\ to.count[k] < from.count[k]

\* raplEnergyDelta
Energy(from, to, k) ==
  CASE to.count[k] >= from.count[k] -> to.count[k] - from.count[k]
    [] to.count[k] < from.count[k] /\ kind = "power" /\ MaxEnergy > from.count[k] ->
         MaxEnergy - from.count[k] + to.count[k]
    [] OTHER -> Absent

\* computeRAPLPower: one counter that wrapped unseen spoils the sum, and so does
\* one that has not moved at all.
Energies(from, to) ==
  LET K == Both(from, to)
      E(k) == IF k \in K THEN Energy(from, to, k) ELSE 0
  IN IF (\E k \in K : E(k) = Absent) \/ E(Busy) + E(Idle) = 0 THEN {}
     ELSE {Said(E(Busy) + E(Idle), 1, Real(from, to, K), 1,
                \E k \in K : TakenForWrap(from, to, k))}

Total(r) == r.count[Busy] + r.count[Idle]
Apart(x) == IF x < 0 THEN -x ELSE x
Load(said, of, from, to) ==
  {Said(said, of, Apart(Real(from, to, {Busy})), Apart(Real(from, to, Keys)), FALSE)}

\* cpuUsagePercent of Linux: readings in the wrong order have no load.
LinuxLoad(from, to) ==
  LET total == Total(to) - Total(from)
      idle == IF to.count[Idle] > from.count[Idle]
              THEN to.count[Idle] - from.count[Idle] ELSE 0
  IN IF ~from.set \/ Total(from) = 0 \/ total <= 0 \/ idle > total THEN {}
     ELSE Load(total - idle, total, from, to)

\* cpuUsagePercent of Windows: unsigned differences, the idle time capped.
WindowsLoad(from, to) ==
  LET total == (Total(to) - Total(from)) % Width
      idle == (to.count[Idle] - from.count[Idle]) % Width
  IN IF ~from.set \/ total = 0 THEN {}
     ELSE Load(IF idle > total THEN 0 ELSE total - idle, total, from, to)

Report(from, to) ==
  CASE kind = "linux cpu" -> LinuxLoad(from, to)
    [] kind = "windows cpu" -> WindowsLoad(from, to)
    [] kind \in Power -> Energies(from, to)
    [] OTHER -> IF from.set /\ to.at > from.at THEN Rates(from, to) ELSE {}

\* Nothing to compare with, or too soon after it: a second reading follows.
TooSoon(from, to) ==
  CASE kind \in Cpu -> Report(from, to) = {}
    [] kind \in Power \cup {"network"} -> ~from.set \/ to.at - from.at < MinSample
    [] OTHER -> FALSE

-----------------------------------------------------------------------------
(* The passes.  A report is made in the step that shows it.                 *)

\* Linux stamps process counters before nvidia-smi runs, and the energy counters'
\* first reading, before it is made.
StampsFirst == kind \in Power \cup {"linux processes"}

Stamps(p) ==
  /\ StampsFirst /\ pass[p].at = "idle"
  /\ pass' = [pass EXCEPT ![p] = [AtRest EXCEPT !.at = "stamped", !.got.at = now]]
  /\ told' = {} /\ UNCHANGED <<kind, now, count, moved, born, kept>>

Reads(p) ==
  /\ pass[p].at = (IF StampsFirst THEN "stamped" ELSE "idle")
  /\ pass' = [pass EXCEPT ![p] = [AtRest EXCEPT !.at = "read", !.got =
                [Sample EXCEPT !.at = IF StampsFirst THEN pass[p].got.at ELSE now]]]
  /\ told' = {} /\ UNCHANGED <<kind, now, count, moved, born, kept>>

\* Any other reading is stamped when it has been made, before the pass goes on; that
\* of a processor has no stamp.
StampsLast(at) ==
  \/ kind = "windows processes" /\ at = "read"
  \/ kind \in {"network", "drives"}
  \/ kind \in Power /\ at = "read again"
Stamped(q) ==
  IF StampsLast(q.at) THEN {[q.got EXCEPT !.at = t] : t \in q.got.at..now} ELSE {q.got}

\* The reading before last: that of process counters is fetched on its own, any
\* other as the pass leaves its own reading.
Looks(p) ==
  /\ kind \in Processes /\ pass[p].at = "read"
  /\ \E r \in Stamped(pass[p]) :
       pass' = [pass EXCEPT ![p] = [at |-> "looked", got |-> r, prev |-> kept]]
  /\ told' = {} /\ UNCHANGED <<kind, now, count, moved, born, kept>>

Before(p) == IF kind \in Processes THEN pass[p].prev ELSE kept

Stores(p) ==
  /\ pass[p].at = (IF kind \in Processes THEN "looked" ELSE "read")
  /\ \E r \in Stamped(pass[p]) :
       /\ kept' = r
       /\ IF TooSoon(Before(p), r)
            THEN /\ pass' = [pass EXCEPT ![p] = [at |-> "waiting", got |-> r, prev |-> NoReading]]
                 /\ told' = {}
            ELSE /\ pass' = [pass EXCEPT ![p] = AtRest]
                 /\ told' = Report(Before(p), r)
  /\ UNCHANGED <<kind, now, count, moved, born>>

\* A tenth or a quarter of a second later, or as much later as the goroutine runs.
ReadsAgain(p) ==
  /\ pass[p].at = "waiting"
  /\ pass' = [pass EXCEPT ![p] = [at |-> "read again", got |-> Sample, prev |-> pass[p].got]]
  /\ told' = {} /\ UNCHANGED <<kind, now, count, moved, born, kept>>

StoresAgain(p) ==
  /\ pass[p].at = "read again" /\ pass' = [pass EXCEPT ![p] = AtRest]
  /\ \E r \in Stamped(pass[p]) : kept' = r /\ told' = Report(pass[p].prev, r)
  /\ UNCHANGED <<kind, now, count, moved, born>>

\* The counters cannot be read or the pass is cancelled: what is kept stays.
Fails(p) ==
  /\ pass[p].at \in {"idle", "stamped", "waiting"}
  /\ pass' = [pass EXCEPT ![p] = AtRest] /\ told' = {}
  /\ UNCHANGED <<kind, now, count, moved, born, kept>>

Next ==
  \/ \E n \in [Keys -> 0..1] : Tick(n)
  \/ \E k \in Keys : StartsAgain(k) \/ Vanishes(k)
  \/ \E p \in Passes :
       \/ Stamps(p) \/ Reads(p) \/ Looks(p) \/ Stores(p)
       \/ ReadsAgain(p) \/ StoresAgain(p) \/ Fails(p)

Spec == Init /\ [][Next]_vars

-----------------------------------------------------------------------------
TypeOK ==
  /\ kind \in Kinds /\ now \in 1..MaxTime
  /\ \A k \in Keys : count[k] \in Absent..MaxTime /\ moved[k] \in 0..MaxTime
  /\ \A r \in told : r.said \in Nat

\* No rate or load is made of traffic, energy or work that did not happen between
\* the two readings: not by an interface, drive or process counter that began again,
\* not by a counter that wrapped, not by a process id that was used again, and not
\* by two passes whose readings were kept in the wrong order.  Left out is what the
\* code does not notice.  Of two passes that overlap, one may read a counter after it
\* began again and the other before, and be stamped in the other order
\* (collector_linux.go:1884-1921, 1613-1633).  And an energy counter whose range is
\* known is taken for one that wrapped whenever the later stamped reading is lower,
\* though it began again or was read earlier (raplEnergyDelta,
\* collector_linux.go:594-601).
NeverOverstated ==
  \A r \in told : ~r.mistaken => r.said * r.over <= r.of * (IF r.real > 0 THEN r.real ELSE 0)
=============================================================================

----------------------------- MODULE CpuSensors ------------------------------
(***************************************************************************)
(* Two readings of the processor that are chosen, not measured: which      *)
(* temperature sensor stands for the whole processor                       *)
(* (src/metrics.go:343-543), and the ceiling its clock is drawn against,   *)
(* the highest clock seen (src/cpu_clock_peak.go).  Sensors come and go    *)
(* between passes and a clock may be read wrong.                           *)
(***************************************************************************)
EXTENDS Integers, FiniteSets, FiniteSetsExt, TLC

CONSTANTS Degrees,     \* what a sensor may read
          Clocks,      \* clocks of a core
          MinClock,    \* cpuClockPeakMinMHz
          MaxClock,    \* cpuClockPeakMaxMHz
          Seed         \* the ceiling a known base clock starts with; 0: unknown

\* What is assumed of the constants.
CpuAssumption ==
  /\ Degrees \subseteq Nat \ {0} /\ Clocks \subseteq Nat \ {0} /\ Seed \in Nat
  /\ MinClock \in Nat \ {0} /\ MaxClock \in Nat /\ MinClock <= MaxClock
  /\ Seed <= MaxClock

VARIABLES
  celsius,  \* what each sensor of this host reads; 0: nothing
  picked,   \* the sensors the CPU temperature may have come from, and their meaning
  clocks,   \* fastest core and mean of this pass; 0: not read
  ceiling,  \* peakMHz of cpuClockPeakTracker
  seen      \* history: the highest plausible clock so far

vars == <<celsius, picked, clocks, ceiling, seen>>

\* Sensors by what their name says.  The first two are in the table of
\* canonical sensors, in this order; the rest is ranked.
Canonical == <<"core (tctl/tdie)", "coretemp package id 0">>
Sensors ==
  {"core (tctl/tdie)", "k8temp tctl", "coretemp package id 0", "package",
   "coretemp core 0", "coretemp core 1", "ccd1", "nct6799 cpu"}
Rank ==
  [s \in Sensors |->
     CASE s \in {"core (tctl/tdie)", "k8temp tctl"} -> 0
       [] s \in {"coretemp package id 0", "package"} -> 1
       [] s \in {"coretemp core 0", "coretemp core 1"} -> 2
       [] s \in {"ccd1", "nct6799 cpu"} -> 4]
None == 4

Unread == [s \in Sensors |-> 0]
Nobody == [from |-> {}, means |-> "nothing"]

\* A host has few of them.
Hosts == {{"core (tctl/tdie)", "package", "ccd1"},
          {"coretemp package id 0", "coretemp core 0", "nct6799 cpu"},
          {"k8temp tctl", "package", "ccd1"},
          {"coretemp core 0", "coretemp core 1", "nct6799 cpu"},
          {"ccd1", "nct6799 cpu"}}

Available(c) == {s \in Sensors : c[s] > 0}
Warmest(S, c) == {s \in S : \A t \in S : c[t] <= c[s]}

\* Mutant of DieRank: the control and the package register are one tier.
DieRankOneTier(s) == IF Rank[s] = None THEN None ELSE 0

\* cpuDieTemperatureRank
DieRank(s) == Rank[s]

\* rankCPUTemperature: best rank first, warmest within a rank; sensors that do
\* not describe the whole processor only when there is nothing else.
RankCPUTemperature(c) ==
  LET best == Min({DieRank(s) : s \in Available(c)})
  IN Warmest({s \in Available(c) : DieRank(s) = best}, c)

PickCPUTemperatureSensor(c) ==
  LET listed == {i \in DOMAIN Canonical : c[Canonical[i]] > 0}
  IN IF Available(c) = {} THEN {}
     ELSE IF listed # {} THEN {Canonical[Min(listed)]}
     ELSE RankCPUTemperature(c)

\* What the reading means: the register class it comes from.
Meaning(from) == IF from = {} THEN "nothing" ELSE ToString({Rank[s] : s \in from})

Init ==
  /\ celsius = Unread /\ picked = Nobody
  /\ clocks = [peakCore |-> 0, current |-> 0] /\ ceiling = 0 /\ seen = 0

ReadTemperatures(host, c) ==
  /\ celsius' = [s \in Sensors |-> IF s \in host THEN c[s] ELSE 0]
  /\ LET from == PickCPUTemperatureSensor(celsius')
     IN picked' = [from |-> from, means |-> Meaning(from)]
  /\ UNCHANGED <<clocks, ceiling, seen>>

-----------------------------------------------------------------------------
PlausibleCPUClock(mhz) == mhz >= MinClock /\ mhz <= MaxClock

\* The fastest core, or else the mean.
Sample(peakCore, current) ==
  IF PlausibleCPUClock(peakCore) THEN peakCore
  ELSE IF PlausibleCPUClock(current) THEN current ELSE 0

\* Seeded from the base clock once, and from then on it only rises.  Fastest
\* core and mean come from one pass.
ObserveClock(peakCore, current) ==
  LET held == IF ceiling = 0 THEN Seed ELSE ceiling
      sample == Sample(peakCore, current)
      good == {m \in {peakCore, current, seen} : m = seen \/ (m >= MinClock /\ m <= MaxClock)}
  IN /\ (PlausibleCPUClock(peakCore) /\ PlausibleCPUClock(current)) => current <= peakCore
     /\ clocks' = [peakCore |-> peakCore, current |-> current]
     /\ ceiling' = IF sample > held THEN sample ELSE held
     /\ seen' = Max(good)
     /\ UNCHANGED <<celsius, picked>>

Next ==
  \/ \E host \in Hosts : \E c \in [host -> Degrees \cup {0}] :
       ReadTemperatures(host, c)
  \/ \E peakCore, current \in Clocks \cup {0} : ObserveClock(peakCore, current)

Spec == Init /\ [][Next]_vars

-----------------------------------------------------------------------------
(* Properties.                                                              *)

\* A sensor that only grows warmer or colder never makes the CPU temperature
\* change its meaning from one pass to the next (metrics.go:374-379, 459-466).
TemperatureKeepsMeaning ==
  [][Available(celsius) = Available(celsius') => picked'.means = picked.means]_vars

\* The ceiling is exactly the highest believable clock seen since the agent
\* started, or the seed: it never falls, and a reading no processor makes never
\* raises it (cpu_clock_peak.go:41-47, 55-59).
CeilingIsHighestSeen == ceiling = 0 \/ ceiling = Max({seen, Seed})
=============================================================================

--------------------------- MODULE SnapshotFields ----------------------------
(***************************************************************************)
(* What a snapshot is made of: which metrics each lane of                  *)
(* src/collector_linux.go and src/collector_windows*.go assigns, when every *)
(* collector in it may fail or panic on its own and the lane as a whole    *)
(* may too, over the warming snapshot of src/sampler.go; and what          *)
(* src/selfcheck.go lets through as ready.  A metric is a value, or the    *)
(* reason there is none, or nothing at all.                                *)
(***************************************************************************)
EXTENDS Naturals, FiniteSetsExt

CONSTANT MaxFailed   \* bound: collectors that fail in one pass

VARIABLES os,
          working,  \* the sampler's snapshot: what each metric is
          shown,    \* the snapshot a request gets
          ended     \* history: how the last pass of each lane ended

vars == <<os, working, shown, ended>>

\* Rails and Clocks stand for the metrics resolved together; TemperatureSensor
\* is the name of the sensor that CPUTemperature comes from, and no metric.
Fields ==
  {"CPU", "CPUCores", "Memory", "MemorySwap", "MemoryCommit", "Pressure", "CPUPower",
   "Rails", "Clocks", "CPUTemperature", "TemperatureSensor", "PSUOutputPower", "Disks",
   "Storage", "Network", "Tailscale", "Temperatures", "GPU", "Processes"}

Sensed == {"CPUTemperature", "TemperatureSensor"}

\* What the fast lane of each platform assigns.
FastFields(o) ==
  {"CPU", "CPUCores", "Memory"}
  \cup (IF o = "linux" THEN {"MemorySwap"} ELSE {"MemoryCommit", "Pressure"})

SlowFieldsLinux == Fields \ FastFields("linux")
SlowFieldsWindows == Fields \ FastFields("windows")
SlowFields(o) == IF o = "linux" THEN SlowFieldsLinux ELSE SlowFieldsWindows

\* What a platform has at no time.
Never(o) ==
  IF o = "linux" THEN {"MemoryCommit", "Rails", "PSUOutputPower"} ELSE {"Pressure"}

\* Metrics of one reading fail together: both memories in one call, every clock,
\* and the temperature of the processor with all the others.
Together(f, o) ==
  CASE f = "Memory" -> IF o = "linux" THEN {"Memory", "MemorySwap"}
                       ELSE {"Memory", "MemoryCommit"}
    [] f = "Temperatures" -> {"Temperatures"} \cup Sensed
    [] f \in Sensed -> Sensed
    [] OTHER -> {f}

\* What an unavailable metric is: a name is just empty, and needs no reason.
Degraded(f) == IF f = "TemperatureSensor" THEN "nothing" ELSE "reason"

\* What a pass assigns to what it owns when the collectors in failed fail.
Assigned(owned, failed, o) ==
  [f \in owned |->
     IF f \in Never(o) \/ \E g \in failed : f \in Together(g, o)
     THEN Degraded(f) ELSE "value"]

Over(patch) == [f \in Fields |-> IF f \in DOMAIN patch THEN patch[f] ELSE working[f]]

\* Mutant of Unset: the warming snapshot forgets the network.
UnsetTwo == {"MemorySwap", "TemperatureSensor", "Network"}

\* warmingMetrics gives every metric a reason but swap.
Unset == {"MemorySwap", "TemperatureSensor"}

Init ==
  /\ os \in {"linux", "windows"}
  /\ working = [f \in Fields |-> IF f \in Unset THEN "nothing" ELSE "reason"]
  /\ shown = working
  /\ ended = [fast |-> "not run", slow |-> "not run"]

FewOf(S) == UNION {kSubset(n, S) : n \in 0..MaxFailed}

\* A lane patches the sampler's snapshot and publishes it.
Publishes(patch, lane, how) ==
  /\ working' = Over(patch) /\ shown' = working'
  /\ ended' = [ended EXCEPT ![lane] = how] /\ UNCHANGED os

FastPass ==
  \E failed \in FewOf(FastFields(os)) :
    Publishes(Assigned(FastFields(os), failed, os), "fast", "done")

\* A panic outside the collectors degrades all the lane owns.
FastPanics ==
  Publishes([f \in FastFields(os) |-> Degraded(f)], "fast", "panicked")

SlowPass ==
  \E failed \in FewOf(SlowFields(os)) :
    Publishes(Assigned(SlowFields(os), failed, os), "slow", "done")

\* linuxDegradedSlowPatch and windowsDegradedSlowPatch.
DegradedFields(o) == SlowFields(o) \ (IF o = "linux" THEN {"MemoryCommit"} ELSE {})

SlowPanics ==
  Publishes([f \in DegradedFields(os) |-> Degraded(f)], "slow", "panicked")

\* Collect, for the request that comes before the first pass: all of it at once,
\* and into a snapshot of its own.
CollectAll ==
  /\ \A lane \in {"fast", "slow"} : ended[lane] = "not run"
  /\ \E failed \in FewOf(Fields) : shown' = Assigned(Fields, failed, os)
  /\ UNCHANGED <<os, working, ended>>

Next == FastPass \/ FastPanics \/ SlowPass \/ SlowPanics \/ CollectAll

Spec == Init /\ [][Next]_vars

-----------------------------------------------------------------------------
(* src/selfcheck.go                                                         *)

\* The validators of the sets.
SaysWhy(s, f) == s[f] # "nothing"

\* validateMetricsShape: processor and memory must be there, the sets that are
\* not must say why, and the rest is optional.
ValidShape(s) ==
  /\ s["CPU"] = "value" /\ s["Memory"] = "value"
  /\ \A f \in {"Disks", "Network", "Temperatures", "GPU", "Tailscale"} : SaysWhy(s, f)

TypeOK ==
  /\ os \in {"linux", "windows"}
  /\ {working, shown} \subseteq [Fields -> {"value", "reason", "nothing"}]
  /\ ended \in [{"fast", "slow"} -> {"not run", "done", "panicked"}]

\* In every snapshot, whichever lane ran or panicked last, each metric without a
\* value says why; only swap does not, until its lane has run.
NoSilentGap ==
  \A f \in Fields \ {"TemperatureSensor"} : shown[f] = "nothing" =>
    /\ f = "MemorySwap"
    /\ ended[IF os = "linux" THEN "fast" ELSE "slow"] = "not run"

\* After a slow lane that panicked, nothing it measured before is still shown,
\* and a sensor is named exactly when its reading is there.
NoReadingOutlivesItsPass ==
  /\ ended.slow = "panicked" => \A f \in SlowFields(os) : shown[f] # "value"
  /\ (shown["TemperatureSensor"] = "value") <=> (shown["CPUTemperature"] = "value")

\* A snapshot with processor and memory is a ready one: nothing that failed in
\* either lane takes the agent out of service.
ReadyOnceMeasured ==
  shown["CPU"] = "value" /\ shown["Memory"] = "value" => ValidShape(shown)
=============================================================================

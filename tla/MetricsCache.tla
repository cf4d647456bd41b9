---------------------------- MODULE MetricsCache -----------------------------
(***************************************************************************)
(* What /api/metrics and /readyz are answered with: the 250 ms cache and   *)
(* the coalescing collector of src/collector.go before the resident        *)
(* sampler of src/sampler.go, which hands out its snapshot, or collects    *)
(* from the platform while it has none.  A lane copies and stamps the      *)
(* working snapshot under one lock and stores the copy under the next; in  *)
(* between another may store its own.  A reading is the time it was        *)
(* stamped, whether it has CPU and memory (full), and whether a request    *)
(* collected it itself (own); 0 is no reading.                             *)
(***************************************************************************)
EXTENDS Integers

CONSTANTS Callers,
          TTL,       \* metricsCacheTTL
          Timeout,   \* metricsCollectTimeout
          MaxAge,    \* the age validateMetricsTimestampFreshness accepts
          Delay,     \* how long a goroutine that is ready to run may be held up
          FirstPass, \* bound: the fast lane's first pass is over by then, or fails
          MaxTime    \* bound: the clock stops here

\* What is assumed of the constants.
CacheAssumption ==
  /\ {TTL, Timeout, MaxAge, Delay, FirstPass, MaxTime} \subseteq Nat \ {0}
  /\ "none" \notin Callers

VARIABLES now,
          working,    \* when the working snapshot got CPU and memory, 0 for not yet
          published,  \* the sampler's snapshot
          cache,      \* the cached reading and when it was stored
          flight,     \* the caller whose collection is in flight, or "none"
          call,       \* per caller: where it is, since when, and what it got
          shot,       \* history: when one of the snapshots was stored, whichever, or 0
          measured    \* history: have CPU and memory ever been measured?

sampled == <<working, published, shot>>
vars == <<now, sampled, cache, flight, call, measured>>

Nothing == [taken |-> 0, full |-> FALSE, own |-> FALSE]
Quiet == [at |-> "idle", asked |-> 0, since |-> 0, leader |-> "none", got |-> Nothing]

Init ==
  /\ now = 1
  /\ working = 0
  /\ published = Nothing /\ shot = 0 /\ measured = FALSE
  /\ cache = [reading |-> Nothing, stored |-> 0]
  /\ flight = "none"
  /\ call = [c \in Callers |-> Quiet]

-----------------------------------------------------------------------------
\* The clock waits for no goroutine longer than Delay, and a collection ends
\* with its context.
Tick ==
  /\ now < MaxTime /\ now' = now + 1
  /\ \A c \in Callers :
       /\ call[c].at \in {"join", "collect", "store"} => now - call[c].since < Delay
       /\ call[c].at \in {"measure", "follow"} => now - call[c].asked < Timeout
  /\ UNCHANGED <<sampled, cache, flight, call, measured>>

\* The first critical section of applyLaneAndPublish, for the fast lane's first
\* patch: from now on a copy of the working snapshot has CPU and memory.
FastLaneMerges ==
  /\ now <= FirstPass /\ working = 0
  /\ working' = now /\ measured' = TRUE
  /\ UNCHANGED <<now, published, shot, cache, flight, call>>

\* What the copies stamped at t can be; the lanes merge and copy at any moment of t.
Copies(t) ==
  {[taken |-> t, full |-> full, own |-> FALSE] : full \in
     {f \in BOOLEAN : IF f THEN working # 0 /\ working <= t ELSE working = 0 \/ working >= t}}

\* The second critical section: a lane stores the copy it made and stamped in the
\* first, before finishMetrics, the history and the encoding.  Nobody sees a copy
\* before it is stored, so this step chooses when it was made, and a later copy may
\* have been stored meanwhile by another lane.
LaneStores(t) ==
  /\ now - t <= Delay
  /\ published' \in Copies(t)
  /\ shot' \in IF shot = 0 THEN {0, now} ELSE {shot}
  /\ UNCHANGED <<now, working, cache, flight, call, measured>>

Goes(c, from, to) ==
  /\ call[c].at = from /\ call' = [call EXCEPT ![c] = to]
  /\ UNCHANGED <<now, sampled>>

\* Mutant of Fresh: a hit at the very end of the reading's life.
FreshAtTheEnd == cache.stored # 0 /\ now - cache.stored <= TTL

Fresh == cache.stored # 0 /\ now - cache.stored < TTL

AskHit(c) ==
  /\ Fresh
  /\ Goes(c, "idle", Quiet)
  /\ UNCHANGED <<cache, flight, measured>>

AskMiss(c) ==
  /\ ~Fresh
  /\ Goes(c, "idle", [Quiet EXCEPT !.at = "join", !.asked = now, !.since = now])
  /\ UNCHANGED <<cache, flight, measured>>

Lead(c) ==
  /\ flight = "none" /\ flight' = c
  /\ Goes(c, "join", [call[c] EXCEPT !.at = "collect", !.since = now])
  /\ UNCHANGED <<cache, measured>>

Follow(c) ==
  /\ flight # "none"
  /\ Goes(c, "join", [call[c] EXCEPT !.at = "follow", !.leader = flight, !.since = 0])
  /\ UNCHANGED <<cache, flight, measured>>

\* The deferred part of a leader, for a reading, an error and a panic alike: the
\* outcome goes to the followers and the flight ends.
FlightAfter(panicked) == "none"

LandsWith(c, d) == d = c \/ (call[d].at = "follow" /\ call[d].leader = c)

Land(c, reading, panicked) ==
  /\ call' = [d \in Callers |->
       CASE ~LandsWith(c, d) -> call[d]
         [] LandsWith(c, d) /\ reading = Nothing -> Quiet
         [] OTHER -> [call[d] EXCEPT !.at = "store", !.since = now, !.leader = "none",
                                     !.got = reading]]
  /\ flight' = FlightAfter(panicked)
  /\ UNCHANGED <<now, sampled, cache, measured>>

CollectSnapshot(c) ==
  call[c].at = "collect" /\ published.taken # 0 /\ Land(c, published, FALSE)

\* The platform's own collection, which is stamped as it begins (baseMetrics) and
\* measures everything; the lanes go on meanwhile.
Measure(c) ==
  /\ published.taken = 0
  /\ Goes(c, "collect", [call[c] EXCEPT !.at = "measure", !.since = 0,
                           !.got = [taken |-> now, full |-> TRUE, own |-> TRUE]])
  /\ measured' = TRUE
  /\ UNCHANGED <<cache, flight>>

CollectDirectly(c) == call[c].at = "measure" /\ Land(c, call[c].got, FALSE)

CollectFails(c, panicked) == call[c].at = "measure" /\ Land(c, Nothing, panicked)

\* A follower whose own context is done first.
FollowerGivesUp(c) ==
  /\ now - call[c].asked >= Timeout
  /\ Goes(c, "follow", Quiet)
  /\ UNCHANGED <<cache, flight, measured>>

\* Leader and followers all store what they were given.
Store(c) ==
  /\ Goes(c, "store", Quiet)
  /\ cache' = [reading |-> call[c].got, stored |-> now]
  /\ UNCHANGED <<flight, measured>>

Next ==
  \/ Tick
  \/ FastLaneMerges
  \/ \E t \in 1..now : LaneStores(t)
  \/ \E c \in Callers :
       \/ AskHit(c) \/ AskMiss(c) \/ Lead(c) \/ Follow(c) \/ CollectSnapshot(c)
       \/ Measure(c) \/ CollectDirectly(c) \/ FollowerGivesUp(c) \/ Store(c)
       \/ \E panicked \in BOOLEAN : CollectFails(c, panicked)

Spec == Init /\ [][Next]_vars

-----------------------------------------------------------------------------
\* What requests can be answered with, and when they were made: a hit with the
\* cached reading, a leader or a follower with what it was given.
Answers ==
  {a \in [asked : {now}, got : {cache.reading}] : Fresh}
  \cup {[asked |-> call[c].asked, got |-> call[c].got] : c \in {d \in Callers : call[d].at = "store"}}

\* Mutant of Ready: a fresh reading is enough.
ReadyIfFresh(reading) == now - reading.taken <= MaxAge

\* GET /readyz: what validateMetricsTimestampFreshness and validateMetricsShape
\* let through.
Ready(reading) == now - reading.taken <= MaxAge /\ reading.full

Readings == [taken : 0..MaxTime, full : BOOLEAN, own : BOOLEAN]

TypeOK ==
  /\ now \in 1..MaxTime
  /\ {working, shot} \subseteq 0..MaxTime /\ published \in Readings
  /\ flight \in Callers \cup {"none"}
  /\ \A c \in Callers :
       call[c].at \in {"idle", "join", "collect", "measure", "follow", "store"}

\* How long before it was handed over a reading may have been stamped.
Behind(reading) == IF reading.own THEN Timeout ELSE Delay

\* However hits, misses, leaders, followers and lanes interleave, an answer is no
\* further behind the snapshots that were stored longer ago than the cache's life
\* and the delay of one goroutine than a lane may be overtaken between its copy
\* and its store, or than its own collection took: although each goroutine dates
\* what it stores with its own, later time, and an older reading may replace a
\* newer one in the cache as well as in the sampler (sampler.go:353-375).
ReadingAgeBounded ==
  \A a \in Answers : shot + TTL + Delay <= a.asked => shot <= a.got.taken + Behind(a.got)

\* A collection that fails or panics leaves no flight behind for later callers
\* to follow: whoever is followed is still collecting.
NoDeadFlight == flight # "none" => call[flight].at \in {"collect", "measure"}

\* The agent calls itself ready only after CPU and memory have been measured,
\* whichever lane published first and whichever caller filled the cache.
ReadyOnlyMeasured == \A a \in Answers : Ready(a.got) => measured
=============================================================================

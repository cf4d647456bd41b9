--------------------------- MODULE ServicesProofs ---------------------------
(***************************************************************************)
(* Why what the agent serves is right, and what its service depends on     *)
(* holds: the metrics cache, the sensor bridge, the history, the process,  *)
(* a relayed stream, the quota and the update helper, each with its        *)
(* inductive invariant, for every value of the delays, sizes and bounds    *)
(* that MCServices leaves open.  The theorems are at the end.              *)
(***************************************************************************)
EXTENDS MCServices, HistoryBucketsProofs

-----------------------------------------------------------------------------
(* The metrics cache: Cache, src/collector.go.                              *)

CacheReadings == [taken : 0 .. CacheTime, full : BOOLEAN, own : BOOLEAN]
CacheCalls ==
  [at : {"idle", "join", "collect", "measure", "follow", "store"},
   asked : 0 .. CacheTime, since : 0 .. CacheTime, leader : Callers \cup {"none"},
   got : CacheReadings]

CacheTyped ==
  /\ mNow \in 1 .. CacheTime
  /\ working \in 0 .. CacheTime /\ shot \in 0 .. CacheTime
  /\ published \in CacheReadings
  /\ cache \in [reading : CacheReadings, stored : 0 .. CacheTime]
  /\ flight \in Callers \cup {"none"}
  /\ mCall \in [Callers -> CacheCalls]
  /\ measured \in BOOLEAN

\* Whoever collects is the one in flight, and the other way round.
OneFlight == \A c \in Callers : mCall[c].at \in {"collect", "measure"} <=> flight = c

\* A goroutine that is ready to run was made so no longer than the delay ago, and
\* a collection began no longer than its timeout ago.
CacheTimes ==
  /\ cache.stored <= mNow /\ shot <= mNow
  /\ \A c \in Callers :
       /\ mCall[c].asked <= mNow
       /\ mCall[c].at \in {"join", "store"} =>
            /\ mNow - mCall[c].since <= HeldUp
            /\ mCall[c].asked <= mCall[c].since /\ mCall[c].since <= mNow
       /\ mCall[c].at = "measure" =>
            /\ mCall[c].got.own
            /\ mCall[c].asked <= mCall[c].got.taken
            /\ mNow - mCall[c].got.taken <= CollectTimeout

\* A reading that lacks nothing stored before t, but for what its lane was
\* overtaken by or its own collection had no time to see.
Holds(reading, t) == shot < t => shot <= reading.taken + Cache!Behind(reading)

\* What each reading can lack: the published one only what overtook it, a landed
\* one also what was stored after it landed, the cached one what was stored later
\* than a delay before it.
NothingLost ==
  /\ ~published.own /\ shot <= published.taken + HeldUp
  /\ cache.stored # 0 => Holds(cache.reading, cache.stored - HeldUp)
  /\ \A c \in Callers : mCall[c].at = "store" => Holds(mCall[c].got, mCall[c].since)

\* Only what was measured is in a full reading.
FullIsMeasured ==
  /\ working # 0 => measured
  /\ published.full => measured
  /\ cache.reading.full => measured
  /\ \A c \in Callers : mCall[c].got.full => measured

CacheInv == CacheTyped /\ OneFlight /\ CacheTimes /\ NothingLost /\ FullIsMeasured

LEMMA CacheConstants ==
  /\ MetricsTTL \in Nat \ {0} /\ CollectTimeout \in Nat \ {0} /\ HeldUp \in Nat \ {0}
  /\ CacheTime \in Nat \ {0} /\ MetricsMaxAge \in Nat \ {0}
  /\ "none" \notin Callers
  BY CacheAssumed DEF Cache!CacheAssumption

LEMMA CacheInit == Cache!Init => CacheInv
<1> SUFFICES ASSUME Cache!Init PROVE CacheInv
  OBVIOUS
<1>1. Cache!Nothing \in CacheReadings /\ ~Cache!Nothing.full /\ ~Cache!Nothing.own
      /\ Cache!Nothing.taken = 0
  BY CacheConstants DEF Cache!Nothing, CacheReadings
<1>2. Cache!Quiet \in CacheCalls /\ Cache!Quiet.at = "idle" /\ Cache!Quiet.asked = 0
      /\ ~Cache!Quiet.got.full
  BY <1>1, CacheConstants DEF Cache!Quiet, CacheCalls
<1>3. 1 \in 1 .. CacheTime /\ 0 \in 0 .. CacheTime
  BY CacheConstants
<1>4. CacheTyped
  <2>1. cache \in [reading : CacheReadings, stored : 0 .. CacheTime]
    BY <1>1, <1>3 DEF Cache!Init
  <2>2. mCall \in [Callers -> CacheCalls]
    BY <1>2 DEF Cache!Init
  <2> QED
    BY <1>1, <1>3, <2>1, <2>2 DEF Cache!Init, CacheTyped
<1> QED
  BY <1>1, <1>2, <1>4, CacheConstants
  DEF Cache!Init, CacheInv, OneFlight, CacheTimes, NothingLost, FullIsMeasured

\* One caller moves on to `to`, which keeps what is to be kept.
CallerMove(c, to) ==
  /\ mCall' = [mCall EXCEPT ![c] = to]
  /\ UNCHANGED <<mNow, working, published, shot>>
  /\ measured' \in BOOLEAN /\ (measured => measured')
  /\ \/ cache' = cache
     \/ cache' = [reading |-> mCall[c].got, stored |-> mNow] /\ mCall[c].at = "store"
  /\ flight' \in Callers \cup {"none"}
  /\ \A d \in Callers \ {c} : flight' = d <=> flight = d
  /\ to.at \in {"collect", "measure"} <=> flight' = c
  /\ to.asked <= mNow
  /\ to.at = "join" => to.asked = mNow /\ to.since = mNow
  /\ to.at = "measure" => to.got.own /\ to.got.taken = mNow
  /\ to.at # "store"
  /\ to.got.full => measured'

LEMMA CallerMoves ==
  ASSUME CacheInv, NEW c \in Callers, NEW to \in CacheCalls, CallerMove(c, to)
  PROVE  CacheInv'
<1> USE CacheConstants DEF CacheInv, CallerMove
<1>1. CacheTyped'
  BY DEF CacheTyped, CacheCalls
<1>2. OneFlight'
  BY DEF OneFlight, CacheTyped
<1>3. CacheTimes'
  BY DEF CacheTimes, CacheTyped, CacheCalls
<1>4. NothingLost'
  <2>1. CASE cache' = cache
    BY <2>1 DEF NothingLost, Holds, CacheTyped, Cache!Behind
  <2>2. CASE cache' = [reading |-> mCall[c].got, stored |-> mNow] /\ mCall[c].at = "store"
    <3>1. cache'.reading = mCall[c].got /\ cache'.stored = mNow
      BY <2>2
    <3>2. Holds(mCall[c].got, mCall[c].since) /\ mNow - mCall[c].since <= HeldUp
      BY <2>2 DEF NothingLost, CacheTimes
    <3>3. mCall[c].since \in Nat /\ mNow \in Nat /\ shot \in Nat
      BY DEF CacheTyped, CacheCalls
    <3>4. shot < mNow - HeldUp => shot < mCall[c].since
      BY <3>2, <3>3
    <3>5. Holds(cache'.reading, cache'.stored - HeldUp)
      BY <3>1, <3>2, <3>4 DEF Holds
    <3> QED
      BY <3>5 DEF NothingLost, Holds, CacheTyped, Cache!Behind
  <2> QED
    BY <2>1, <2>2
<1>5. FullIsMeasured'
  BY DEF FullIsMeasured, CacheTyped
<1> QED
  BY <1>1, <1>2, <1>3, <1>4, <1>5

LEMMA CacheStep == CacheInv /\ [Cache!Next]_cacheVars => CacheInv'
<1> SUFFICES ASSUME CacheInv, [Cache!Next]_cacheVars PROVE CacheInv'
  OBVIOUS
<1> USE CacheConstants
<1>a. CacheTyped /\ OneFlight /\ CacheTimes /\ NothingLost /\ FullIsMeasured
  BY DEF CacheInv
<1>0. mNow \in 1 .. CacheTime /\ mNow \in 0 .. CacheTime /\ 0 \in 0 .. CacheTime
      /\ Cache!Nothing \in CacheReadings /\ Cache!Quiet \in CacheCalls
      /\ Cache!Quiet.got.full = FALSE /\ Cache!Quiet.asked = 0 /\ Cache!Quiet.at = "idle"
      /\ flight \in Callers \cup {"none"} /\ \A c \in Callers : mCall[c] \in CacheCalls
  BY <1>a DEF CacheTyped, CacheReadings, CacheCalls, Cache!Quiet, Cache!Nothing
<1>1. CASE Cache!Tick
  <2>1. mNow < CacheTime /\ mNow' = mNow + 1
        /\ UNCHANGED <<working, published, shot, cache, flight, mCall, measured>>
    BY <1>1 DEF Cache!Tick, Cache!sampled
  <2>2. \A c \in Callers :
          /\ mCall[c].at \in {"join", "store"} => mNow - mCall[c].since < HeldUp
          /\ mCall[c].at = "measure" => mNow - mCall[c].asked < CollectTimeout
    BY <1>1 DEF Cache!Tick
  <2>3. CacheTyped' /\ OneFlight'
    BY <1>a, <2>1 DEF CacheTyped, OneFlight
  <2>4. CacheTimes'
    BY <1>a, <2>1, <2>2 DEF CacheTimes, CacheTyped, CacheCalls, CacheReadings
  <2>5. NothingLost' /\ FullIsMeasured'
    BY <1>a, <2>1 DEF NothingLost, FullIsMeasured, Holds, Cache!Behind
  <2> QED
    BY <2>3, <2>4, <2>5 DEF CacheInv
<1>2. CASE Cache!FastLaneMerges
  <2>1. working' = mNow /\ measured' = TRUE
        /\ UNCHANGED <<mNow, published, shot, cache, flight, mCall>>
    BY <1>2 DEF Cache!FastLaneMerges
  <2>2. CacheTyped' /\ OneFlight' /\ CacheTimes'
    BY <1>0, <1>a, <2>1 DEF CacheTyped, OneFlight, CacheTimes
  <2>3. NothingLost' /\ FullIsMeasured'
    BY <1>a, <2>1 DEF NothingLost, FullIsMeasured, Holds, Cache!Behind
  <2> QED
    BY <2>2, <2>3 DEF CacheInv
<1>3. ASSUME NEW t \in 1 .. mNow, Cache!LaneStores(t) PROVE CacheInv'
  <2>1. PICK full \in BOOLEAN : /\ published' = [taken |-> t, full |-> full, own |-> FALSE]
                                /\ full => working # 0
    BY <1>3 DEF Cache!LaneStores, Cache!Copies
  <2>2. mNow - t <= HeldUp /\ shot' \in {shot, mNow} /\ (shot = 0 \/ shot' = shot)
        /\ UNCHANGED <<mNow, working, cache, flight, mCall, measured>>
    BY <1>a, <1>0, <1>3 DEF Cache!LaneStores, CacheTyped
  <2>3. CacheTyped' /\ OneFlight'
    BY <1>0, <1>a, <2>1, <2>2 DEF CacheTyped, OneFlight, CacheReadings
  <2>4. CacheTimes'
    BY <1>a, <2>1, <2>2 DEF CacheTimes, CacheTyped
  <2>5. published'.taken = t /\ ~published'.own /\ shot' <= published'.taken + HeldUp
    BY <1>a, <2>1, <2>2 DEF CacheTimes, CacheTyped
  <2>6. ASSUME NEW reading \in CacheReadings, NEW s \in Int, s <= mNow, Holds(reading, s)
        PROVE  shot' < s => shot' <= reading.taken + Cache!Behind(reading)
    BY <1>a, <2>2, <2>6 DEF Holds, CacheTyped
  <2>7. cache'.stored # 0 =>
          (shot' < cache'.stored - HeldUp
             => shot' <= cache'.reading.taken + Cache!Behind(cache'.reading))
    BY <1>a, <2>2, <2>6 DEF NothingLost, CacheTimes, CacheTyped
  <2>8. ASSUME NEW c \in Callers, mCall'[c].at = "store"
        PROVE  shot' < mCall'[c].since
                 => shot' <= mCall'[c].got.taken + Cache!Behind(mCall'[c].got)
    BY <1>a, <1>0, <2>2, <2>6, <2>8 DEF NothingLost, CacheTimes, CacheCalls
  <2>9. NothingLost'
    BY <2>5, <2>7, <2>8 DEF NothingLost, Holds, Cache!Behind
  <2>10. FullIsMeasured'
    BY <1>a, <2>1, <2>2 DEF FullIsMeasured
  <2> QED
    BY <2>3, <2>4, <2>9, <2>10 DEF CacheInv
<1>4. ASSUME NEW c \in Callers, Cache!AskHit(c) \/ Cache!FollowerGivesUp(c) PROVE CacheInv'
  <2>1. mCall[c].at \in {"idle", "follow"} /\ mCall' = [mCall EXCEPT ![c] = Cache!Quiet]
        /\ UNCHANGED <<mNow, working, published, shot, cache, flight, measured>>
    BY <1>4 DEF Cache!AskHit, Cache!FollowerGivesUp, Cache!Goes, Cache!sampled
  <2>2. CallerMove(c, Cache!Quiet)
    BY <1>a, <1>0, <2>1 DEF CallerMove, CacheTyped, OneFlight
  <2> QED
    BY <1>0, <2>2, CallerMoves
<1>5. ASSUME NEW c \in Callers, Cache!AskMiss(c) PROVE CacheInv'
  <2> DEFINE to == [Cache!Quiet EXCEPT !.at = "join", !.asked = mNow, !.since = mNow]
  <2>1. mCall[c].at = "idle" /\ mCall' = [mCall EXCEPT ![c] = to]
        /\ UNCHANGED <<mNow, working, published, cache, flight, shot, measured>>
    BY <1>5 DEF Cache!AskMiss, Cache!Goes, Cache!sampled
  <2>2. to \in CacheCalls /\ to.at = "join" /\ to.asked = mNow /\ to.since = mNow
        /\ to.got.full = FALSE
    BY <1>0, <2>1 DEF CacheCalls
  <2> HIDE DEF to
  <2>3. CallerMove(c, to)
    BY <1>a, <1>0, <2>1, <2>2 DEF CallerMove, CacheTyped, OneFlight
  <2> QED
    BY <2>2, <2>3, CallerMoves
<1>6. ASSUME NEW c \in Callers, Cache!Lead(c) PROVE CacheInv'
  <2> DEFINE to == [mCall[c] EXCEPT !.at = "collect", !.since = mNow]
  <2>1. flight = "none" /\ flight' = c /\ mCall[c].at = "join"
        /\ mCall' = [mCall EXCEPT ![c] = to]
        /\ UNCHANGED <<mNow, working, published, cache, shot, measured>>
    BY <1>6 DEF Cache!Lead, Cache!Goes, Cache!sampled
  <2>2. to \in CacheCalls /\ to.at = "collect" /\ to.asked = mCall[c].asked
        /\ to.got = mCall[c].got
    BY <1>0 DEF CacheCalls
  <2> HIDE DEF to
  <2>3. CallerMove(c, to)
    BY <1>a, <1>0, <2>1, <2>2 DEF CallerMove, CacheTyped, CacheTimes, FullIsMeasured
  <2> QED
    BY <2>2, <2>3, CallerMoves
<1>7. ASSUME NEW c \in Callers, Cache!Follow(c) PROVE CacheInv'
  <2> DEFINE to == [mCall[c] EXCEPT !.at = "follow", !.leader = flight, !.since = 0]
  <2>1. mCall[c].at = "join" /\ mCall' = [mCall EXCEPT ![c] = to]
        /\ UNCHANGED <<mNow, working, published, cache, flight, shot, measured>>
    BY <1>7 DEF Cache!Follow, Cache!Goes, Cache!sampled
  <2>2. to \in CacheCalls /\ to.at = "follow" /\ to.asked = mCall[c].asked
        /\ to.got = mCall[c].got
    BY <1>0 DEF CacheCalls
  <2> HIDE DEF to
  <2>3. CallerMove(c, to)
    BY <1>a, <1>0, <2>1, <2>2 DEF CallerMove, CacheTyped, CacheTimes, FullIsMeasured, OneFlight
  <2> QED
    BY <2>2, <2>3, CallerMoves
<1>8. ASSUME NEW c \in Callers, Cache!Measure(c) PROVE CacheInv'
  <2> DEFINE mine == [taken |-> mNow, full |-> TRUE, own |-> TRUE]
             to == [mCall[c] EXCEPT !.at = "measure", !.since = 0, !.got = mine]
  <2>1. mCall[c].at = "collect" /\ mCall' = [mCall EXCEPT ![c] = to] /\ measured' = TRUE
        /\ UNCHANGED <<mNow, working, published, cache, flight, shot>>
    BY <1>8 DEF Cache!Measure, Cache!Goes, Cache!sampled
  <2>2. mine \in CacheReadings /\ mine.own /\ mine.taken = mNow
    BY <1>0 DEF CacheReadings
  <2>3. to \in CacheCalls /\ to.at = "measure" /\ to.asked = mCall[c].asked /\ to.got = mine
    BY <1>0, <2>2 DEF CacheCalls
  <2> HIDE DEF to, mine
  <2>4. CallerMove(c, to)
    BY <1>a, <1>0, <2>1, <2>2, <2>3 DEF CallerMove, CacheTyped, CacheTimes, OneFlight
  <2> QED
    BY <2>3, <2>4, CallerMoves
<1>9. ASSUME NEW c \in Callers, NEW reading \in CacheReadings, NEW panicked \in BOOLEAN,
             mCall[c].at \in {"collect", "measure"}, Cache!Land(c, reading, panicked),
             reading.full => measured,
             reading # Cache!Nothing => Holds(reading, mNow)
      PROVE  CacheInv'
  <2> DEFINE given(d) == [mCall[d] EXCEPT !.at = "store", !.since = mNow, !.leader = "none",
                                          !.got = reading]
             lands(d) == d = c \/ (mCall[d].at = "follow" /\ mCall[d].leader = c)
             to(d) == IF reading = Cache!Nothing THEN Cache!Quiet ELSE given(d)
  <2>1. flight' = "none" /\ UNCHANGED <<mNow, working, published, shot, cache, measured>>
    BY <1>9 DEF Cache!Land, Cache!FlightAfter, Cache!sampled
  <2>2. mCall' = [d \in Callers |-> IF lands(d) THEN to(d) ELSE mCall[d]]
    BY <1>9 DEF Cache!Land, Cache!LandsWith
  <2>3. \A d \in Callers : given(d) \in CacheCalls /\ given(d).at = "store"
                           /\ given(d).since = mNow /\ given(d).asked = mCall[d].asked
                           /\ given(d).got = reading
    BY <1>0 DEF CacheCalls
  <2> HIDE DEF given
  <2>4. \A d \in Callers :
          \/ mCall'[d] = mCall[d] /\ d # c
          \/ mCall'[d] = Cache!Quiet
          \/ /\ mCall'[d] \in CacheCalls /\ mCall'[d].at = "store" /\ mCall'[d].since = mNow
             /\ mCall'[d].asked = mCall[d].asked /\ mCall'[d].got = reading
             /\ reading # Cache!Nothing
    BY <2>2, <2>3
  <2> HIDE DEF given, lands, to
  <2>5. CacheTyped'
    BY <1>a, <1>0, <2>1, <2>2, <2>4 DEF CacheTyped
  <2>6. OneFlight'
    BY <1>a, <1>0, <1>9, <2>1, <2>4 DEF CacheTyped, OneFlight
  <2>7. CacheTimes'
    BY <1>a, <1>0, <2>1, <2>4 DEF CacheTyped, CacheTimes, CacheCalls
  <2>8. NothingLost'
    BY <1>a, <1>0, <1>9, <2>1, <2>4 DEF NothingLost, Holds, Cache!Behind
  <2>9. FullIsMeasured'
    BY <1>a, <1>0, <1>9, <2>1, <2>4 DEF FullIsMeasured
  <2> QED
    BY <2>5, <2>6, <2>7, <2>8, <2>9 DEF CacheInv
<1>10. ASSUME NEW c \in Callers, Cache!CollectSnapshot(c) PROVE CacheInv'
  <2>1. Holds(published, mNow)
    BY <1>a DEF NothingLost, Holds, Cache!Behind
  <2> QED
    BY <1>a, <1>9, <1>10, <2>1 DEF Cache!CollectSnapshot, CacheTyped, FullIsMeasured
<1>11. ASSUME NEW c \in Callers, Cache!CollectDirectly(c) PROVE CacheInv'
  <2>1. mCall[c].at = "measure" /\ Cache!Land(c, mCall[c].got, FALSE)
    BY <1>11 DEF Cache!CollectDirectly
  <2>2. mCall[c].got \in CacheReadings /\ mCall[c].got.own
        /\ mNow - mCall[c].got.taken <= CollectTimeout
    BY <1>a, <1>0, <2>1 DEF CacheTimes, CacheCalls
  <2>3. Holds(mCall[c].got, mNow)
    BY <1>a, <2>2 DEF Holds, Cache!Behind, CacheTimes, CacheTyped, CacheReadings
  <2> QED
    BY <1>a, <1>9, <2>1, <2>2, <2>3 DEF FullIsMeasured
<1>12. ASSUME NEW c \in Callers, NEW panicked \in BOOLEAN, Cache!CollectFails(c, panicked)
       PROVE  CacheInv'
  <2>1. Cache!Nothing \in CacheReadings /\ Cache!Nothing.full = FALSE
    BY DEF CacheReadings, Cache!Nothing
  <2> QED
    BY <1>9, <1>12, <2>1 DEF Cache!CollectFails
<1>13. ASSUME NEW c \in Callers, Cache!Store(c) PROVE CacheInv'
  <2>1. mCall[c].at = "store" /\ mCall' = [mCall EXCEPT ![c] = Cache!Quiet]
        /\ cache' = [reading |-> mCall[c].got, stored |-> mNow]
        /\ UNCHANGED <<mNow, working, published, flight, shot, measured>>
    BY <1>13 DEF Cache!Store, Cache!Goes, Cache!sampled
  <2>2. CallerMove(c, Cache!Quiet)
    BY <1>a, <1>0, <2>1 DEF CallerMove, CacheTyped, OneFlight
  <2> QED
    BY <1>0, <2>2, CallerMoves
<1>14. CASE UNCHANGED cacheVars
  BY <1>a, <1>14 DEF CacheInv, cacheVars, CacheTyped, OneFlight, CacheTimes, NothingLost,
      FullIsMeasured, Holds, Cache!Behind
<1> QED
  BY <1>1, <1>2, <1>3, <1>4, <1>5, <1>6, <1>7, <1>8, <1>10, <1>11, <1>12, <1>13, <1>14
  DEF Cache!Next

\* What every answer owes: whoever asks in a state of the invariant is answered
\* within the bound, and follows nobody who has stopped collecting.
LEMMA CacheAnswers == CacheInv => Cache!TypeOK /\ Cache!ReadingAgeBounded /\ Cache!NoDeadFlight
<1> SUFFICES ASSUME CacheInv
             PROVE  Cache!TypeOK /\ Cache!ReadingAgeBounded /\ Cache!NoDeadFlight
  OBVIOUS
<1> USE CacheConstants DEF CacheInv
<1>1. Cache!TypeOK
  BY DEF Cache!TypeOK, CacheTyped, CacheCalls, CacheReadings, Cache!Readings
<1>2. Cache!NoDeadFlight
  BY DEF Cache!NoDeadFlight, OneFlight, CacheTyped
<1>3. ASSUME NEW a \in Cache!Answers, shot + MetricsTTL + HeldUp <= a.asked
      PROVE  shot <= a.got.taken + Cache!Behind(a.got)
  <2>1. CASE /\ a.asked = mNow /\ a.got = cache.reading
             /\ cache.stored # 0 /\ mNow - cache.stored < MetricsTTL
    <3>1. shot < cache.stored - HeldUp
      BY <1>3, <2>1 DEF CacheTyped
    <3> QED
      BY <2>1, <3>1 DEF NothingLost, Holds
  <2>2. ASSUME NEW c \in Callers, mCall[c].at = "store",
               a.asked = mCall[c].asked, a.got = mCall[c].got
        PROVE  shot <= a.got.taken + Cache!Behind(a.got)
    <3>1. shot < mCall[c].since
      BY <1>3, <2>2 DEF CacheTimes, CacheTyped, CacheCalls
    <3> QED
      BY <2>2, <3>1 DEF NothingLost, Holds
  <2> QED
    BY <1>3, <2>1, <2>2 DEF Cache!Answers, Cache!Fresh
<1> QED
  BY <1>1, <1>2, <1>3 DEF Cache!ReadingAgeBounded

\* A full reading was measured, so the agent is not ready without.
LEMMA CacheReady == CacheInv => Cache!ReadyOnlyMeasured
<1> SUFFICES ASSUME CacheInv, NEW a \in Cache!Answers, Cache!Ready(a.got) PROVE measured
  BY DEF Cache!ReadyOnlyMeasured
<1>1. a.got.full
  BY DEF Cache!Ready
<1>2. a.got = cache.reading \/ \E c \in Callers : a.got = mCall[c].got
  BY DEF Cache!Answers
<1> QED
  BY <1>1, <1>2 DEF CacheInv, FullIsMeasured

-----------------------------------------------------------------------------
(* The sensor bridge: Bridge, src/lhm_bridge_windows.go.                    *)

Lines ==
  [kind : {"none", "read", "rescan", "osd", "one shot"}, id : Nat, due : Nat]

Daemons ==
  [alive : BOOLEAN, disabled : BOOLEAN, cold : BOOLEAN, worked : BOOLEAN, reads : Nat,
   scannedAt : Nat, rescanDue : BOOLEAN, failures : Nat, restartAt : Nat]

BridgeTyped ==
  /\ bNow \in Nat /\ 1 <= bNow /\ bNow <= BridgeTime
  /\ requests \in Nat /\ requests <= MaxRequests
  /\ cachedAt \in Nat /\ cachedAt <= bNow
  /\ failedAt \in Nat /\ failedAt <= bNow
  /\ processes \in {0, 1} /\ closed \in BOOLEAN
  /\ request \in Lines
  /\ daemon \in Daemons

InPipe == request.kind \in {"read", "rescan", "osd"}

\* What the process holds belongs to the request in flight: its line, its answer
\* or a line that is no reading, one of them at most, and nothing between two
\* requests.
OwnLine ==
  \/ child = Bridge!NoChild
  \/ /\ InPipe /\ request.id # 0
     /\ \/ child = [reads |-> request.id, out |-> <<>>]
        \/ \E line \in {request.id, 0} : child = [reads |-> 0, out |-> <<line>>]

\* Who holds the driver: the daemon while it lives, a process of one reading once
\* the daemon is given up.
OneHolder ==
  /\ InPipe => daemon.alive
  /\ request.kind = "one shot" => daemon.disabled /\ processes = 1
  /\ ~daemon.alive => child = Bridge!NoChild /\ (processes = 1 => request.kind = "one shot")
  /\ daemon.disabled => ~daemon.alive
  /\ closed => daemon.disabled
  /\ daemon.alive \/ daemon.worked => daemon.scannedAt # 0

\* A rescan falls due with the last reading it may wait for.
RescanInv ==
  /\ ~daemon.rescanDue => daemon.reads < RescanReads
  /\ request.kind = "read" => ~daemon.rescanDue

BackoffInv == daemon.restartAt = IF failedAt = 0 THEN 0 ELSE failedAt + RestartBackoff

BridgeInv ==
  /\ BridgeTyped /\ OwnLine /\ OneHolder /\ RescanInv /\ BackoffInv
  /\ Bridge!OwnAnswer /\ Bridge!WorkedIsKept /\ Bridge!RescannedInTime

LEMMA BridgeBounds == BridgeTime \in Nat /\ BridgeTime >= 1 /\ MaxRequests \in Nat
  BY BridgeAssumed DEF Bridge!BridgeAssumption

LEMMA BridgeDelays ==
  /\ ColdTimeout \in Nat /\ WarmTimeout \in Nat /\ OneShotTimeout \in Nat
  /\ RestartBackoff \in Nat /\ RestartBackoff > 0
  BY BridgeAssumed DEF Bridge!BridgeAssumption

LEMMA BridgeRescans == RescanReads \in Nat /\ RescanReads > 0
  BY BridgeAssumed DEF Bridge!BridgeAssumption

LEMMA LineTyped ==
  \A kind \in {"none", "read", "rescan", "osd", "one shot"}, id \in Nat, due \in Nat :
     [kind |-> kind, id |-> id, due |-> due] \in Lines
  BY DEF Lines

LEMMA NoLine == Bridge!NoRequest \in Lines /\ Bridge!NoRequest.kind = "none"
  BY DEF Lines, Bridge!NoRequest

LEMMA DaemonFails ==
  ASSUME NEW d \in Daemons, bNow \in Nat, NEW e, e = Bridge!Failed(d)
  PROVE  /\ e \in Daemons /\ ~e.alive /\ e.worked = d.worked
         /\ e.restartAt = bNow + RestartBackoff
         /\ e.reads = d.reads /\ e.rescanDue = d.rescanDue /\ e.scannedAt = d.scannedAt
         /\ d.disabled => e.disabled
         /\ d.worked => e.disabled = d.disabled
<1>1. bNow + RestartBackoff \in Nat
  BY BridgeDelays
<1>2. d.failures + 1 \in Nat /\ (d.disabled \/ (~d.worked /\ d.failures + 1 >= DisableFailures)) \in BOOLEAN
  BY DEF Daemons
<1> QED
  BY <1>1, <1>2 DEF Bridge!Failed, Daemons

LEMMA DaemonStarts ==
  ASSUME daemon \in Daemons, bNow \in Nat
  PROVE  /\ Bridge!Started \in Daemons /\ Bridge!Started.alive /\ Bridge!Started.reads = 0
         /\ Bridge!Started.worked = daemon.worked /\ Bridge!Started.scannedAt = bNow
         /\ Bridge!Started.disabled = daemon.disabled
         /\ Bridge!Started.restartAt = daemon.restartAt
  BY DEF Bridge!Started, Daemons

Rescanned(d, t) == [d EXCEPT !.reads = 0, !.scannedAt = t, !.rescanDue = FALSE]

LEMMA DaemonRescans ==
  \A d \in Daemons, t \in Nat :
    /\ Rescanned(d, t) \in Daemons
    /\ Rescanned(d, t).alive = d.alive /\ Rescanned(d, t).disabled = d.disabled
    /\ Rescanned(d, t).restartAt = d.restartAt /\ Rescanned(d, t).reads = 0
    /\ Rescanned(d, t).rescanDue = FALSE /\ Rescanned(d, t).scannedAt = t
  BY DEF Daemons, Rescanned

LEMMA DaemonSucceeds ==
  ASSUME daemon \in Daemons, bNow \in Nat \ {0}, RescanInv, daemon.reads <= RescanReads,
         daemon.scannedAt # 0, request.kind \in {"read", "rescan", "osd"}, NEW e, e = Bridge!Succeeded(request.kind)
  PROVE  /\ e \in Daemons /\ e.alive = daemon.alive /\ e.disabled = daemon.disabled
         /\ e.restartAt = daemon.restartAt /\ e.scannedAt # 0
         /\ ~e.rescanDue => e.reads < RescanReads
         /\ e.reads <= RescanReads
<1> DEFINE d == [daemon EXCEPT !.worked = TRUE, !.failures = 0, !.cold = FALSE]
<1>1. /\ d \in Daemons /\ d.alive = daemon.alive /\ d.disabled = daemon.disabled
      /\ d.restartAt = daemon.restartAt /\ d.reads = daemon.reads
      /\ d.rescanDue = daemon.rescanDue /\ d.scannedAt = daemon.scannedAt
  BY DEF Daemons
<1> HIDE DEF d
<1>a. (~d.rescanDue => d.reads < RescanReads) /\ (request.kind = "read" => ~d.rescanDue)
      /\ d.reads <= RescanReads
  BY <1>1 DEF RescanInv
<1>2. CASE e = d
  BY <1>1, <1>2, <1>a
<1>3. CASE e = [d EXCEPT !.reads = 0, !.scannedAt = bNow, !.rescanDue = FALSE]
  <2>1. d \in Daemons /\ bNow \in Nat /\ bNow # 0
    BY <1>1
  <2>2. e = Rescanned(d, bNow)
    BY <1>3, Zenon DEF Rescanned
  <2>3. e \in Daemons /\ e.alive = d.alive /\ e.disabled = d.disabled
        /\ e.restartAt = d.restartAt /\ e.reads = 0 /\ e.rescanDue = FALSE
        /\ e.scannedAt = bNow
    BY <2>1, <2>2, DaemonRescans
  <2>4. 0 < RescanReads /\ 0 <= RescanReads
    BY BridgeRescans
  <2> QED
    BY <1>1, <2>1, <2>3, <2>4
<1>4. ASSUME ~d.rescanDue, NEW due \in BOOLEAN, ~due => d.reads + 1 < RescanReads,
             e = [d EXCEPT !.reads = d.reads + 1, !.rescanDue = due]
      PROVE  /\ e \in Daemons /\ e.alive = daemon.alive /\ e.disabled = daemon.disabled
             /\ e.restartAt = daemon.restartAt /\ e.scannedAt # 0
             /\ ~e.rescanDue => e.reads < RescanReads
             /\ e.reads <= RescanReads
  <2>1. d.reads \in Nat /\ d.reads + 1 \in Nat /\ d.reads + 1 <= RescanReads
    BY <1>1, <1>4, <1>a, BridgeRescans DEF Daemons
  <2>2. e \in Daemons /\ e.alive = d.alive /\ e.disabled = d.disabled
        /\ e.restartAt = d.restartAt /\ e.reads = d.reads + 1 /\ e.rescanDue = due
        /\ e.scannedAt = d.scannedAt
    BY <1>1, <1>4, <2>1 DEF Daemons
  <2> QED
    BY <1>1, <1>4, <2>1, <2>2
<1>5. CASE request.kind = "read" /\
           e = [d EXCEPT !.reads = @ + 1,
                         !.rescanDue = @ \/ d.reads + 1 >= RescanReads
                                         \/ bNow - d.scannedAt >= RescanAge]
  <2> DEFINE due == d.rescanDue \/ d.reads + 1 >= RescanReads \/ bNow - d.scannedAt >= RescanAge
  <2>1. due \in BOOLEAN /\ e = [d EXCEPT !.reads = d.reads + 1, !.rescanDue = due]
    BY <1>5
  <2>2. d.reads + 1 \in Int /\ (~due => ~(d.reads + 1 >= RescanReads))
    BY <1>1 DEF Daemons
  <2>3. ~due => d.reads + 1 < RescanReads
    BY <2>2, BridgeRescans
  <2> QED
    BY <1>4, <1>5, <1>a, <2>1, <2>3
<1> QED
  BY <1>2, <1>3, <1>5 DEF Bridge!Succeeded, d

LEMMA BridgeInit == Bridge!Init => BridgeInv
<1> SUFFICES ASSUME Bridge!Init PROVE BridgeInv
  OBVIOUS
<1>1. daemon \in Daemons /\ ~daemon.alive /\ ~daemon.disabled /\ ~daemon.worked
      /\ daemon.reads = 0 /\ ~daemon.rescanDue /\ daemon.restartAt = 0
  BY DEF Bridge!Init, Daemons
<1>2. /\ bNow = 1 /\ processes = 0 /\ requests = 0 /\ cachedAt = 0 /\ closed = FALSE
      /\ failedAt = 0
  BY DEF Bridge!Init
<1>r. child = Bridge!NoChild /\ request = Bridge!NoRequest /\ answer.read = answer.asked
  BY DEF Bridge!Init
<1>3. BridgeTyped
  <2>1. daemon \in Daemons /\ request \in Lines
    BY <1>1, <1>r, NoLine
  <2>2. bNow = 1 /\ requests = 0 /\ cachedAt = 0 /\ failedAt = 0
    BY <1>2
  <2>3. processes \in {0, 1} /\ closed \in BOOLEAN
    BY <1>2
  <2> QED
    BY <2>1, <2>2, <2>3, BridgeBounds DEF BridgeTyped
<1>4. OwnLine /\ OneHolder /\ Bridge!OwnAnswer /\ Bridge!WorkedIsKept
  BY <1>1, <1>2, <1>r, NoLine DEF OwnLine, OneHolder, InPipe, Bridge!OwnAnswer,
      Bridge!WorkedIsKept
<1>5. RescanInv /\ BackoffInv /\ Bridge!RescannedInTime
  BY <1>1, <1>2, <1>r, NoLine, BridgeRescans DEF RescanInv, BackoffInv, Bridge!RescannedInTime
<1> QED
  BY <1>3, <1>4, <1>5 DEF BridgeInv

\* A line is sent through a daemon that lives and holds nothing yet.
LEMMA LineSent ==
  ASSUME BridgeInv, NEW kind \in {"read", "osd"}, NEW d \in Daemons, NEW n \in {0, 1},
         Bridge!Free, Bridge!Send(kind, d, n), ~daemon.disabled, child = Bridge!NoChild,
         d.alive, d.scannedAt # 0, ~d.rescanDue => d.reads < RescanReads, d.reads <= RescanReads,
         d.worked = daemon.worked, d.disabled = daemon.disabled,
         d.restartAt = daemon.restartAt
  PROVE  BridgeInv'
<1> DEFINE line == IF kind = "read" /\ d.rescanDue THEN "rescan" ELSE kind
           wait == IF d.cold \/ line = "rescan" THEN ColdTimeout ELSE WarmTimeout
<1>0. /\ BridgeTyped /\ OwnLine /\ OneHolder /\ RescanInv /\ BackoffInv
      /\ Bridge!OwnAnswer /\ Bridge!WorkedIsKept /\ Bridge!RescannedInTime
  BY DEF BridgeInv
<1>1. /\ requests' = requests + 1 /\ daemon' = d /\ processes' = n
      /\ request' = [kind |-> line, id |-> requests + 1, due |-> bNow + wait]
      /\ child' = IF n = 1 THEN [child EXCEPT !.reads = requests + 1] ELSE child
      /\ cachedAt' = cachedAt \/ cachedAt' = bNow
      /\ UNCHANGED <<bNow, closed, answer, failedAt>>
  BY DEF Bridge!Send, Bridge!Cached
<1>2. requests < MaxRequests
  BY DEF Bridge!Free
<1>3. requests + 1 \in Nat /\ requests + 1 <= MaxRequests /\ requests + 1 # 0 /\ bNow \in Nat
  BY <1>0, <1>2, BridgeBounds DEF BridgeTyped
<1>4. line \in {"read", "rescan", "osd"} /\ wait \in Nat /\ (line = "read" => ~d.rescanDue)
  BY BridgeDelays
<1> HIDE DEF line, wait
<1>5. bNow + wait \in Nat
  BY <1>3, <1>4
<1>6. request' \in Lines /\ request'.kind = line /\ request'.id = requests + 1
  BY <1>1, <1>3, <1>4, <1>5, LineTyped
<1>7. BridgeTyped'
  BY <1>0, <1>1, <1>3, <1>6 DEF BridgeTyped
<1>8. OwnLine'
  <2>1. child' = Bridge!NoChild \/ child' = [reads |-> requests + 1, out |-> <<>>]
    BY <1>1 DEF Bridge!NoChild
  <2> QED
    BY <1>3, <1>4, <1>6, <2>1 DEF OwnLine, InPipe
<1>9. OneHolder' /\ Bridge!OwnAnswer' /\ Bridge!WorkedIsKept'
  BY <1>0, <1>1, <1>4, <1>6 DEF OneHolder, InPipe, Bridge!OwnAnswer, Bridge!WorkedIsKept
<1>10. RescanInv' /\ BackoffInv' /\ Bridge!RescannedInTime'
  BY <1>0, <1>1, <1>4, <1>6 DEF RescanInv, BackoffInv, Bridge!RescannedInTime
<1> QED
  BY <1>7, <1>8, <1>9, <1>10 DEF BridgeInv

LEMMA BridgeStep == BridgeInv /\ [Bridge!Next]_bridgeVars => BridgeInv'
<1> SUFFICES ASSUME BridgeInv, [Bridge!Next]_bridgeVars PROVE BridgeInv'
  OBVIOUS
<1>0. /\ BridgeTyped /\ OwnLine /\ OneHolder /\ RescanInv /\ BackoffInv
      /\ Bridge!OwnAnswer /\ Bridge!WorkedIsKept /\ Bridge!RescannedInTime
  BY DEF BridgeInv
<1>n. bNow \in Nat /\ bNow # 0 /\ daemon \in Daemons /\ daemon.reads <= RescanReads
  BY <1>0 DEF BridgeTyped, Bridge!RescannedInTime
<1>1. CASE Bridge!Tick
  <2>1. bNow < BridgeTime /\ bNow' = bNow + 1
        /\ UNCHANGED <<daemon, child, processes, request, requests, cachedAt, closed, answer,
            failedAt>>
    BY <1>1 DEF Bridge!Tick
  <2>2. BridgeTyped'
    BY <1>0, <2>1, BridgeBounds DEF BridgeTyped
  <2> QED
    BY <1>0, <2>1, <2>2
    DEF BridgeInv, OwnLine, OneHolder, InPipe, RescanInv, BackoffInv, Bridge!OwnAnswer,
        Bridge!WorkedIsKept, Bridge!RescannedInTime
<1>2. ASSUME NEW good \in BOOLEAN, Bridge!ChildAnswers(good) PROVE BridgeInv'
  <2>1. UNCHANGED <<bNow, daemon, processes, request, requests, cachedAt, closed, answer,
      failedAt>>
    BY <1>2 DEF Bridge!ChildAnswers
  <2>2. InPipe /\ request.id # 0 /\ child = [reads |-> request.id, out |-> <<>>]
    BY <1>0, <1>2 DEF Bridge!ChildAnswers, OwnLine, Bridge!NoChild
  <2>3. \E line \in {request.id, 0} : child' = [reads |-> 0, out |-> <<line>>]
    BY <1>2, <2>2 DEF Bridge!ChildAnswers
  <2>4. OwnLine' /\ OneHolder'
    BY <1>0, <2>1, <2>2, <2>3 DEF OwnLine, OneHolder, InPipe
  <2> QED
    BY <1>0, <2>1, <2>4
    DEF BridgeInv, BridgeTyped, RescanInv, BackoffInv, Bridge!OwnAnswer, Bridge!WorkedIsKept,
        Bridge!RescannedInTime
<1>3. CASE Bridge!ChildDies
  <2>1. daemon.alive /\ processes' = 0 /\ child' = Bridge!NoChild
        /\ UNCHANGED <<bNow, daemon, request, requests, cachedAt, closed, answer, failedAt>>
    BY <1>3 DEF Bridge!ChildDies
  <2>2. BridgeTyped' /\ RescanInv' /\ BackoffInv' /\ Bridge!RescannedInTime'
    BY <1>0, <2>1 DEF BridgeTyped, RescanInv, BackoffInv, Bridge!RescannedInTime
  <2>3. OwnLine' /\ OneHolder' /\ Bridge!OwnAnswer' /\ Bridge!WorkedIsKept'
    BY <1>0, <2>1 DEF OwnLine, OneHolder, InPipe, Bridge!OwnAnswer, Bridge!WorkedIsKept
  <2> QED
    BY <2>2, <2>3 DEF BridgeInv
<1>5. ASSUME NEW kind \in {"read", "osd"}, Bridge!SendWarm(kind) PROVE BridgeInv'
  <2>1. child = Bridge!NoChild
    BY <1>0, <1>5 DEF Bridge!SendWarm, Bridge!Free, OwnLine, InPipe
  <2>2. processes \in {0, 1} /\ (~daemon.rescanDue => daemon.reads < RescanReads)
        /\ (daemon.alive => daemon.scannedAt # 0)
    BY <1>0 DEF BridgeTyped, RescanInv, OneHolder
  <2>3. Bridge!Free /\ ~daemon.disabled /\ daemon.alive /\ Bridge!Send(kind, daemon, processes)
    BY <1>5 DEF Bridge!SendWarm
  <2> QED
    BY <1>n, <2>1, <2>2, <2>3, LineSent
<1>6. ASSUME NEW kind \in {"read", "osd"}, Bridge!SendCold(kind) PROVE BridgeInv'
  <2>1. Bridge!Free /\ ~daemon.disabled /\ ~daemon.alive /\ request.kind = "none"
        /\ Bridge!Send(kind, Bridge!Started, processes + 1)
    BY <1>6 DEF Bridge!SendCold, Bridge!Free
  <2>2. child = Bridge!NoChild /\ processes = 0
    BY <1>0, <2>1 DEF OneHolder, BridgeTyped
  <2>3. Bridge!Send(kind, Bridge!Started, 1)
    BY <2>1, <2>2
  <2>4. 0 < RescanReads /\ 0 <= RescanReads
    BY BridgeRescans
  <2> QED
    BY <1>n, <2>1, <2>2, <2>3, <2>4, LineSent, DaemonStarts
<1>7. ASSUME NEW kind \in {"read", "osd"}, Bridge!SpawnFails(kind) PROVE BridgeInv'
  <2>1. /\ requests' = requests + 1 /\ requests < MaxRequests /\ ~daemon.disabled
        /\ ~daemon.alive /\ request.kind = "none" /\ failedAt' = bNow
        /\ cachedAt' = cachedAt \/ cachedAt' = bNow
        /\ daemon' = Bridge!Failed(daemon)
        /\ UNCHANGED <<bNow, child, processes, request, closed, answer>>
    BY <1>7 DEF Bridge!SpawnFails, Bridge!Free, Bridge!Cached
  <2>2. /\ daemon' \in Daemons /\ ~daemon'.alive /\ daemon'.worked = daemon.worked
        /\ daemon'.restartAt = bNow + RestartBackoff
        /\ daemon'.reads = daemon.reads /\ daemon'.rescanDue = daemon.rescanDue
        /\ daemon'.scannedAt = daemon.scannedAt
        /\ daemon.disabled => daemon'.disabled
        /\ daemon.worked => daemon'.disabled = daemon.disabled
    BY <1>n, <2>1, DaemonFails
  <2>3. BridgeTyped'
    BY <1>0, <2>1, <2>2, BridgeBounds DEF BridgeTyped
  <2>4. OwnLine' /\ OneHolder' /\ Bridge!OwnAnswer' /\ Bridge!WorkedIsKept'
    BY <1>0, <2>1, <2>2 DEF OwnLine, OneHolder, InPipe, Bridge!OwnAnswer, Bridge!WorkedIsKept
  <2>5. RescanInv' /\ BackoffInv' /\ Bridge!RescannedInTime'
    BY <1>0, <1>n, <2>1, <2>2 DEF RescanInv, BackoffInv, Bridge!RescannedInTime
  <2> QED
    BY <2>3, <2>4, <2>5 DEF BridgeInv
<1>8. CASE Bridge!OneShotStarts
  <2>r. request' = [kind |-> "one shot", id |-> requests + 1, due |-> bNow + OneShotTimeout]
    BY <1>8 DEF Bridge!OneShotStarts
  <2>1. /\ requests' = requests + 1 /\ processes' = processes + 1 /\ request.kind = "none"
        /\ cachedAt' = bNow /\ daemon.disabled /\ requests < MaxRequests
        /\ UNCHANGED <<bNow, daemon, child, closed, answer, failedAt>>
    BY <1>8 DEF Bridge!OneShotStarts, Bridge!Free
  <2>2. child = Bridge!NoChild /\ processes = 0
    BY <1>0, <2>1 DEF OneHolder, BridgeTyped
  <2>3. requests + 1 \in Nat /\ bNow + OneShotTimeout \in Nat
    BY <1>0, <1>n, BridgeDelays DEF BridgeTyped
  <2>4. request' \in Lines /\ request'.kind = "one shot"
    BY <2>r, <2>3, LineTyped
  <2>6. processes' = 1
    <3> processes' = processes + 1
      BY <2>1
    <3> QED
      BY <2>2
  <2>5. BridgeTyped'
    <3>1. requests' = requests + 1 /\ requests < MaxRequests /\ cachedAt' = bNow
          /\ UNCHANGED <<bNow, daemon, closed, failedAt>> /\ request' \in Lines
      BY <2>1, <2>4
    <3> QED
      BY <1>0, <2>6, <3>1, BridgeBounds DEF BridgeTyped
  <2>7. OwnLine' /\ OneHolder' /\ Bridge!OwnAnswer' /\ Bridge!WorkedIsKept'
    BY <1>0, <2>1, <2>2, <2>4, <2>6
    DEF OwnLine, OneHolder, InPipe, Bridge!OwnAnswer, Bridge!WorkedIsKept
  <2>8. RescanInv' /\ BackoffInv' /\ Bridge!RescannedInTime'
    BY <1>0, <2>1, <2>4 DEF RescanInv, BackoffInv, Bridge!RescannedInTime
  <2> QED
    BY <2>5, <2>7, <2>8 DEF BridgeInv
<1>9. CASE Bridge!OneShotEnds
  <2>0. processes' = processes - 1
    BY <1>9 DEF Bridge!OneShotEnds
  <2>1. /\ request.kind = "one shot" /\ request' = Bridge!NoRequest
        /\ UNCHANGED <<bNow, daemon, child, requests, cachedAt, closed, answer, failedAt>>
    BY <1>9 DEF Bridge!OneShotEnds
  <2>2. child = Bridge!NoChild /\ processes = 1
    BY <1>0, <2>1 DEF OneHolder
  <2>3. processes' = 0
    BY <2>0, <2>2
  <2>4. BridgeTyped'
    BY <1>0, <2>1, <2>3, NoLine DEF BridgeTyped
  <2>5. OwnLine' /\ OneHolder' /\ Bridge!OwnAnswer' /\ Bridge!WorkedIsKept'
    <3>1. OwnLine'
      BY <2>1, <2>2 DEF OwnLine
    <3>2. OneHolder'
      <4>1. OneHolder
        BY <1>0
      <4>2. /\ request'.kind = "none" /\ processes' = 0 /\ child' = Bridge!NoChild
           /\ daemon.disabled /\ ~daemon.alive
           /\ (daemon.worked => daemon.scannedAt # 0)
           /\ UNCHANGED <<daemon, child, closed>>
        BY <4>1, <2>1, <2>2, <2>3, NoLine DEF OneHolder
      <4> QED
        BY <4>2 DEF OneHolder, InPipe
    <3>3. Bridge!OwnAnswer' /\ Bridge!WorkedIsKept'
      BY <1>0, <2>1, <2>2, <2>3, NoLine DEF Bridge!OwnAnswer, Bridge!WorkedIsKept
    <3> QED
      BY <3>1, <3>2, <3>3
  <2>6. RescanInv' /\ BackoffInv' /\ Bridge!RescannedInTime'
    BY <1>0, <2>1, NoLine DEF RescanInv, BackoffInv, Bridge!RescannedInTime
  <2> QED
    BY <2>4, <2>5, <2>6 DEF BridgeInv
<1>10. CASE Bridge!Answered
  <2>1. /\ request.kind \notin {"none", "one shot"} /\ child.out # <<>> /\ Head(child.out) # 0
        /\ answer' = [asked |-> request.id, read |-> Head(child.out)]
        /\ child' = [child EXCEPT !.out = Tail(@)]
        /\ daemon' = Bridge!Succeeded(request.kind) /\ request' = Bridge!NoRequest
        /\ UNCHANGED <<bNow, processes, requests, cachedAt, closed, failedAt>>
    BY <1>10 DEF Bridge!Answered
  <2>2. InPipe /\ child = [reads |-> 0, out |-> <<request.id>>]
    <3>0. child.out # <<>>
      BY <2>1
    <3>1. PICK line \in {request.id, 0} : InPipe /\ child = [reads |-> 0, out |-> <<line>>]
      BY <1>0, <3>0 DEF OwnLine, Bridge!NoChild
    <3>2. Head(<<line>>) = line
      OBVIOUS
    <3> QED
      BY <2>1, <3>1, <3>2
  <2>3. child' = Bridge!NoChild /\ answer'.read = answer'.asked
    <3>1. Head(<<request.id>>) = request.id /\ Tail(<<request.id>>) = <<>>
      OBVIOUS
    <3> QED
      BY <2>1, <2>2, <3>1 DEF Bridge!NoChild
  <2>4. /\ daemon' \in Daemons /\ daemon'.alive = daemon.alive
        /\ daemon'.disabled = daemon.disabled /\ daemon'.restartAt = daemon.restartAt
        /\ ~daemon'.rescanDue => daemon'.reads < RescanReads
        /\ daemon'.reads <= RescanReads /\ daemon'.scannedAt # 0
    BY <1>0, <1>n, <2>1, <2>2, DaemonSucceeds DEF InPipe, OneHolder
  <2>5. BridgeTyped'
    BY <1>0, <2>1, <2>4, NoLine DEF BridgeTyped
  <2>6. OwnLine' /\ OneHolder' /\ Bridge!OwnAnswer' /\ Bridge!WorkedIsKept'
    BY <1>0, <2>1, <2>2, <2>3, <2>4, NoLine
    DEF OwnLine, OneHolder, InPipe, Bridge!OwnAnswer, Bridge!WorkedIsKept
  <2>7. RescanInv' /\ BackoffInv' /\ Bridge!RescannedInTime'
    BY <1>0, <2>1, <2>4, NoLine DEF RescanInv, BackoffInv, Bridge!RescannedInTime
  <2> QED
    BY <2>5, <2>6, <2>7 DEF BridgeInv
<1>11. CASE Bridge!RequestFails
  <2> DEFINE d == Bridge!Failed(daemon)
  <2>0. daemon' = [d EXCEPT !.alive = FALSE]
    BY <1>11 DEF Bridge!RequestFails, Bridge!TornDown
  <2>1. /\ request.kind \notin {"none", "one shot"}
        /\ processes' = 0 /\ child' = Bridge!NoChild
        /\ request' = Bridge!NoRequest /\ failedAt' = bNow
        /\ UNCHANGED <<bNow, requests, cachedAt, closed, answer>>
    BY <1>11 DEF Bridge!RequestFails, Bridge!TornDown
  <2>2. /\ d \in Daemons /\ ~d.alive /\ d.worked = daemon.worked
        /\ d.restartAt = bNow + RestartBackoff
        /\ d.reads = daemon.reads /\ d.rescanDue = daemon.rescanDue
        /\ d.scannedAt = daemon.scannedAt
        /\ daemon.disabled => d.disabled
        /\ daemon.worked => d.disabled = daemon.disabled
    BY <1>n, DaemonFails
  <2> HIDE DEF d
  <2>3. daemon' = d
    BY <2>0, <2>2 DEF Daemons
  <2>4. BridgeTyped'
    <3>1. daemon' \in Daemons /\ request' \in Lines /\ processes' \in {0, 1}
      BY <2>1, <2>2, <2>3, NoLine
    <3>2. failedAt' = bNow /\ UNCHANGED <<bNow, requests, cachedAt, closed>>
      BY <2>1
    <3> QED
      BY <1>0, <3>1, <3>2 DEF BridgeTyped
  <2>5. OwnLine' /\ OneHolder' /\ Bridge!OwnAnswer' /\ Bridge!WorkedIsKept'
    <3>1. OwnLine'
      BY <2>1 DEF OwnLine
    <3>2. OneHolder'
      <4>1. OneHolder
        BY <1>0
      <4>2. /\ request'.kind = "none" /\ processes' = 0 /\ child' = Bridge!NoChild
           /\ ~daemon'.alive /\ (closed => daemon'.disabled)
           /\ (daemon'.worked => daemon'.scannedAt # 0)
           /\ UNCHANGED closed
        BY <4>1, <2>1, <2>2, <2>3, NoLine DEF OneHolder
      <4> QED
        BY <4>2 DEF OneHolder, InPipe
    <3>3. Bridge!OwnAnswer' /\ Bridge!WorkedIsKept'
      BY <1>0, <2>1, <2>2, <2>3, NoLine DEF Bridge!OwnAnswer, Bridge!WorkedIsKept
    <3> QED
      BY <3>1, <3>2, <3>3
  <2>6. RescanInv' /\ BackoffInv' /\ Bridge!RescannedInTime'
    BY <1>0, <1>n, <2>1, <2>2, <2>3, NoLine DEF RescanInv, BackoffInv, Bridge!RescannedInTime
  <2> QED
    BY <2>4, <2>5, <2>6 DEF BridgeInv
<1>12. CASE Bridge!Close
  <2>0. daemon' = [daemon EXCEPT !.disabled = TRUE, !.alive = FALSE]
    BY <1>12 DEF Bridge!Close, Bridge!TornDown
  <2>1. /\ request.kind \in {"none", "one shot"} /\ closed' = TRUE
        /\ processes' = (IF request.kind = "none" THEN 0 ELSE processes)
        /\ child' = Bridge!NoChild
        /\ UNCHANGED <<bNow, request, requests, cachedAt, answer, failedAt>>
    BY <1>12 DEF Bridge!Close, Bridge!TornDown
  <2>2. /\ daemon' \in Daemons /\ ~daemon'.alive /\ daemon'.disabled
        /\ daemon'.worked = daemon.worked /\ daemon'.reads = daemon.reads
        /\ daemon'.rescanDue = daemon.rescanDue /\ daemon'.restartAt = daemon.restartAt
        /\ daemon'.scannedAt = daemon.scannedAt
    BY <1>n, <2>0 DEF Daemons
  <2>3. BridgeTyped'
    BY <1>0, <2>1, <2>2 DEF BridgeTyped
  <2>4. OwnLine' /\ OneHolder' /\ Bridge!OwnAnswer' /\ Bridge!WorkedIsKept'
    <3>1. OwnLine'
      BY <2>1 DEF OwnLine
    <3>2. OneHolder'
      <4>1. OneHolder
        BY <1>0
      <4>2. /\ request' = request /\ child' = Bridge!NoChild
           /\ ~daemon'.alive /\ daemon'.disabled
           /\ (daemon'.worked => daemon'.scannedAt # 0)
           /\ request.kind \in {"none", "one shot"}
        BY <4>1, <2>1, <2>2, Zenon DEF OneHolder
      <4>3. processes' = 1 <=> request.kind = "one shot"
        <5>1. CASE request.kind = "none"
          BY <2>1, <5>1
        <5>2. CASE request.kind = "one shot"
          BY <4>1, <2>1, <5>2 DEF OneHolder
        <5> QED
          BY <4>2, <5>1, <5>2
      <4> QED
        BY <4>2, <4>3 DEF OneHolder, InPipe
    <3>3. Bridge!OwnAnswer' /\ Bridge!WorkedIsKept'
      BY <1>0, <2>1, <2>2 DEF Bridge!OwnAnswer, Bridge!WorkedIsKept
    <3> QED
      BY <3>1, <3>2, <3>3
  <2>5. RescanInv' /\ BackoffInv' /\ Bridge!RescannedInTime'
    BY <1>0, <2>1, <2>2 DEF RescanInv, BackoffInv, Bridge!RescannedInTime
  <2> QED
    BY <2>3, <2>4, <2>5 DEF BridgeInv
<1>13. ASSUME NEW kind \in {"read", "osd"}, Bridge!ScriptFails(kind) PROVE BridgeInv'
  <2>0. daemon' = [daemon EXCEPT !.disabled = TRUE] /\ daemon.scannedAt = 0 /\ ~daemon.alive
    BY <1>13 DEF Bridge!ScriptFails
  <2>1. /\ requests' = requests + 1 /\ requests < MaxRequests /\ request.kind = "none"
        /\ cachedAt' = cachedAt \/ cachedAt' = bNow
        /\ UNCHANGED <<bNow, child, processes, request, closed, answer, failedAt>>
    BY <1>13 DEF Bridge!ScriptFails, Bridge!Free, Bridge!Cached
  <2>2. /\ daemon' \in Daemons /\ ~daemon'.alive /\ daemon'.disabled
        /\ daemon'.worked = daemon.worked /\ daemon'.reads = daemon.reads
        /\ daemon'.rescanDue = daemon.rescanDue /\ daemon'.restartAt = daemon.restartAt
        /\ daemon'.scannedAt = daemon.scannedAt
    BY <1>n, <2>0 DEF Daemons
  <2>3. ~daemon.worked
    BY <1>0, <2>0 DEF OneHolder
  <2>4. BridgeTyped'
    BY <1>0, <2>1, <2>2, BridgeBounds DEF BridgeTyped
  <2>5. OwnLine' /\ OneHolder' /\ Bridge!OwnAnswer' /\ Bridge!WorkedIsKept'
    BY <1>0, <2>0, <2>1, <2>2, <2>3
    DEF OwnLine, OneHolder, InPipe, Bridge!OwnAnswer, Bridge!WorkedIsKept
  <2>6. RescanInv' /\ BackoffInv' /\ Bridge!RescannedInTime'
    BY <1>0, <2>1, <2>2 DEF RescanInv, BackoffInv, Bridge!RescannedInTime
  <2> QED
    BY <2>4, <2>5, <2>6 DEF BridgeInv
<1>14. CASE UNCHANGED bridgeVars
  BY <1>0, <1>14
  DEF bridgeVars, BridgeInv, BridgeTyped, OwnLine, OneHolder, InPipe, RescanInv, BackoffInv,
      Bridge!OwnAnswer, Bridge!WorkedIsKept, Bridge!RescannedInTime
<1> QED
  BY <1>1, <1>2, <1>3, <1>5, <1>6, <1>7, <1>8, <1>9, <1>10, <1>11, <1>12, <1>13, <1>14
  DEF Bridge!Next

LEMMA BridgePaced ==
  BridgeInv /\ [Bridge!Next]_bridgeVars =>
    [processes' > processes /\ request'.kind # "one shot" /\ failedAt # 0 =>
       bNow >= failedAt + RestartBackoff]_bridgeVars
<1>0. SUFFICES ASSUME BridgeInv, Bridge!Next, processes' > processes,
                      request'.kind # "one shot", failedAt # 0
               PROVE  bNow >= failedAt + RestartBackoff
  OBVIOUS
<1>1. processes' # processes /\ processes' # processes - 1 /\ processes' # 0
  <2>1. processes \in {0, 1} /\ processes' > processes
    BY <1>0 DEF BridgeInv, BridgeTyped
  <2> QED
    BY <2>1
<1>2. ~Bridge!OneShotStarts
  <2>1. request'.kind # "one shot"
    BY <1>0
  <2>2. \A id, due : [kind |-> "one shot", id |-> id, due |-> due].kind = "one shot"
    OBVIOUS
  <2> QED
    BY <2>1, <2>2, Zenon DEF Bridge!OneShotStarts
<1>3. Bridge!Next
  BY <1>0
<1>4. PICK kind \in {"read", "osd"} : Bridge!SendCold(kind)
  BY <1>1, <1>2, <1>3
  DEF Bridge!Next, Bridge!Tick, Bridge!ChildAnswers, Bridge!ChildDies, Bridge!SendWarm,
      Bridge!Send, Bridge!SpawnFails, Bridge!ScriptFails, Bridge!OneShotEnds, Bridge!Answered,
      Bridge!RequestFails, Bridge!TornDown, Bridge!Close
<1>5. daemon.restartAt = 0 \/ bNow >= daemon.restartAt
  BY <1>4 DEF Bridge!SendCold, Bridge!MaySpawn
<1>6. daemon.restartAt = failedAt + RestartBackoff /\ failedAt \in Nat
  BY <1>0 DEF BridgeInv, BackoffInv, BridgeTyped
<1> QED
  BY <1>5, <1>6, BridgeDelays

-----------------------------------------------------------------------------
(* The history: Ring, src/history.go.                                       *)

RingInv ==
  /\ Ring!TypeOK
  /\ InOrder(points) /\ (points # <<>> => InWindow(points))
  /\ RingAnswers(points, log)

\* The module's operators are those the lemmas are about.
LEMMA RingOperators ==
  /\ \A ring, m, fresh : Ring!Observe(ring, m, fresh) = Observe(ring, m, fresh)
  /\ \A ts : Ring!BucketOf(ts) = BucketOf(ts)
  /\ \A ring : Ring!InOrder(ring) <=> InOrder(ring)
  /\ \A ring : Ring!Newest(ring) = Newest(ring)
  /\ Ring!Nil = Nil
<1>1. \A ring, bucket : Ring!Opened(ring, bucket) = Opened(ring, bucket)
  BY DEF Ring!Opened, Ring!Trimmed, Ring!Newest, Ring!EmptyPoint, Ring!Nil, Opened, Trimmed,
         Newest, EmptyPoint, Nil
<1>2. \A ring, m, fresh : Ring!Observe(ring, m, fresh) = Observe(ring, m, fresh)
  <2> TAKE ring, m, fresh
  <2>1. \A point : Ring!Raised(point, m, fresh) = Raised(point, m, fresh)
    BY Zenon DEF Ring!Raised, Ring!Peak, Raised, Peak
  <2>2. Ring!BucketOf(m.ts) = BucketOf(m.ts)
    BY DEF Ring!BucketOf, BucketOf
  <2> QED
    BY <1>1, <2>1, <2>2, Zenon DEF Ring!Observe, Observe
<1> QED
  BY <1>2 DEF Ring!BucketOf, Ring!InOrder, Ring!Newest, Ring!Nil, BucketOf, InOrder, Newest,
              Nil

\* A bucket begins no later than what falls into it.
LEMMA BucketBegins ==
  ASSUME NEW ts \in 0 .. RingTime PROVE BucketOf(ts) \in 0 .. RingTime
<1>1. ts \in Nat /\ RingTime \in Nat
  BY RingAssumed DEF Ring!HistoryAssumption
<1>2. ts % Step \in 0 .. ts
  BY <1>1, StepAssumption
<1> QED
  BY <1>1, <1>2, StepAssumption DEF BucketOf


\* What a snapshot of the model may be, as the lemmas about the ring need it.
LEMMA RingBounds ==
  /\ RingTime \in Nat /\ Timed(Ring!Points)
  /\ Ring!Points \subseteq PointOf(Int, Int)
  /\ \A t \in 0 .. RingTime : EmptyPoint(t) \in Ring!Points
<1>1. RingTime \in Nat /\ MaxReading \in Nat
  BY RingAssumed DEF Ring!HistoryAssumption
<1>2. Ring!Readings \subseteq Int /\ 0 .. RingTime \subseteq Int /\ Nil \in Ring!Readings
  BY <1>1 DEF Ring!Readings, Ring!Nil, Nil
<1> HIDE DEF Ring!Readings
<1> DEFINE T == 0 .. RingTime
<1>3. Ring!Points = PointOf(T, Ring!Readings) /\ T \subseteq Int
  BY <1>2 DEF Ring!Points, PointOf
<1> HIDE DEF T
<1>4. Timed(Ring!Points)
  BY <1>3 DEF Timed, PointOf
<1>5. Ring!Points \subseteq PointOf(Int, Int)
  BY <1>2, <1>3 DEF PointOf
<1>6. \A t \in T : EmptyPoint(t) \in Ring!Points
  BY <1>2, <1>3 DEF EmptyPoint, PointOf
<1> QED
  BY <1>1, <1>4, <1>5, <1>6 DEF T

LEMMA RingInit == Ring!Init => RingInv
<1> SUFFICES ASSUME Ring!Init PROVE RingInv
  OBVIOUS
<1>1. points = <<>> /\ log = {}
  BY DEF Ring!Init
<1>2. DOMAIN points = {} /\ Len(points) = 0 /\ points \in Seq(Ring!Points)
  BY <1>1
<1> QED
  BY <1>1, <1>2 DEF RingInv, Ring!TypeOK, InOrder, RingAnswers

\* The entries of the log, in the model's domain and in that of the lemmas.
RingLog == [ts : 1 .. RingTime, cpu : Ring!Readings, gpu : Ring!Readings]

LEMMA LogEntries ==
  /\ RingLog \subseteq Entries
  /\ \A o \in RingLog : BucketOf(o.ts) \in 0 .. RingTime
<1>1. RingTime \in Nat /\ Ring!Readings \subseteq Int
  BY RingAssumed DEF Ring!HistoryAssumption, Ring!Readings, Ring!Nil
<1> DEFINE T == 1 .. RingTime
<1>2. RingLog = [ts : T, cpu : Ring!Readings, gpu : Ring!Readings]
      /\ T \subseteq Int /\ T \subseteq 0 .. RingTime
  BY <1>1 DEF RingLog
<1> HIDE DEF T, Ring!Readings
<1>3. RingLog \subseteq Entries
  BY <1>1, <1>2 DEF Entries
<1>4. \A o \in RingLog : o.ts \in 0 .. RingTime
  BY <1>2
<1> QED
  BY <1>3, <1>4, BucketBegins

\* What observe counts of a snapshot is an entry of the log.
LEMMA CountedEntry ==
  ASSUME NEW m \in Ring!Snapshots, m.ts # 0, NEW fresh \in BOOLEAN
  PROVE  /\ m.ts \in 0 .. RingTime
         /\ Ring!Counted(m, fresh) \in RingLog
         /\ Ring!Counted(m, fresh).ts = m.ts
         /\ Ring!Counted(m, fresh).cpu = m.cpu
         /\ Ring!Counted(m, fresh).gpu = IF fresh THEN m.gpu ELSE Nil
<1> DEFINE T == 0 .. RingTime
           T1 == 1 .. RingTime
           c == Ring!Counted(m, fresh)
<1>1. m \in [ts : T, cpu : Ring!Readings, gpu : Ring!Readings]
  BY DEF Ring!Snapshots
<1>2. \A t \in T : t # 0 => t \in T1
  BY RingBounds
<1>3. Nil \in Ring!Readings
  BY DEF Ring!Readings, Ring!Nil, Nil
<1> HIDE DEF T, T1
<1>4. m.ts \in T /\ m.ts \in T1
  BY <1>1, <1>2
<1>5. /\ c.ts = m.ts /\ c.cpu = m.cpu /\ c.gpu = IF fresh THEN m.gpu ELSE Nil
      /\ c \in [ts : T1, cpu : Ring!Readings, gpu : Ring!Readings]
  BY <1>1, <1>3, <1>4 DEF Ring!Counted, Ring!Nil, Nil
<1> QED
  BY <1>4, <1>5 DEF RingLog, T, T1

\* One observation keeps the ring ordered, inside the window, and answering for
\* exactly what was observed.
LEMMA RingStep == RingInv /\ [Ring!Next]_historyVars => RingInv'
<1> SUFFICES ASSUME RingInv, [Ring!Next]_historyVars PROVE RingInv'
  OBVIOUS
<1>1. CASE UNCHANGED historyVars
  BY <1>1, Zenon DEF historyVars, RingInv, Ring!TypeOK
<1>2. CASE Ring!Next
  <2>1. PICK m \in Ring!Snapshots, fresh \in BOOLEAN : Ring!ObserveSnapshot(m, fresh)
    BY <1>2 DEF Ring!Next
  <2> DEFINE P == Ring!Points
             bucket == BucketOf(m.ts)
             kept == IF Ring!StepsBack(m.ts) THEN {} ELSE log
             c == Ring!Counted(m, fresh)
  <2>2. /\ points' = Observe(points, m, fresh)
        /\ log' = IF m.ts = 0 THEN log ELSE kept \cup {c}
    BY <2>1, RingOperators, Zenon DEF Ring!ObserveSnapshot
  <2>3. CASE m.ts = 0
    <3>1. points' = points /\ log' = log
      BY <2>2, <2>3 DEF Observe
    <3> QED
      BY <3>1, Zenon DEF RingInv, Ring!TypeOK
  <2>4. CASE m.ts # 0
    <3>1. log' = kept \cup {c}
      BY <2>2, <2>4
    <3>2. kept = IF points # <<>> /\ bucket < Newest(points) THEN {} ELSE log
      BY RingOperators, Zenon DEF Ring!StepsBack, Ring!Nil, Nil
    <3>3. /\ c \in RingLog /\ c.ts = m.ts /\ c.cpu = m.cpu
          /\ c.gpu = IF fresh THEN m.gpu ELSE Nil
          /\ bucket \in 0 .. RingTime
      BY <2>4, CountedEntry, BucketBegins
    <3>4. /\ points \in Seq(P) /\ log \subseteq RingLog /\ InOrder(points)
          /\ points # <<>> => InWindow(points)
          /\ RingAnswers(points, log)
      BY DEF RingInv, Ring!TypeOK, RingLog
    <3>5. /\ Timed(P) /\ P \subseteq PointOf(Int, Int) /\ EmptyPoint(bucket) \in P
          /\ bucket \in Int
      BY <3>3, RingBounds
    <3>6. /\ c \in Entries /\ log \in SUBSET Entries
          /\ \A o \in log : BucketOf(o.ts) \in Int
      BY <3>3, <3>4, LogEntries, RingBounds
    <3>7. \A p \in P : Raised(p, m, fresh) \in P
      <4> DEFINE T == 0 .. RingTime
      <4>1. P = [t : T, cpu : Ring!Readings, gpu : Ring!Readings]
        BY DEF Ring!Points
      <4>2. m \in [ts : T, cpu : Ring!Readings, gpu : Ring!Readings]
        BY DEF Ring!Snapshots
      <4> HIDE DEF T
      <4>3. \A a, b \in Ring!Readings : Peak(a, b) \in Ring!Readings
        BY DEF Peak
      <4> QED
        BY <4>1, <4>2, <4>3 DEF Raised
    <3> HIDE DEF P, kept, c, bucket
    <3>8. /\ Observe(points, m, fresh) \in Seq(P) /\ InOrder(Observe(points, m, fresh))
          /\ Observe(points, m, fresh) # <<>> => InWindow(Observe(points, m, fresh))
      BY <3>4, <3>5, <3>7, ObserveKeepsRing DEF bucket
    <3>9. RingAnswers(Observe(points, m, fresh), kept \cup {c})
      BY <2>4, <3>2, <3>3, <3>4, <3>5, <3>6, ObserveAnswers DEF bucket
    <3>10. kept \cup {c} \subseteq RingLog
      BY <3>2, <3>3, <3>4
    <3> QED
      BY <2>2, <3>1, <3>8, <3>9, <3>10, Zenon DEF RingInv, Ring!TypeOK, P, RingLog
  <2> QED
    BY <2>3, <2>4
<1> QED
  BY <1>1, <1>2

\* The maximum of the model is the highest of the lemmas.
LEMMA HighestIsMax ==
  ASSUME NEW S \in SUBSET Int, NEW v, Highest(v, S)
  PROVE  v = Ring!Max(S)
<1>1. \A x \in S : (\A y \in S : x >= y) => x = v
  BY DEF Highest
<1> QED
  BY <1>1 DEF Highest, Ring!Max

LEMMA RingSound ==
  RingInv => /\ Ring!TypeOK /\ Ring!PointsArePeaks /\ Ring!ExactlyTheWindow
             /\ Ring!OldestFirst
<1> SUFFICES ASSUME RingInv
             PROVE  Ring!PointsArePeaks /\ Ring!ExactlyTheWindow /\ Ring!OldestFirst
  BY DEF RingInv
<1>1. /\ points \in Seq(Ring!Points) /\ log \subseteq RingLog /\ InOrder(points)
      /\ points # <<>> => InWindow(points)
      /\ RingAnswers(points, log)
  BY DEF RingInv, Ring!TypeOK, RingLog
<1>2. DOMAIN points = 1 .. Len(points) /\ Len(points) \in Nat
  BY <1>1, LenProperties
<1>3. \A i \in 1 .. Len(points) : points # <<>> /\ points[i].t \in Int
  BY <1>1, PointTime, RingBounds
<1>4. Ring!PointsArePeaks
  <2> SUFFICES ASSUME NEW i \in 1 .. Len(points)
               PROVE  /\ points[i].cpu
                           = Ring!Max({Ring!Nil} \cup {o.cpu : o \in Ring!InBucket(points[i].t)})
                      /\ points[i].gpu
                           = Ring!Max({Ring!Nil} \cup {o.gpu : o \in Ring!InBucket(points[i].t)})
    BY <1>2, Zenon DEF Ring!PointsArePeaks
  <2> DEFINE t == points[i].t
  <2>1. /\ {Ring!Nil} \cup {o.cpu : o \in Ring!InBucket(t)} = CpuIn(t, log)
        /\ {Ring!Nil} \cup {o.gpu : o \in Ring!InBucket(t)} = GpuIn(t, log)
    BY DEF CpuIn, GpuIn, InBucketOf, Ring!InBucket, Ring!BucketOf, BucketOf, Ring!Nil, Nil
  <2>2. Highest(points[i].cpu, CpuIn(t, log)) /\ Highest(points[i].gpu, GpuIn(t, log))
    BY <1>1, <1>3, Zenon DEF RingAnswers, PointsAnswer, PeakOfBucket
  <2>3. CpuIn(t, log) \in SUBSET Int /\ GpuIn(t, log) \in SUBSET Int
    <3>1. \A o \in log : o.cpu \in Int /\ o.gpu \in Int
      BY <1>1, LogEntries DEF Entries
    <3>2. InBucketOf(t, log) \subseteq log /\ Nil \in Int
      BY DEF InBucketOf, Nil
    <3> HIDE DEF t
    <3> QED
      BY <3>1, <3>2 DEF CpuIn, GpuIn
  <2> HIDE DEF t
  <2>4. points[i].cpu = Ring!Max(CpuIn(t, log)) /\ points[i].gpu = Ring!Max(GpuIn(t, log))
    BY <2>2, <2>3, HighestIsMax
  <2> QED
    BY <2>1, <2>4, Zenon DEF t
<1>5. Ring!ExactlyTheWindow
  <2> DEFINE observed == {BucketOf(o.ts) : o \in log}
             kept == {points[i].t : i \in 1 .. Len(points)}
             window == {t \in observed : \A u \in observed : t > u - Keep}
             newest == Newest(points)
  <2>1. observed \subseteq Int
    BY <1>1, LogEntries
  <2>2. CASE points = <<>>
    <3>1. log = {}
      BY <1>1, <2>2 DEF RingAnswers
    <3>2. kept = {} /\ window = {}
      BY <2>2, <3>1
    <3> QED
      BY <3>2, <1>2, RingOperators, Zenon DEF Ring!ExactlyTheWindow, Ring!BucketOf, BucketOf
  <2>3. CASE points # <<>>
    <3>1. Len(points) \in 1 .. Len(points)
      BY <1>1, <2>3, EmptySeq
    <3>2. newest \in Int /\ newest \in kept
      BY <1>3, <3>1 DEF Newest
    <3>3. kept \subseteq observed
      BY <1>1 DEF RingAnswers, InBucketOf
    <3>4. \A u \in observed : u <= newest
      BY <1>1, <2>3 DEF RingAnswers, PointsAnswer
    <3>5. \A t \in kept : t > newest - Keep
      BY <1>1, <1>2, <2>3 DEF InWindow
    <3>6. \A t \in observed : t > newest - Keep => t \in kept
      BY <1>1, <2>3 DEF RingAnswers, PointsAnswer
    <3> HIDE DEF observed, kept, newest
    <3>7. kept \subseteq window
      BY <2>1, <3>2, <3>3, <3>4, <3>5, KeepAssumption
    <3>8. window \subseteq kept
      BY <2>1, <3>2, <3>3, <3>6
    <3>9. kept = window
      BY <3>7, <3>8
    <3> QED
      BY <3>9, <1>2, Zenon DEF Ring!ExactlyTheWindow, Ring!BucketOf, BucketOf, kept, observed
  <2> QED
    BY <2>2, <2>3
<1>6. Ring!OldestFirst
  BY <1>1, RingOperators DEF Ring!OldestFirst
<1> QED
  BY <1>4, <1>5, <1>6

-----------------------------------------------------------------------------
(* The process: Process, src/main.go and src/service_windows.go.            *)

MainPlaces == {"setting up", "starting", "ready", "serving", "shutting down", "stopping",
    "ended"}
ServerPlaces == {"none", "starting", "open", "failed", "closed"}
Statuses == {"none", "start pending", "running", "stop pending", "stopped",
             "stopped with an error"}
Pollers == {"sampler", "updates", "claude", "codex", "usage"}

\* What is started is a first part of the order.
FirstOf(started) ==
  /\ started \in Seq(Pollers) /\ Len(started) <= 5
  /\ \A i \in 1 .. Len(started) : started[i] = Process!Order[i]

\* Everything runs from when the server is started until its listener is closed
\* and its streams are gone.
MainPlaced ==
  /\ main \in MainPlaces /\ server \in ServerPlaces
  /\ status \in Statuses /\ streams \in BOOLEAN
  /\ main # "ended" => exit = -1
  /\ main = "ended" => exit \in {0, 1}
  /\ main \in {"setting up", "starting"} => server = "none" /\ ~streams
  /\ main \in {"ready", "serving", "shutting down"} => running = Process!Order
  /\ main \in {"shutting down", "stopping"} => server # "open"
  /\ main = "stopping" => ~streams

MainInv == mainNow \in 0 .. MainTime /\ FirstOf(running) /\ MainPlaced

LEMMA MainBounds == MainTime \in Nat /\ Grace \in Nat
  BY ProcessAssumed DEF Process!ServiceAssumption

LEMMA OrderOfFive == Len(Process!Order) = 5 /\ Process!Order \in Seq(Pollers)
<1>1. Len(Process!Order) = 5
  BY DEF Process!Order
<1>2. Process!Order \in Seq(Pollers)
  BY DEF Process!Order, Pollers
<1> QED
  BY <1>1, <1>2

LEMMA AllStarted ==
  ASSUME NEW started, FirstOf(started), Len(started) = 5
  PROVE  started = Process!Order
  BY OrderOfFive, SeqEqual DEF FirstOf

\* Starting the next part keeps a first part of the order.
LEMMA NextStarted ==
  ASSUME NEW started, FirstOf(started), Len(started) < 5
  PROVE  FirstOf(Append(started, Process!Order[Len(started) + 1]))
<1>1. started \in Seq(Pollers) /\ Len(started) \in Nat /\ Len(started) + 1 \in 1 .. 5
  BY DEF FirstOf
<1> DEFINE next == Process!Order[Len(started) + 1]
           longer == Append(started, next)
<1>2. next \in Pollers
  BY <1>1, OrderOfFive, ElementOfSeq
<1> HIDE DEF next, longer
<1>3. /\ longer \in Seq(Pollers) /\ Len(longer) = Len(started) + 1
      /\ \A i \in 1 .. Len(started) : longer[i] = started[i]
      /\ longer[Len(started) + 1] = next
  BY <1>1, <1>2, AppendProperties DEF longer
<1>4. \A i \in 1 .. Len(longer) : longer[i] = Process!Order[i]
  BY <1>1, <1>3 DEF FirstOf, next
<1> QED
  BY <1>1, <1>3, <1>4 DEF FirstOf, longer, next

\* Stopping the last part keeps a first part of the order.
LEMMA LastStopped ==
  ASSUME NEW started, FirstOf(started), started # <<>>
  PROVE  FirstOf(Process!Front(started))
<1> DEFINE n == Len(started) - 1
           front == SubSeq(started, 1, n)
<1>1. started \in Seq(Pollers) /\ Len(started) \in Nat /\ Len(started) > 0 /\ Len(started) <= 5
  BY EmptySeq DEF FirstOf
<1>2. /\ \A i \in 1 .. n : started[i] \in Pollers
      /\ n \in Int /\ n >= 0 /\ n + 1 = Len(started) /\ 1 \in Int
  BY <1>1, ElementOfSeq
<1> HIDE DEF n
<1>3. /\ front \in Seq(Pollers) /\ Len(front) = (IF 1 <= n THEN n - 1 + 1 ELSE 0)
      /\ \A i \in 1 .. n - 1 + 1 : front[i] = started[1 + i - 1]
  BY <1>1, <1>2, SubSeqProperties
<1> HIDE DEF front
<1>4. FirstOf(front)
  BY <1>1, <1>2, <1>3 DEF FirstOf
<1> QED
  BY <1>4 DEF Process!Front, front, n

LEMMA StartedIsPrefix ==
  ASSUME NEW started, FirstOf(started) PROVE Process!IsPrefix(started, Process!Order)
<1> DEFINE n == Len(started)
           left == SubSeq(started, 1, n)
           right == SubSeq(Process!Order, 1, n)
<1>1. /\ started \in Seq(Pollers) /\ Process!Order \in Seq(Pollers) /\ Len(Process!Order) = 5
      /\ n \in Int /\ n >= 0 /\ n <= 5 /\ 1 \in Int
  BY OrderOfFive DEF FirstOf
<1>2. \A i \in 1 .. n : /\ started[i] \in Pollers /\ Process!Order[i] \in Pollers
                        /\ Process!Order[i] = started[i]
  BY <1>1, ElementOfSeq DEF FirstOf
<1> HIDE DEF n
<1>3. /\ left \in Seq(Pollers) /\ Len(left) = (IF 1 <= n THEN n - 1 + 1 ELSE 0)
      /\ \A i \in 1 .. n - 1 + 1 : left[i] = started[1 + i - 1]
  BY <1>1, <1>2, SubSeqProperties
<1>4. /\ right \in Seq(Pollers) /\ Len(right) = (IF 1 <= n THEN n - 1 + 1 ELSE 0)
      /\ \A i \in 1 .. n - 1 + 1 : right[i] = Process!Order[1 + i - 1]
  BY <1>1, <1>2, SubSeqProperties
<1> HIDE DEF left, right
<1>5. left = right
  BY <1>1, <1>2, <1>3, <1>4, SeqEqual
<1> QED
  BY <1>1, <1>5 DEF Process!IsPrefix, n, left, right

LEMMA MainInit == Process!Init => MainInv
<1> SUFFICES ASSUME Process!Init PROVE MainInv
  OBVIOUS
<1>1. mainNow \in 0 .. MainTime
  <2>1. mainNow = 0
    BY DEF Process!Init
  <2> QED
    BY <2>1, MainBounds
<1>2. FirstOf(running)
  <2>1. running = <<>>
    BY DEF Process!Init
  <2> QED
    BY <2>1 DEF FirstOf
<1>3. MainPlaced
  BY DEF Process!Init, MainPlaced, MainPlaces, ServerPlaces, Statuses
<1> QED
  BY <1>1, <1>2, <1>3 DEF MainInv

\* The clock is set by its own step alone.
LEMMA MainClock == MainInv /\ [Process!Next]_mainVars => mainNow' \in 0 .. MainTime
<1> SUFFICES ASSUME mainNow \in 0 .. MainTime, [Process!Next]_mainVars
             PROVE  mainNow' \in 0 .. MainTime
  BY DEF MainInv
<1>1. CASE Process!Tick
  <2>1. mainNow < MainTime /\ mainNow' = mainNow + 1
    BY <1>1 DEF Process!Tick
  <2> QED
    BY <2>1, MainBounds
<1>2. CASE UNCHANGED mainVars
  BY <1>2 DEF mainVars
<1>3. CASE Process!Next /\ ~Process!Tick
  <2>1. mainNow' = mainNow
    BY <1>3
    DEF Process!Next, Process!Main, Process!SetupFails, Process!SelfCheck, Process!SetUp,
        Process!StartNext, Process!Serve, Process!Ready, Process!ListenFails,
        Process!Listens, Process!StreamOpens, Process!StreamCloses, Process!AskToStop,
        Process!ServerFailed, Process!ShutDown, Process!ShutdownTimesOut,
        Process!ShutdownDone, Process!StopLast, Process!Return
  <2> QED
    BY <2>1
<1> QED
  BY <1>1, <1>2, <1>3

\* Starting and stopping alone change what runs, each by one part.
LEMMA MainOrder == MainInv /\ [Process!Next]_mainVars => FirstOf(running')
<1> SUFFICES ASSUME FirstOf(running), [Process!Next]_mainVars PROVE FirstOf(running')
  BY DEF MainInv
<1>1. CASE Process!StartNext
  <2>1. Len(running) < 5 /\ running' = Append(running, Process!Order[Len(running) + 1])
    BY <1>1, OrderOfFive DEF Process!StartNext
  <2> QED
    BY <2>1, NextStarted
<1>2. CASE Process!StopLast
  <2>1. running # <<>> /\ running' = Process!Front(running)
    BY <1>2 DEF Process!StopLast
  <2> QED
    BY <2>1, LastStopped
<1>3. CASE Process!Next /\ ~Process!StartNext /\ ~Process!StopLast
  <2>1. running' = running
    BY <1>3
    DEF Process!Next, Process!SetupFails, Process!SelfCheck, Process!SetUp,
        Process!Serve, Process!Ready, Process!ListenFails, Process!Tick,
        Process!Listens, Process!StreamOpens, Process!StreamCloses, Process!AskToStop,
        Process!ServerFailed, Process!ShutDown, Process!ShutdownTimesOut,
        Process!ShutdownDone, Process!Return
  <2> QED
    BY <2>1
<1>4. CASE UNCHANGED mainVars
  BY <1>4 DEF mainVars
<1> QED
  BY <1>1, <1>2, <1>3, <1>4

LEMMA MainStep == MainInv /\ [Process!Next]_mainVars => MainInv'
<1> SUFFICES ASSUME MainInv, [Process!Next]_mainVars PROVE MainPlaced'
  BY MainClock, MainOrder DEF MainInv
<1>0. MainPlaced /\ FirstOf(running)
  BY DEF MainInv
<1> USE DEF Process!Alive, Process!Main, Process!Fatal
<1>1. CASE Process!SetupFails
  BY <1>0, <1>1 DEF MainPlaced, Process!SetupFails, MainPlaces, ServerPlaces
<1>2. CASE \E passes \in BOOLEAN : Process!SelfCheck(passes)
  BY <1>0, <1>2 DEF MainPlaced, Process!SelfCheck, MainPlaces
<1>3. CASE Process!SetUp
  BY <1>0, <1>3 DEF MainPlaced, Process!SetUp, MainPlaces
<1>15. CASE Process!StartNext
  <2>1. /\ main = "starting" /\ main' = "starting"
        /\ UNCHANGED <<server, streams, status, exit>>
    BY <1>15 DEF Process!StartNext
  <2> QED
    BY <1>0, <2>1 DEF MainPlaced
<1>16. CASE Process!Tick
  <2>1. UNCHANGED <<main, running, server, streams, status, exit>>
    BY <1>16 DEF Process!Tick
  <2> QED
    BY <1>0, <2>1 DEF MainPlaced
<1>4. CASE Process!Serve
  <2>1. running' = Process!Order
    BY <1>0, <1>4, AllStarted, OrderOfFive DEF Process!Serve
  <2> QED
    BY <1>0, <1>4, <2>1 DEF MainPlaced, Process!Serve, MainPlaces, ServerPlaces, Statuses
<1>5. CASE Process!Ready
  BY <1>0, <1>5 DEF MainPlaced, Process!Ready, MainPlaces, Statuses
<1>6. CASE Process!ListenFails
  BY <1>0, <1>6 DEF MainPlaced, Process!ListenFails, MainPlaces, ServerPlaces
<1>17. CASE Process!Listens
  BY <1>0, <1>17 DEF MainPlaced, Process!Listens, MainPlaces, ServerPlaces
<1>7. CASE Process!StreamOpens \/ Process!StreamCloses
  BY <1>0, <1>7 DEF MainPlaced, Process!StreamOpens, Process!StreamCloses, MainPlaces
<1>8. CASE Process!AskToStop
  BY <1>0, <1>8 DEF MainPlaced, Process!AskToStop, Statuses
<1>9. CASE Process!ServerFailed
  BY <1>0, <1>9
  DEF MainPlaced, Process!ServerFailed, Process!EndsInError, MainPlaces, ServerPlaces,
      Statuses
<1>10. CASE Process!ShutDown
  BY <1>0, <1>10 DEF MainPlaced, Process!ShutDown, MainPlaces, ServerPlaces
<1>11. CASE Process!ShutdownTimesOut
  BY <1>0, <1>11
  DEF MainPlaced, Process!ShutdownTimesOut, Process!GivesUp, Process!EndsInError,
      MainPlaces, ServerPlaces, Statuses
<1>12. CASE Process!ShutdownDone
  BY <1>0, <1>12 DEF MainPlaced, Process!ShutdownDone, MainPlaces, Statuses
<1>13. CASE Process!StopLast
  BY <1>0, <1>13 DEF MainPlaced, Process!StopLast, MainPlaces
<1>18. CASE Process!Return
  BY <1>0, <1>18 DEF MainPlaced, Process!Return, MainPlaces
<1>14. CASE UNCHANGED mainVars
  BY <1>0, <1>14 DEF MainPlaced, mainVars
<1> QED
  BY <1>1, <1>2, <1>3, <1>4, <1>5, <1>6, <1>7, <1>8, <1>9, <1>10, <1>11, <1>12, <1>13,
     <1>14, <1>15, <1>16, <1>17, <1>18 DEF Process!Next

LEMMA MainSound == MainInv => Process!TypeOK /\ Process!ServedWhileRunning
<1> SUFFICES ASSUME MainInv PROVE Process!TypeOK /\ Process!ServedWhileRunning
  OBVIOUS
<1>1. Process!TypeOK
  <2>1. Process!IsPrefix(running, Process!Order)
    BY StartedIsPrefix DEF MainInv
  <2>2. exit \in {-1, 0, 1}
    BY DEF MainInv, MainPlaced
  <2> QED
    BY <2>1, <2>2
    DEF MainInv, MainPlaced, Process!TypeOK, ServerPlaces, Statuses
<1>2. Process!ServedWhileRunning
  <2> SUFFICES ASSUME exit = -1, server = "open" \/ streams
               PROVE  running = Process!Order
    BY DEF Process!ServedWhileRunning, Process!Alive
  <2>1. main # "ended"
    <3>1. main = "ended" => exit \in {0, 1}
      BY DEF MainInv, MainPlaced
    <3>2. -1 \notin {0, 1}
      OBVIOUS
    <3> QED
      BY <3>1, <3>2
  <2>2. main \in {"ready", "serving", "shutting down"}
    BY <2>1 DEF MainInv, MainPlaced, MainPlaces
  <2> QED
    BY <2>2 DEF MainInv, MainPlaced
<1> QED
  BY <1>1, <1>2

-----------------------------------------------------------------------------
(* The relayed stream: Stream, src/server.go and src/peers.go.              *)

HostHandlers == [at : {"waiting", "writing", "ended"}, writeDue : Nat, beat : Nat]
RelayHandlers == [at : {"waiting", "writing", "ended"}, writeDue : Nat, idle : Nat]
Connections == [held : Nat, closed : BOOLEAN]
Departures == [viewer : Nat, host : Nat]

StreamTyped ==
  /\ host \in HostHandlers /\ relay \in RelayHandlers
  /\ near \in Connections /\ far \in Connections /\ gone \in Departures
  /\ waiting \in BOOLEAN /\ chunk \in BOOLEAN

\* What there is to say of the state, as numbers and places.
Bit(b) == IF b THEN 1 ELSE 0
HostAt == host.at
HostDue == host.writeDue
Beat == host.beat
NearHeld == near.held
NearShut == Bit(near.closed)
RelayAt == relay.at
RelayDue == relay.writeDue
Idle == relay.idle
FarHeld == far.held
FarShut == Bit(far.closed)
Chunks == Bit(chunk)
ViewerGone == gone.viewer
HostGone == gone.host

\* A connection after messages went in or out, and after it was closed.
LEMMA ConnectionHolds ==
  ASSUME NEW c \in Connections, NEW n \in Nat, NEW d, d = [c EXCEPT !.held = n]
  PROVE  d \in Connections /\ d.held = n /\ d.closed = c.closed
  BY DEF Connections

LEMMA ConnectionShut ==
  ASSUME NEW c \in Connections, NEW d, d = Stream!Shut(c)
  PROVE  d \in Connections /\ d.held = c.held /\ d.closed = TRUE
  BY DEF Connections, Stream!Shut

LEMMA HandlerEnds ==
  /\ \A h \in HostHandlers : \A g : g = [h EXCEPT !.at = "ended"] =>
       g \in HostHandlers /\ g.at = "ended" /\ g.writeDue = h.writeDue /\ g.beat = h.beat
  /\ \A r \in RelayHandlers : \A q : q = [r EXCEPT !.at = "ended"] =>
       q \in RelayHandlers /\ q.at = "ended" /\ q.writeDue = r.writeDue /\ q.idle = r.idle
  BY DEF HostHandlers, RelayHandlers

LEMMA HandlerWaits ==
  /\ \A h \in HostHandlers : \A d \in Nat : \A g :
       g = [h EXCEPT !.at = "waiting", !.writeDue = d] =>
         g \in HostHandlers /\ g.at = "waiting" /\ g.beat = h.beat
  /\ \A r \in RelayHandlers : \A d \in Nat : \A q :
       q = [r EXCEPT !.at = "waiting", !.writeDue = d] =>
         q \in RelayHandlers /\ q.at = "waiting" /\ q.idle = r.idle
<1>1. \A h \in HostHandlers : \A d \in Nat : \A g :
        g = [h EXCEPT !.at = "waiting", !.writeDue = d] =>
          g \in HostHandlers /\ g.at = "waiting" /\ g.beat = h.beat
  BY DEF HostHandlers
<1>2. \A r \in RelayHandlers : \A d \in Nat : \A q :
        q = [r EXCEPT !.at = "waiting", !.writeDue = d] =>
          q \in RelayHandlers /\ q.at = "waiting" /\ q.idle = r.idle
  BY DEF RelayHandlers
<1> QED
  BY <1>1, <1>2

LEMMA HandlerWrites ==
  /\ \A d, b \in Nat : \A g : g = [at |-> "writing", writeDue |-> d, beat |-> b] =>
       g \in HostHandlers /\ g.at = "writing" /\ g.writeDue = d /\ g.beat = b
  /\ \A d, b \in Nat : \A q : q = [at |-> "writing", writeDue |-> d, idle |-> b] =>
       q \in RelayHandlers /\ q.at = "writing" /\ q.writeDue = d /\ q.idle = b
  BY DEF HostHandlers, RelayHandlers

LEMMA HandlerWrote ==
  /\ \A h \in HostHandlers : \A b \in Nat : \A g : g = [h EXCEPT !.beat = b] =>
       g \in HostHandlers /\ g.at = h.at /\ g.writeDue = h.writeDue /\ g.beat = b
  /\ \A r \in RelayHandlers : \A b \in Nat : \A q : q = [r EXCEPT !.idle = b] =>
       q \in RelayHandlers /\ q.at = r.at /\ q.writeDue = r.writeDue /\ q.idle = b
  BY DEF HostHandlers, RelayHandlers

LEMMA DepartureNoted ==
  ASSUME NEW g \in Departures, NEW n \in Nat, NEW d
  PROVE  /\ d = [g EXCEPT !.viewer = n] =>
              d \in Departures /\ d.viewer = n /\ d.host = g.host
         /\ d = [g EXCEPT !.host = n] =>
              d \in Departures /\ d.host = n /\ d.viewer = g.viewer
  BY DEF Departures

LEMMA StreamBounds ==
  /\ StreamKeepalive \in Nat /\ StreamWriteTimeout \in Nat /\ StreamIdleLimit \in Nat
  /\ StreamBuffer \in Nat /\ StreamTime \in Nat
  /\ StreamKeepalive > 0 /\ StreamWriteTimeout > 0 /\ StreamBuffer > 0 /\ StreamTime > 0
  /\ StreamKeepalive < StreamIdleLimit
  BY StreamAssumed DEF Stream!StreamAssumption

\* The state in numbers is well typed.
LEMMA ViewTyped ==
  ASSUME StreamTyped
  PROVE  /\ HostAt \in {"waiting", "writing", "ended"} /\ HostDue \in Nat /\ Beat \in Nat
         /\ RelayAt \in {"waiting", "writing", "ended"} /\ RelayDue \in Nat /\ Idle \in Nat
         /\ NearHeld \in Nat /\ FarHeld \in Nat /\ ViewerGone \in Nat /\ HostGone \in Nat
         /\ NearShut \in {0, 1} /\ FarShut \in {0, 1} /\ Chunks \in {0, 1}
  BY DEF StreamTyped, HostAt, HostDue, Beat, RelayAt, RelayDue, Idle, NearHeld, FarHeld,
         ViewerGone, HostGone, NearShut, FarShut, Chunks, Bit, HostHandlers, RelayHandlers,
         Connections, Departures

FarSide == <<RelayAt, RelayDue, Idle, Chunks, FarHeld, FarShut>>
NearSide == <<HostAt, HostDue, Beat, NearHeld, NearShut>>
Gone == <<ViewerGone, HostGone>>

LEMMA SidesStay ==
  /\ UNCHANGED <<relay, chunk, far>> => UNCHANGED FarSide
  /\ UNCHANGED <<host, near>> => UNCHANGED NearSide
  /\ UNCHANGED gone => UNCHANGED Gone
  BY DEF FarSide, NearSide, Gone, HostAt, HostDue, Beat, RelayAt, RelayDue, Idle, NearHeld,
         FarHeld, ViewerGone, HostGone, NearShut, FarShut, Chunks

\* Each step of the stream in numbers.
LEMMA HostWritesSeen ==
  ASSUME StreamTyped, sNow \in Nat, Stream!HostWrites
  PROVE  /\ StreamTyped'
         /\ HostGone = 0 /\ HostAt = "waiting" /\ NearShut = 0
         /\ Beat' = IF sNow >= Beat THEN sNow + StreamKeepalive ELSE Beat
         /\ \/ /\ NearHeld < StreamBuffer /\ NearHeld' = NearHeld + 1 /\ HostAt' = "waiting"
               /\ HostDue' = HostDue
            \/ /\ ~(NearHeld < StreamBuffer) /\ NearHeld' = NearHeld /\ HostAt' = "writing"
               /\ HostDue' = sNow + StreamWriteTimeout
         /\ UNCHANGED <<sNow, NearShut, FarSide, Gone>>
<1> DEFINE beat == IF sNow >= Beat THEN sNow + StreamKeepalive ELSE Beat
           more == NearHeld + 1
           due == sNow + StreamWriteTimeout
<1>1. beat \in Nat /\ due \in Nat /\ more \in Nat
  BY ViewTyped, StreamBounds
<1>2. /\ gone.host = 0 /\ host.at = "waiting" /\ ~near.closed /\ waiting' = FALSE
      /\ UNCHANGED <<sNow, relay, chunk, far, gone>>
  BY DEF Stream!HostWrites, Stream!HostHasNews, Stream!Here
<1>3. IF NearHeld < StreamBuffer
      THEN near' = [near EXCEPT !.held = more] /\ host' = [host EXCEPT !.beat = beat]
      ELSE host' = [at |-> "writing", writeDue |-> due, beat |-> beat] /\ near' = near
  BY Zenon DEF Stream!HostWrites, NearHeld, Beat, Stream!Deadline
<1> HIDE DEF beat, more, due
<1>4. near \in Connections /\ host \in HostHandlers
  BY DEF StreamTyped
<1>5. /\ HostGone = 0 /\ HostAt = "waiting" /\ NearShut = 0
      /\ UNCHANGED <<sNow, FarSide, Gone>>
  BY <1>2, SidesStay DEF HostGone, HostAt, NearShut, Bit
<1>6. CASE NearHeld < StreamBuffer
  <2>1. near' = [near EXCEPT !.held = more]
    BY <1>3, <1>6
  <2>2. host' = [host EXCEPT !.beat = beat]
    BY <1>3, <1>6
  <2>3. near' \in Connections /\ near'.held = more /\ near'.closed = near.closed
    BY <1>1, <1>4, <2>1, ConnectionHolds
  <2>4. /\ host' \in HostHandlers /\ host'.at = host.at /\ host'.writeDue = host.writeDue
        /\ host'.beat = beat
    BY <1>1, <1>4, <2>2, HandlerWrote
  <2>5. StreamTyped'
    BY <1>2, <2>3, <2>4 DEF StreamTyped
  <2>6. /\ NearHeld' = more /\ NearShut' = NearShut
        /\ HostAt' = HostAt /\ HostDue' = HostDue /\ Beat' = beat
    BY <2>3, <2>4 DEF NearHeld, NearShut, HostAt, HostDue, Beat
  <2> QED
    BY <1>5, <1>6, <2>5, <2>6, Zenon DEF beat, more
<1>7. CASE ~(NearHeld < StreamBuffer)
  <2>1. near' = near
    BY <1>3, <1>7
  <2>2. host' = [at |-> "writing", writeDue |-> due, beat |-> beat]
    BY <1>3, <1>7
  <2>3. /\ host' \in HostHandlers /\ host'.at = "writing" /\ host'.writeDue = due
        /\ host'.beat = beat
    BY <1>1, <2>2, HandlerWrites
  <2>4. StreamTyped'
    BY <1>2, <2>1, <2>3 DEF StreamTyped
  <2>5. /\ NearHeld' = NearHeld /\ NearShut' = NearShut
        /\ HostAt' = "writing" /\ HostDue' = due /\ Beat' = beat
    BY <2>1, <2>3 DEF NearHeld, NearShut, HostAt, HostDue, Beat
  <2> QED
    BY <1>5, <1>7, <2>4, <2>5, Zenon DEF beat, due
<1> QED
  BY <1>6, <1>7

LEMMA HostWrittenSeen ==
  ASSUME StreamTyped, Stream!HostWritten
  PROVE  /\ StreamTyped'
         /\ HostGone = 0 /\ HostAt = "writing" /\ NearShut = 0 /\ NearHeld < StreamBuffer
         /\ HostAt' = "waiting" /\ NearHeld' = NearHeld + 1
         /\ UNCHANGED <<sNow, Beat, NearShut, FarSide, Gone>>
<1> DEFINE more == NearHeld + 1
           zero == 0
<1>1. more \in Nat /\ zero \in Nat
  BY ViewTyped
<1>2. /\ gone.host = 0 /\ host.at = "writing" /\ ~near.closed /\ NearHeld < StreamBuffer
      /\ UNCHANGED <<sNow, waiting, relay, chunk, far, gone>>
  BY DEF Stream!HostWritten, Stream!HostHasRoom, Stream!Here, NearHeld
<1>3. near' = [near EXCEPT !.held = more]
  BY DEF Stream!HostWritten, NearHeld
<1>4. host' = [host EXCEPT !.at = "waiting", !.writeDue = zero]
  BY DEF Stream!HostWritten
<1> HIDE DEF more, zero
<1>5. near \in Connections /\ host \in HostHandlers
  BY DEF StreamTyped
<1>6. near' \in Connections /\ near'.held = more /\ near'.closed = near.closed
  BY <1>1, <1>5, <1>3, ConnectionHolds
<1>7. host' \in HostHandlers /\ host'.at = "waiting" /\ host'.beat = host.beat
  BY <1>1, <1>5, <1>4, HandlerWaits
<1>8. StreamTyped'
  BY <1>2, <1>6, <1>7 DEF StreamTyped
<1>9. /\ HostGone = 0 /\ HostAt = "writing" /\ NearShut = 0
      /\ HostAt' = "waiting" /\ NearHeld' = more /\ Beat' = Beat /\ NearShut' = NearShut
  BY <1>2, <1>6, <1>7 DEF HostGone, HostAt, NearShut, NearHeld, Beat, Bit
<1> QED
  BY <1>2, <1>8, <1>9, SidesStay DEF more

LEMMA HostEndsSeen ==
  ASSUME StreamTyped, Stream!HostEnds
  PROVE  /\ StreamTyped'
         /\ HostGone = 0 /\ HostAt # "ended"
         /\ NearShut = 1 \/ (HostAt = "writing" /\ sNow >= HostDue)
         /\ HostAt' = "ended" /\ NearShut' = 1
         /\ UNCHANGED <<sNow, HostDue, Beat, NearHeld, FarSide, Gone>>
<1>1. /\ gone.host = 0 /\ host.at \in {"waiting", "writing"} /\ waiting' = FALSE
      /\ near.closed \/ (HostAt = "writing" /\ sNow >= HostDue)
      /\ host' = [host EXCEPT !.at = "ended"] /\ near' = Stream!Shut(near)
      /\ UNCHANGED <<sNow, relay, chunk, far, gone>>
  BY DEF Stream!HostEnds, Stream!HostIsDone, Stream!Here, Stream!AtWork, HostAt, HostDue
<1>2. near \in Connections /\ host \in HostHandlers
  BY DEF StreamTyped
<1>3. near' \in Connections /\ near'.held = near.held /\ near'.closed = TRUE
  BY <1>1, <1>2, ConnectionShut
<1>4. /\ host' \in HostHandlers /\ host'.at = "ended" /\ host'.writeDue = host.writeDue
      /\ host'.beat = host.beat
  BY <1>1, <1>2, HandlerEnds
<1>5. StreamTyped'
  BY <1>1, <1>3, <1>4 DEF StreamTyped
<1>6. /\ HostGone = 0 /\ HostAt # "ended" /\ (near.closed => NearShut = 1)
      /\ HostAt' = "ended" /\ NearShut' = 1
      /\ UNCHANGED <<HostDue, Beat, NearHeld>>
  BY <1>1, <1>3, <1>4 DEF HostGone, HostAt, NearShut, NearHeld, Beat, HostDue, Bit
<1> QED
  BY <1>1, <1>5, <1>6, SidesStay

LEMMA ReaderReadsSeen ==
  ASSUME StreamTyped, Stream!ReaderReads
  PROVE  /\ StreamTyped'
         /\ RelayAt # "ended" /\ NearHeld > 0 /\ Chunks = 0
         /\ NearHeld' = NearHeld - 1 /\ Chunks' = 1
         /\ UNCHANGED <<sNow, HostAt, HostDue, Beat, NearShut, RelayAt, RelayDue, Idle,
                        FarHeld, FarShut, Gone>>
<1> DEFINE less == NearHeld - 1
<1>1. /\ relay.at \in {"waiting", "writing"} /\ NearHeld > 0 /\ ~chunk /\ chunk' = TRUE
      /\ near' = [near EXCEPT !.held = less]
      /\ UNCHANGED <<sNow, host, waiting, relay, far, gone>>
  BY DEF Stream!ReaderReads, Stream!ReaderHasRoom, Stream!AtWork, NearHeld
<1>2. less \in Nat
  <2>1. NearHeld > 0
    BY <1>1
  <2> QED
    BY <2>1, ViewTyped
<1> HIDE DEF less
<1>3. near \in Connections
  BY DEF StreamTyped
<1>4. near' \in Connections /\ near'.held = less /\ near'.closed = near.closed
  <2>1. near' = [near EXCEPT !.held = less]
    BY <1>1
  <2> QED
    BY <1>2, <1>3, <2>1, ConnectionHolds
<1>5. StreamTyped'
  BY <1>1, <1>4 DEF StreamTyped
<1>6. /\ RelayAt # "ended" /\ Chunks = 0 /\ NearHeld' = less /\ Chunks' = 1
      /\ UNCHANGED <<HostAt, HostDue, Beat, NearShut, RelayAt, RelayDue, Idle, FarHeld,
                     FarShut, Gone>>
  BY <1>1, <1>4
  DEF HostAt, HostDue, Beat, NearHeld, NearShut, RelayAt, RelayDue, Idle, Chunks, FarHeld,
      FarShut, Gone, ViewerGone, HostGone, Bit
<1> QED
  BY <1>1, <1>5, <1>6 DEF less

LEMMA RelayWritesSeen ==
  ASSUME StreamTyped, sNow \in Nat, Stream!RelayWrites
  PROVE  /\ StreamTyped'
         /\ RelayAt = "waiting" /\ Chunks = 1 /\ Chunks' = 0
         /\ Idle' = sNow + StreamIdleLimit
         /\ \/ /\ FarHeld < StreamBuffer /\ FarHeld' = FarHeld + 1 /\ RelayAt' = "waiting"
               /\ RelayDue' = RelayDue
            \/ /\ ~(FarHeld < StreamBuffer) /\ FarHeld' = FarHeld /\ RelayAt' = "writing"
               /\ RelayDue' = sNow + StreamWriteTimeout
         /\ UNCHANGED <<sNow, FarShut, NearSide, Gone>>
<1> DEFINE idle == sNow + StreamIdleLimit
           more == FarHeld + 1
           due == sNow + StreamWriteTimeout
<1>1. idle \in Nat /\ due \in Nat /\ more \in Nat
  BY ViewTyped, StreamBounds
<1>2. /\ relay.at = "waiting" /\ chunk /\ chunk' = FALSE
      /\ UNCHANGED <<sNow, host, waiting, near, gone>>
  BY DEF Stream!RelayWrites, Stream!RelayHasChunk
<1>3. IF FarHeld < StreamBuffer
      THEN far' = [far EXCEPT !.held = more] /\ relay' = [relay EXCEPT !.idle = idle]
      ELSE relay' = [at |-> "writing", writeDue |-> due, idle |-> idle] /\ far' = far
  BY Zenon DEF Stream!RelayWrites, FarHeld, Stream!Deadline, Stream!IdleAfter
<1> HIDE DEF idle, more, due
<1>4. far \in Connections /\ relay \in RelayHandlers
  BY DEF StreamTyped
<1>5. /\ RelayAt = "waiting" /\ Chunks = 1 /\ Chunks' = 0
      /\ UNCHANGED <<sNow, NearSide, Gone>>
  BY <1>2, SidesStay DEF RelayAt, Chunks, Bit
<1>6. CASE FarHeld < StreamBuffer
  <2>1. far' = [far EXCEPT !.held = more]
    BY <1>3, <1>6
  <2>2. relay' = [relay EXCEPT !.idle = idle]
    BY <1>3, <1>6
  <2>3. far' \in Connections /\ far'.held = more /\ far'.closed = far.closed
    BY <1>1, <1>4, <2>1, ConnectionHolds
  <2>4. /\ relay' \in RelayHandlers /\ relay'.at = relay.at
        /\ relay'.writeDue = relay.writeDue /\ relay'.idle = idle
    BY <1>1, <1>4, <2>2, HandlerWrote
  <2>5. StreamTyped'
    BY <1>2, <2>3, <2>4 DEF StreamTyped
  <2>6. /\ FarHeld' = more /\ FarShut' = FarShut
        /\ RelayAt' = RelayAt /\ RelayDue' = RelayDue /\ Idle' = idle
    BY <2>3, <2>4 DEF FarHeld, FarShut, RelayAt, RelayDue, Idle
  <2> QED
    BY <1>5, <1>6, <2>5, <2>6, Zenon DEF idle, more
<1>7. CASE ~(FarHeld < StreamBuffer)
  <2>1. far' = far
    BY <1>3, <1>7
  <2>2. relay' = [at |-> "writing", writeDue |-> due, idle |-> idle]
    BY <1>3, <1>7
  <2>3. /\ relay' \in RelayHandlers /\ relay'.at = "writing" /\ relay'.writeDue = due
        /\ relay'.idle = idle
    BY <1>1, <2>2, HandlerWrites
  <2>4. StreamTyped'
    BY <1>2, <2>1, <2>3 DEF StreamTyped
  <2>5. /\ FarHeld' = FarHeld /\ FarShut' = FarShut
        /\ RelayAt' = "writing" /\ RelayDue' = due /\ Idle' = idle
    BY <2>1, <2>3 DEF FarHeld, FarShut, RelayAt, RelayDue, Idle
  <2> QED
    BY <1>5, <1>7, <2>4, <2>5, Zenon DEF idle, due
<1> QED
  BY <1>6, <1>7

LEMMA RelayWrittenSeen ==
  ASSUME StreamTyped, Stream!RelayWritten
  PROVE  /\ StreamTyped'
         /\ RelayAt = "writing" /\ FarHeld < StreamBuffer
         /\ RelayAt' = "waiting" /\ FarHeld' = FarHeld + 1
         /\ UNCHANGED <<sNow, Idle, Chunks, FarShut, NearSide, Gone>>
<1> DEFINE more == FarHeld + 1
           zero == 0
<1>1. more \in Nat /\ zero \in Nat
  BY ViewTyped
<1>2. /\ relay.at = "writing" /\ FarHeld < StreamBuffer
      /\ UNCHANGED <<sNow, waiting, host, chunk, near, gone>>
  BY DEF Stream!RelayWritten, Stream!RelayHasRoom, FarHeld
<1>3. far' = [far EXCEPT !.held = more]
  BY DEF Stream!RelayWritten, FarHeld
<1>4. relay' = [relay EXCEPT !.at = "waiting", !.writeDue = zero]
  BY DEF Stream!RelayWritten
<1> HIDE DEF more, zero
<1>5. far \in Connections /\ relay \in RelayHandlers
  BY DEF StreamTyped
<1>6. far' \in Connections /\ far'.held = more /\ far'.closed = far.closed
  BY <1>1, <1>5, <1>3, ConnectionHolds
<1>7. relay' \in RelayHandlers /\ relay'.at = "waiting" /\ relay'.idle = relay.idle
  BY <1>1, <1>5, <1>4, HandlerWaits
<1>8. StreamTyped'
  BY <1>2, <1>6, <1>7 DEF StreamTyped
<1>9. /\ RelayAt = "writing" /\ RelayAt' = "waiting" /\ FarHeld' = more /\ Idle' = Idle
      /\ FarShut' = FarShut /\ Chunks' = Chunks
  BY <1>2, <1>6, <1>7 DEF RelayAt, FarHeld, Idle, FarShut, Chunks
<1> QED
  BY <1>2, <1>8, <1>9, SidesStay DEF more

LEMMA RelayEndsSeen ==
  ASSUME StreamTyped, Stream!RelayEnds
  PROVE  /\ StreamTyped'
         /\ RelayAt # "ended"
         /\ \/ FarShut = 1
            \/ RelayAt = "writing" /\ sNow >= RelayDue
            \/ RelayAt = "waiting" /\ (sNow >= Idle \/ NearShut = 1)
         /\ RelayAt' = "ended" /\ NearShut' = 1 /\ Chunks' = 0
         /\ UNCHANGED <<sNow, HostAt, HostDue, Beat, NearHeld, RelayDue, Idle, FarHeld, Gone>>
<1>1. /\ relay.at \in {"waiting", "writing"} /\ chunk' = FALSE
      /\ relay' = [relay EXCEPT !.at = "ended"]
      /\ near' = Stream!Shut(near) /\ far' = Stream!Shut(far)
      /\ UNCHANGED <<sNow, host, waiting, gone>>
  BY DEF Stream!RelayEnds, Stream!RelayIsDone, Stream!AtWork
<1>2. \/ far.closed
      \/ RelayAt = "writing" /\ sNow >= RelayDue
      \/ RelayAt = "waiting" /\ (sNow >= Idle \/ near.closed)
  BY DEF Stream!RelayEnds, Stream!RelayIsDone, RelayAt, RelayDue, Idle
<1>3. near \in Connections /\ far \in Connections /\ relay \in RelayHandlers
  BY DEF StreamTyped
<1>4. /\ near' \in Connections /\ near'.held = near.held /\ near'.closed = TRUE
      /\ far' \in Connections /\ far'.held = far.held /\ far'.closed = TRUE
  BY <1>1, <1>3, ConnectionShut
<1>5. /\ relay' \in RelayHandlers /\ relay'.at = "ended"
      /\ relay'.writeDue = relay.writeDue /\ relay'.idle = relay.idle
  BY <1>1, <1>3, HandlerEnds
<1>6. StreamTyped'
  BY <1>1, <1>4, <1>5 DEF StreamTyped
<1>7. /\ RelayAt # "ended" /\ RelayAt' = "ended" /\ NearShut' = 1 /\ Chunks' = 0
      /\ UNCHANGED <<sNow, HostAt, HostDue, Beat, NearHeld, RelayDue, Idle, FarHeld, Gone>>
  BY <1>1, <1>4, <1>5
  DEF HostAt, HostDue, Beat, NearHeld, NearShut, RelayAt, RelayDue, Idle, Chunks, FarHeld,
      Gone, ViewerGone, HostGone, Bit
<1>8. (far.closed => FarShut = 1) /\ (near.closed => NearShut = 1)
  BY DEF FarShut, NearShut, Bit
<1> QED
  BY <1>2, <1>6, <1>7, <1>8

LEMMA ViewerReadsSeen ==
  ASSUME StreamTyped, Stream!ViewerReads
  PROVE  /\ StreamTyped'
         /\ ViewerGone = 0 /\ FarHeld > 0 /\ FarHeld' = FarHeld - 1
         /\ UNCHANGED <<sNow, NearSide, RelayAt, RelayDue, Idle, Chunks, FarShut, Gone>>
<1> DEFINE less == FarHeld - 1
<1>1. /\ gone.viewer = 0 /\ FarHeld > 0 /\ far' = [far EXCEPT !.held = less]
      /\ UNCHANGED <<sNow, host, waiting, near, relay, chunk, gone>>
  BY DEF Stream!ViewerReads, Stream!ViewerHasNews, Stream!Here, FarHeld
<1>2. less \in Nat
  <2>1. FarHeld > 0
    BY <1>1
  <2> QED
    BY <2>1, ViewTyped
<1> HIDE DEF less
<1>3. far \in Connections
  BY DEF StreamTyped
<1>4. far' \in Connections /\ far'.held = less /\ far'.closed = far.closed
  <2>1. far' = [far EXCEPT !.held = less]
    BY <1>1
  <2> QED
    BY <1>2, <1>3, <2>1, ConnectionHolds
<1>5. StreamTyped'
  BY <1>1, <1>4 DEF StreamTyped
<1>6. /\ ViewerGone = 0 /\ FarHeld' = less
      /\ UNCHANGED <<RelayAt, RelayDue, Idle, Chunks, FarShut>>
  BY <1>1, <1>4 DEF ViewerGone, RelayAt, RelayDue, Idle, Chunks, FarHeld, FarShut
<1> QED
  BY <1>1, <1>5, <1>6, SidesStay DEF less

\* A viewer leaves with or without a word; the host leaves without one.
LEMMA LeavesSeen ==
  ASSUME StreamTyped, sNow \in Nat,
         Stream!ViewerCloses \/ Stream!ViewerVanishes \/ Stream!HostVanishes
  PROVE  /\ StreamTyped'
         /\ \/ ViewerGone = 0 /\ ViewerGone' = sNow /\ HostGone' = HostGone
            \/ /\ HostGone = 0 /\ HostGone' = sNow /\ ViewerGone' = ViewerGone
               /\ FarShut' = FarShut
         /\ UNCHANGED <<sNow, NearSide, RelayAt, RelayDue, Idle, Chunks, FarHeld>>
<1>1. /\ UNCHANGED <<sNow, host, waiting, near, relay, chunk>>
      /\ \/ /\ gone.viewer = 0 /\ gone' = [gone EXCEPT !.viewer = sNow]
            /\ far' = far \/ far' = Stream!Shut(far)
         \/ gone.host = 0 /\ gone' = [gone EXCEPT !.host = sNow] /\ far' = far
  BY DEF Stream!ViewerCloses, Stream!ViewerVanishes, Stream!HostVanishes, Stream!Here
<1>2. gone \in Departures /\ far \in Connections
  BY DEF StreamTyped
<1>3. far' \in Connections /\ far'.held = far.held
  BY <1>1, <1>2, ConnectionShut
<1>4. gone' \in Departures
  BY <1>1, <1>2, DepartureNoted
<1>5. StreamTyped'
  BY <1>1, <1>3, <1>4 DEF StreamTyped
<1>6. UNCHANGED <<sNow, NearSide, RelayAt, RelayDue, Idle, Chunks, FarHeld>>
  BY <1>1, <1>3, SidesStay DEF RelayAt, RelayDue, Idle, Chunks, FarHeld
<1>7. \/ ViewerGone = 0 /\ ViewerGone' = sNow /\ HostGone' = HostGone
      \/ HostGone = 0 /\ HostGone' = sNow /\ ViewerGone' = ViewerGone /\ FarShut' = FarShut
  BY <1>1, <1>2, DepartureNoted DEF ViewerGone, HostGone, FarShut
<1> QED
  BY <1>5, <1>6, <1>7

\* The clock goes on only when nobody who is there has anything to do.
LEMMA TickSeen ==
  ASSUME StreamTyped, Stream!Tick
  PROVE  /\ StreamTyped'
         /\ sNow < StreamTime /\ sNow' = sNow + 1
         /\ UNCHANGED <<NearSide, FarSide, Gone>>
         /\ HostGone = 0 /\ HostAt # "ended" => NearShut = 0
         /\ HostGone = 0 /\ HostAt = "waiting" /\ NearShut = 0 => ~(sNow >= Beat)
         /\ HostGone = 0 /\ HostAt = "writing" /\ NearShut = 0 =>
              ~(NearHeld < StreamBuffer) /\ ~(sNow >= HostDue)
         /\ RelayAt # "ended" => FarShut = 0 /\ (NearHeld > 0 => Chunks = 1)
         /\ RelayAt = "waiting" => ~(sNow >= Idle) /\ (FarShut = 0 => Chunks = 0)
         /\ RelayAt = "writing" =>
              ~(sNow >= RelayDue) /\ (FarShut = 0 => ~(FarHeld < StreamBuffer))
         /\ ViewerGone = 0 => ~(FarHeld > 0)
<1>1. /\ sNow < StreamTime /\ sNow' = sNow + 1 /\ ~Stream!Busy
      /\ UNCHANGED <<host, waiting, near, relay, chunk, far, gone>>
  BY DEF Stream!Tick
<1>2. StreamTyped'
  BY <1>1 DEF StreamTyped
<1>3. UNCHANGED <<NearSide, FarSide, Gone>>
  BY <1>1, SidesStay
<1>4. /\ IF near.closed THEN NearShut = 1 ELSE NearShut = 0
      /\ IF far.closed THEN FarShut = 1 ELSE FarShut = 0
      /\ IF chunk THEN Chunks = 1 ELSE Chunks = 0
      /\ 0 # 1
  BY DEF NearShut, FarShut, Chunks, Bit
<1>5. /\ ~(gone.host = 0 /\ HostAt = "waiting" /\ ~near.closed /\ sNow >= Beat)
      /\ ~(gone.host = 0 /\ HostAt = "writing" /\ NearHeld < StreamBuffer /\ ~near.closed)
      /\ ~(gone.host = 0 /\ HostAt \in {"waiting", "writing"} /\ near.closed)
      /\ ~(gone.host = 0 /\ HostAt = "writing" /\ sNow >= HostDue)
  BY <1>1 DEF Stream!Busy, Stream!HostHasNews, Stream!HostHasRoom, Stream!HostIsDone,
              Stream!Here, Stream!AtWork, HostAt, Beat, NearHeld, HostDue
<1>6. /\ ~(RelayAt \in {"waiting", "writing"} /\ NearHeld > 0 /\ ~chunk)
      /\ ~(RelayAt = "waiting" /\ chunk /\ ~far.closed)
      /\ ~(RelayAt = "writing" /\ FarHeld < StreamBuffer /\ ~far.closed)
      /\ ~(RelayAt \in {"waiting", "writing"} /\ far.closed)
      /\ ~(RelayAt = "writing" /\ sNow >= RelayDue)
      /\ ~(RelayAt = "waiting" /\ sNow >= Idle)
      /\ ~(gone.viewer = 0 /\ FarHeld > 0)
  BY <1>1 DEF Stream!Busy, Stream!ReaderHasRoom, Stream!RelayHasChunk, Stream!RelayHasRoom,
              Stream!RelayIsDone, Stream!ViewerHasNews, Stream!Here, Stream!AtWork,
              RelayAt, RelayDue, Idle, FarHeld, NearHeld
<1>7. HostAt \in {"waiting", "writing", "ended"} /\ RelayAt \in {"waiting", "writing", "ended"}
  BY ViewTyped
<1>8. /\ HostGone = 0 /\ HostAt # "ended" => NearShut = 0
      /\ HostGone = 0 /\ HostAt = "waiting" /\ NearShut = 0 => ~(sNow >= Beat)
      /\ HostGone = 0 /\ HostAt = "writing" /\ NearShut = 0 =>
           ~(NearHeld < StreamBuffer) /\ ~(sNow >= HostDue)
  BY <1>4, <1>5, <1>7, Zenon DEF HostGone
<1>9. RelayAt # "ended" => FarShut = 0 /\ (NearHeld > 0 => Chunks = 1)
  BY <1>4, <1>6, <1>7, Zenon
<1>10. RelayAt = "waiting" => ~(sNow >= Idle) /\ (FarShut = 0 => Chunks = 0)
  BY <1>4, <1>6, Zenon
<1>11. RelayAt = "writing" =>
         ~(sNow >= RelayDue) /\ (FarShut = 0 => ~(FarHeld < StreamBuffer))
  BY <1>4, <1>6, Zenon
<1>12. ViewerGone = 0 => ~(FarHeld > 0)
  BY <1>6, Zenon DEF ViewerGone
<1> QED
  BY <1>1, <1>2, <1>3, <1>8, <1>9, <1>10, <1>11, <1>12

-----------------------------------------------------------------------------
\* n keepalives take this long.
Beats(n) == n * StreamKeepalive

\* The messages on their way to the viewer.
OnTheWay == NearHeld + Chunks + FarHeld + Bit(HostAt = "writing") + Bit(RelayAt = "writing")

\* A relay whose viewer is gone and whose connection is full writes no more.
Stuck == RelayAt = "writing" /\ FarHeld = StreamBuffer /\ ViewerGone # 0

StreamTimes ==
  /\ sNow \in Nat /\ 1 <= sNow /\ sNow <= StreamTime
  /\ NearHeld <= StreamBuffer /\ FarHeld <= StreamBuffer
  /\ Beat <= sNow + StreamKeepalive /\ Idle <= sNow + StreamIdleLimit
  /\ RelayAt = "writing" => sNow <= RelayDue /\ RelayDue <= sNow + StreamWriteTimeout
  /\ RelayAt # "ended" /\ ~Stuck => sNow <= Idle
  /\ RelayAt = "ended" => NearShut = 1

\* While everyone is there nothing is closed, no write is late, and once all is
\* delivered a keepalive comes before the idle limit.
AllServed ==
  ViewerGone = 0 /\ HostGone = 0 =>
    /\ HostAt # "ended" /\ RelayAt # "ended" /\ NearShut = 0 /\ FarShut = 0
    /\ sNow < Idle
    /\ HostAt = "writing" => sNow < HostDue
    /\ RelayAt = "writing" => sNow < RelayDue
    /\ NearHeld = 0 /\ Chunks = 0 /\ HostAt = "waiting" => Beat < Idle

\* Each keepalive after the viewer left fills the connections by one message,
\* until the relay's write blocks and its deadline passes.
ViewerMissed ==
  ViewerGone # 0 /\ HostGone = 0 /\ HostAt # "ended" =>
    /\ sNow <= ViewerGone + Beats(StreamBuffer + 1) + StreamWriteTimeout
    /\ RelayAt = "writing" =>
         RelayDue <= ViewerGone + Beats(StreamBuffer + 1) + StreamWriteTimeout
    /\ RelayAt # "ended" /\ ~Stuck =>
         /\ sNow <= ViewerGone + Beats(StreamBuffer + 1)
         /\ sNow <= ViewerGone + Beats(OnTheWay + 1)
         /\ Beat <= ViewerGone + Beats(OnTheWay + 1)

\* What the host had sent is delivered in the moment it left, or is stuck.
HostMissed ==
  HostGone # 0 /\ RelayAt # "ended" =>
    /\ RelayAt = "writing" => RelayDue <= HostGone + StreamWriteTimeout
    /\ ~Stuck =>
         /\ Idle <= HostGone + StreamIdleLimit
         /\ NearHeld > 0 \/ Chunks = 1 \/ RelayAt = "writing" => sNow = HostGone

StreamInv == StreamTyped /\ StreamTimes /\ AllServed /\ ViewerMissed /\ HostMissed

LEMMA BeatsGrow ==
  /\ \A n \in Nat : Beats(n) \in Nat /\ Beats(n + 1) = Beats(n) + StreamKeepalive
  /\ \A m, n \in Nat : m <= n => Beats(m) <= Beats(n)
<1>1. StreamKeepalive \in Nat
  BY StreamBounds
<1>2. \A n \in Nat : Beats(n) \in Nat /\ Beats(n + 1) = Beats(n) + StreamKeepalive
  BY <1>1 DEF Beats
<1>3. ASSUME NEW m \in Nat, NEW n \in Nat, m <= n PROVE Beats(m) <= Beats(n)
  <2>1. PICK d \in Nat : n = m + d
    <3>1. n - m \in Nat /\ n = m + (n - m)
      BY <1>3
    <3> QED
      BY <3>1
  <2>2. d * StreamKeepalive >= 0 /\ m * StreamKeepalive \in Nat /\ d * StreamKeepalive \in Nat
    BY <1>1
  <2>3. n * StreamKeepalive = m * StreamKeepalive + d * StreamKeepalive
    BY <1>1, <2>1
  <2> QED
    BY <2>2, <2>3 DEF Beats
<1> QED
  BY <1>2, <1>3

LEMMA OnTheWayCounts ==
  ASSUME StreamTyped
  PROVE  /\ OnTheWay \in Nat
         /\ OnTheWay = NearHeld + Chunks + FarHeld + (IF HostAt = "writing" THEN 1 ELSE 0)
                         + (IF RelayAt = "writing" THEN 1 ELSE 0)
  BY ViewTyped DEF OnTheWay, Bit

LEMMA StreamInit == Stream!Init => StreamInv
<1> SUFFICES ASSUME Stream!Init PROVE StreamInv
  OBVIOUS
<1>1. /\ sNow = 1 /\ waiting \in BOOLEAN /\ chunk = FALSE
      /\ host = [at |-> "waiting", writeDue |-> 0, beat |-> 1 + StreamKeepalive]
      /\ relay = [at |-> "waiting", writeDue |-> 0, idle |-> 1 + StreamIdleLimit]
      /\ near = [held |-> 0, closed |-> FALSE] /\ far = [held |-> 0, closed |-> FALSE]
      /\ gone = [viewer |-> 0, host |-> 0]
  BY DEF Stream!Init, Stream!Open
<1>2. 1 + StreamKeepalive \in Nat /\ 1 + StreamIdleLimit \in Nat
  BY StreamBounds
<1>3. StreamTyped
  <2> DEFINE beat == 1 + StreamKeepalive
             idle == 1 + StreamIdleLimit
  <2>1. /\ host = [at |-> "waiting", writeDue |-> 0, beat |-> beat] /\ beat \in Nat
        /\ relay = [at |-> "waiting", writeDue |-> 0, idle |-> idle] /\ idle \in Nat
    BY <1>1, <1>2
  <2> HIDE DEF beat, idle
  <2>2. host \in HostHandlers
    BY <2>1 DEF HostHandlers
  <2>3. relay \in RelayHandlers
    BY <2>1 DEF RelayHandlers
  <2>4. near \in Connections /\ far \in Connections
    BY <1>1 DEF Connections
  <2>5. gone \in Departures
    BY <1>1 DEF Departures
  <2> QED
    BY <1>1, <2>2, <2>3, <2>4, <2>5 DEF StreamTyped
<1>4. /\ HostAt = "waiting" /\ Beat = 1 + StreamKeepalive
      /\ RelayAt = "waiting" /\ Idle = 1 + StreamIdleLimit
      /\ NearHeld = 0 /\ NearShut = 0 /\ FarHeld = 0 /\ FarShut = 0 /\ Chunks = 0
      /\ ViewerGone = 0 /\ HostGone = 0
  BY <1>1
  DEF HostAt, Beat, RelayAt, Idle, NearHeld, NearShut, FarHeld, FarShut, Chunks, ViewerGone,
      HostGone, Bit
<1>5. StreamTimes
  BY <1>1, <1>4, StreamBounds DEF StreamTimes
<1>6. AllServed /\ ViewerMissed /\ HostMissed
  BY <1>1, <1>4, StreamBounds DEF AllServed, ViewerMissed, HostMissed
<1> QED
  BY <1>3, <1>5, <1>6 DEF StreamInv

LEMMA StreamStep == StreamInv /\ [Stream!Next]_streamVars => StreamInv'
<1>0. SUFFICES ASSUME StreamInv, [Stream!Next]_streamVars PROVE StreamInv'
  OBVIOUS
<1>a. StreamTyped /\ StreamTimes /\ AllServed /\ ViewerMissed /\ HostMissed /\ sNow \in Nat
  BY <1>0 DEF StreamInv, StreamTimes
<1>b. /\ HostAt \in {"waiting", "writing", "ended"} /\ HostDue \in Nat /\ Beat \in Nat
      /\ RelayAt \in {"waiting", "writing", "ended"} /\ RelayDue \in Nat /\ Idle \in Nat
      /\ NearHeld \in Nat /\ FarHeld \in Nat /\ ViewerGone \in Nat /\ HostGone \in Nat
      /\ NearShut \in {0, 1} /\ FarShut \in {0, 1} /\ Chunks \in {0, 1} /\ OnTheWay \in Nat
  BY <1>a, ViewTyped, OnTheWayCounts
<1>c. /\ Beats(OnTheWay + 1) \in Nat /\ Beats(StreamBuffer + 1) \in Nat
      /\ Beats(OnTheWay + 1 + 1) = Beats(OnTheWay + 1) + StreamKeepalive
      /\ StreamKeepalive <= Beats(OnTheWay + 1)
      /\ OnTheWay <= StreamBuffer => Beats(OnTheWay + 1) <= Beats(StreamBuffer + 1)
  <2>1. OnTheWay \in Nat /\ OnTheWay + 1 \in Nat /\ StreamBuffer + 1 \in Nat
        /\ (OnTheWay <= StreamBuffer => OnTheWay + 1 <= StreamBuffer + 1)
    BY <1>b, StreamBounds
  <2>2. /\ Beats(OnTheWay) \in Nat /\ Beats(OnTheWay + 1) = Beats(OnTheWay) + StreamKeepalive
        /\ Beats(OnTheWay + 1) \in Nat /\ Beats(StreamBuffer + 1) \in Nat
        /\ Beats(OnTheWay + 1 + 1) = Beats(OnTheWay + 1) + StreamKeepalive
    BY <2>1, BeatsGrow
  <2>3. OnTheWay <= StreamBuffer => Beats(OnTheWay + 1) <= Beats(StreamBuffer + 1)
    BY <2>1, BeatsGrow
  <2>4. StreamKeepalive <= Beats(OnTheWay + 1)
    BY <2>2, StreamBounds
  <2> QED
    BY <2>2, <2>3, <2>4
<1> USE <1>b, StreamBounds
<1>2. CASE Stream!Tick
  <2>1. /\ StreamTyped'
        /\ sNow < StreamTime /\ sNow' = sNow + 1
        /\ UNCHANGED <<HostAt, HostDue, Beat, NearHeld, NearShut, RelayAt, RelayDue,
                       Idle, Chunks, FarHeld, FarShut, ViewerGone, HostGone>>
        /\ HostGone = 0 /\ HostAt # "ended" => NearShut = 0
        /\ HostGone = 0 /\ HostAt = "waiting" /\ NearShut = 0 => ~(sNow >= Beat)
        /\ HostGone = 0 /\ HostAt = "writing" /\ NearShut = 0 =>
             ~(NearHeld < StreamBuffer) /\ ~(sNow >= HostDue)
        /\ RelayAt # "ended" => FarShut = 0 /\ (NearHeld > 0 => Chunks = 1)
        /\ RelayAt = "waiting" => ~(sNow >= Idle) /\ (FarShut = 0 => Chunks = 0)
        /\ RelayAt = "writing" =>
             ~(sNow >= RelayDue) /\ (FarShut = 0 => ~(FarHeld < StreamBuffer))
        /\ ViewerGone = 0 => ~(FarHeld > 0)
    BY <1>a, <1>2, TickSeen DEF FarSide, NearSide, Gone
  <2>2. OnTheWay' = OnTheWay
    BY <1>a, <2>1, OnTheWayCounts DEF OnTheWay, Bit
  <2>3. StreamTimes'
    BY <1>a, <2>1 DEF StreamTimes, AllServed, Stuck
  <2>4. AllServed'
    BY <1>a, <2>1 DEF StreamTimes, AllServed
  <2>7. HostGone = 0 /\ HostAt # "ended" /\ RelayAt = "waiting" =>
          /\ OnTheWay <= StreamBuffer /\ sNow + 1 <= Beat
    BY <1>a, <2>1, OnTheWayCounts DEF StreamTimes
  <2>8. HostGone = 0 /\ HostAt # "ended" => RelayAt # "ended"
    BY <1>a, <2>1 DEF StreamTimes
  <2>5. ViewerMissed'
    <3> SUFFICES ASSUME ViewerGone # 0, HostGone = 0, HostAt # "ended" PROVE ViewerMissed'
      BY <2>1 DEF ViewerMissed
    <3>1. CASE RelayAt = "waiting"
      BY <1>a, <1>c, <2>1, <2>2, <2>7, <3>1 DEF StreamTimes, ViewerMissed, Stuck
    <3>2. CASE RelayAt = "writing"
      BY <1>a, <1>c, <2>1, <2>2, <3>2 DEF StreamTimes, ViewerMissed, Stuck
    <3> QED
      BY <2>8, <3>1, <3>2
  <2>6. HostMissed'
    BY <1>a, <2>1 DEF StreamTimes, AllServed, HostMissed, Stuck
  <2> QED
    BY <2>1, <2>3, <2>4, <2>5, <2>6 DEF StreamInv
<1>3. CASE Stream!HostWrites
  <2>1. /\ StreamTyped'
        /\ HostGone = 0 /\ HostAt = "waiting" /\ NearShut = 0
        /\ Beat' = IF sNow >= Beat THEN sNow + StreamKeepalive ELSE Beat
        /\ \/ /\ NearHeld < StreamBuffer /\ NearHeld' = NearHeld + 1 /\ HostAt' = "waiting"
              /\ HostDue' = HostDue
           \/ /\ ~(NearHeld < StreamBuffer) /\ NearHeld' = NearHeld /\ HostAt' = "writing"
              /\ HostDue' = sNow + StreamWriteTimeout
        /\ UNCHANGED <<sNow, NearShut, RelayAt, RelayDue, Idle, Chunks, FarHeld,
                       FarShut, ViewerGone, HostGone>>
    BY <1>a, <1>3, HostWritesSeen DEF FarSide, NearSide, Gone
  <2>2. OnTheWay' = OnTheWay + 1
    BY <1>a, <2>1, OnTheWayCounts DEF OnTheWay, Bit
  <2>3. StreamTimes'
    BY <1>a, <2>1 DEF StreamTimes, AllServed, Stuck
  <2>4. AllServed'
    BY <1>a, <2>1 DEF StreamTimes, AllServed
  <2>5. ViewerMissed'
    BY <1>a, <1>c, <2>1, <2>2 DEF StreamTimes, ViewerMissed, Stuck
  <2>6. HostMissed'
    BY <1>a, <2>1 DEF StreamTimes, AllServed, HostMissed, Stuck
  <2> QED
    BY <2>1, <2>3, <2>4, <2>5, <2>6 DEF StreamInv
<1>4. CASE Stream!HostWritten
  <2>1. /\ StreamTyped'
        /\ HostGone = 0 /\ HostAt = "writing" /\ NearShut = 0 /\ NearHeld < StreamBuffer
        /\ HostAt' = "waiting" /\ NearHeld' = NearHeld + 1
        /\ UNCHANGED <<sNow, Beat, NearShut, RelayAt, RelayDue, Idle, Chunks, FarHeld,
                       FarShut, ViewerGone, HostGone>>
    BY <1>a, <1>4, HostWrittenSeen DEF FarSide, NearSide, Gone
  <2>2. OnTheWay' = OnTheWay
    BY <1>a, <2>1, OnTheWayCounts DEF OnTheWay, Bit
  <2>3. StreamTimes'
    BY <1>a, <2>1 DEF StreamTimes, AllServed, Stuck
  <2>4. AllServed'
    BY <1>a, <2>1 DEF StreamTimes, AllServed
  <2>5. ViewerMissed'
    BY <1>a, <1>c, <2>1, <2>2 DEF StreamTimes, ViewerMissed, Stuck
  <2>6. HostMissed'
    BY <1>a, <2>1 DEF StreamTimes, AllServed, HostMissed, Stuck
  <2> QED
    BY <2>1, <2>3, <2>4, <2>5, <2>6 DEF StreamInv
<1>5. CASE Stream!HostEnds
  <2>1. /\ StreamTyped'
        /\ HostGone = 0 /\ HostAt # "ended"
        /\ NearShut = 1 \/ (HostAt = "writing" /\ sNow >= HostDue)
        /\ HostAt' = "ended" /\ NearShut' = 1
        /\ UNCHANGED <<sNow, HostDue, Beat, NearHeld, RelayAt, RelayDue, Idle, Chunks,
                       FarHeld, FarShut, ViewerGone, HostGone>>
    BY <1>a, <1>5, HostEndsSeen DEF FarSide, NearSide, Gone
  <2>3. StreamTimes'
    BY <1>a, <2>1 DEF StreamTimes, AllServed, Stuck
  <2>4. AllServed'
    BY <1>a, <2>1 DEF StreamTimes, AllServed
  <2>5. ViewerMissed'
    BY <1>a, <1>c, <2>1 DEF StreamTimes, ViewerMissed, Stuck
  <2>6. HostMissed'
    BY <1>a, <2>1 DEF StreamTimes, AllServed, HostMissed, Stuck
  <2> QED
    BY <2>1, <2>3, <2>4, <2>5, <2>6 DEF StreamInv
<1>6. CASE Stream!ReaderReads
  <2>1. /\ StreamTyped'
        /\ RelayAt # "ended" /\ NearHeld > 0 /\ Chunks = 0
        /\ NearHeld' = NearHeld - 1 /\ Chunks' = 1
        /\ UNCHANGED <<sNow, HostAt, HostDue, Beat, NearShut, RelayAt, RelayDue, Idle,
                       FarHeld, FarShut, ViewerGone, HostGone>>
    BY <1>a, <1>6, ReaderReadsSeen DEF FarSide, NearSide, Gone
  <2>2. OnTheWay' = OnTheWay
    BY <1>a, <2>1, OnTheWayCounts DEF OnTheWay, Bit
  <2>3. StreamTimes'
    BY <1>a, <2>1 DEF StreamTimes, AllServed, Stuck
  <2>4. AllServed'
    BY <1>a, <2>1 DEF StreamTimes, AllServed
  <2>5. ViewerMissed'
    BY <1>a, <1>c, <2>1, <2>2 DEF StreamTimes, ViewerMissed, Stuck
  <2>6. HostMissed'
    BY <1>a, <2>1 DEF StreamTimes, AllServed, HostMissed, Stuck
  <2> QED
    BY <2>1, <2>3, <2>4, <2>5, <2>6 DEF StreamInv
<1>7. CASE Stream!RelayWrites
  <2>1. /\ StreamTyped'
        /\ RelayAt = "waiting" /\ Chunks = 1 /\ Chunks' = 0
        /\ Idle' = sNow + StreamIdleLimit
        /\ \/ /\ FarHeld < StreamBuffer /\ FarHeld' = FarHeld + 1 /\ RelayAt' = "waiting"
              /\ RelayDue' = RelayDue
           \/ /\ ~(FarHeld < StreamBuffer) /\ FarHeld' = FarHeld /\ RelayAt' = "writing"
              /\ RelayDue' = sNow + StreamWriteTimeout
        /\ UNCHANGED <<sNow, FarShut, HostAt, HostDue, Beat, NearHeld, NearShut,
                       ViewerGone, HostGone>>
    BY <1>a, <1>7, RelayWritesSeen DEF FarSide, NearSide, Gone
  <2>2. OnTheWay' = OnTheWay
    BY <1>a, <2>1, OnTheWayCounts DEF OnTheWay, Bit
  <2>3. StreamTimes'
    BY <1>a, <2>1 DEF StreamTimes, AllServed, Stuck
  <2>4. AllServed'
    BY <1>a, <2>1 DEF StreamTimes, AllServed
  <2>5. ViewerMissed'
    BY <1>a, <1>c, <2>1, <2>2 DEF StreamTimes, ViewerMissed, Stuck
  <2>6. HostMissed'
    BY <1>a, <2>1 DEF StreamTimes, AllServed, HostMissed, Stuck
  <2> QED
    BY <2>1, <2>3, <2>4, <2>5, <2>6 DEF StreamInv
<1>8. CASE Stream!RelayWritten
  <2>1. /\ StreamTyped'
        /\ RelayAt = "writing" /\ FarHeld < StreamBuffer
        /\ RelayAt' = "waiting" /\ FarHeld' = FarHeld + 1
        /\ UNCHANGED <<sNow, Idle, Chunks, FarShut, HostAt, HostDue, Beat, NearHeld,
                       NearShut, ViewerGone, HostGone>>
    BY <1>a, <1>8, RelayWrittenSeen DEF FarSide, NearSide, Gone
  <2>2. OnTheWay' = OnTheWay
    BY <1>a, <2>1, OnTheWayCounts DEF OnTheWay, Bit
  <2>3. StreamTimes'
    BY <1>a, <2>1 DEF StreamTimes, AllServed, Stuck
  <2>4. AllServed'
    BY <1>a, <2>1 DEF StreamTimes, AllServed
  <2>5. ViewerMissed'
    BY <1>a, <1>c, <2>1, <2>2 DEF StreamTimes, ViewerMissed, Stuck
  <2>6. HostMissed'
    BY <1>a, <2>1 DEF StreamTimes, AllServed, HostMissed, Stuck
  <2> QED
    BY <2>1, <2>3, <2>4, <2>5, <2>6 DEF StreamInv
<1>9. CASE Stream!RelayEnds
  <2>1. /\ StreamTyped'
        /\ RelayAt # "ended"
        /\ \/ FarShut = 1
           \/ RelayAt = "writing" /\ sNow >= RelayDue
           \/ RelayAt = "waiting" /\ (sNow >= Idle \/ NearShut = 1)
        /\ RelayAt' = "ended" /\ NearShut' = 1 /\ Chunks' = 0
        /\ UNCHANGED <<sNow, HostAt, HostDue, Beat, NearHeld, RelayDue, Idle, FarHeld,
                       ViewerGone, HostGone>>
    BY <1>a, <1>9, RelayEndsSeen DEF FarSide, NearSide, Gone
  <2>3. StreamTimes'
    BY <1>a, <2>1 DEF StreamTimes, AllServed, Stuck
  <2>4. AllServed'
    BY <1>a, <2>1 DEF StreamTimes, AllServed
  <2>5. ViewerMissed'
    BY <1>a, <1>c, <2>1 DEF StreamTimes, ViewerMissed, Stuck
  <2>6. HostMissed'
    BY <1>a, <2>1 DEF StreamTimes, AllServed, HostMissed, Stuck
  <2> QED
    BY <2>1, <2>3, <2>4, <2>5, <2>6 DEF StreamInv
<1>10. CASE Stream!ViewerReads
  <2>1. /\ StreamTyped'
        /\ ViewerGone = 0 /\ FarHeld > 0 /\ FarHeld' = FarHeld - 1
        /\ UNCHANGED <<sNow, HostAt, HostDue, Beat, NearHeld, NearShut, RelayAt,
                       RelayDue, Idle, Chunks, FarShut, ViewerGone, HostGone>>
    BY <1>a, <1>10, ViewerReadsSeen DEF FarSide, NearSide, Gone
  <2>3. StreamTimes'
    BY <1>a, <2>1 DEF StreamTimes, AllServed, Stuck
  <2>4. AllServed'
    BY <1>a, <2>1 DEF StreamTimes, AllServed
  <2>5. ViewerMissed'
    BY <1>a, <1>c, <2>1 DEF StreamTimes, ViewerMissed, Stuck
  <2>6. HostMissed'
    BY <1>a, <2>1 DEF StreamTimes, AllServed, HostMissed, Stuck
  <2> QED
    BY <2>1, <2>3, <2>4, <2>5, <2>6 DEF StreamInv
<1>11. CASE Stream!ViewerCloses \/ Stream!ViewerVanishes \/ Stream!HostVanishes
  <2>1. /\ StreamTyped'
        /\ \/ ViewerGone = 0 /\ ViewerGone' = sNow /\ HostGone' = HostGone
           \/ /\ HostGone = 0 /\ HostGone' = sNow /\ ViewerGone' = ViewerGone
              /\ FarShut' = FarShut
        /\ UNCHANGED <<sNow, HostAt, HostDue, Beat, NearHeld, NearShut, RelayAt,
                       RelayDue, Idle, Chunks, FarHeld>>
    BY <1>a, <1>11, LeavesSeen DEF FarSide, NearSide, Gone
  <2>2. OnTheWay' = OnTheWay
    BY <1>a, <2>1, OnTheWayCounts DEF OnTheWay, Bit
  <2>3. StreamTimes'
    BY <1>a, <2>1 DEF StreamTimes, AllServed, Stuck
  <2>4. AllServed'
    BY <1>a, <2>1 DEF StreamTimes, AllServed
  <2>5. ViewerMissed'
    BY <1>a, <1>c, <2>1, <2>2 DEF StreamTimes, ViewerMissed, Stuck
  <2>6. HostMissed'
    BY <1>a, <2>1 DEF StreamTimes, AllServed, HostMissed, Stuck
  <2> QED
    BY <2>1, <2>3, <2>4, <2>5, <2>6 DEF StreamInv
<1>12. CASE Stream!Publish \/ UNCHANGED streamVars
  <2>1. /\ UNCHANGED <<sNow, host, near, relay, chunk, far, gone>>
        /\ waiting' \in {waiting, TRUE}
    BY <1>12 DEF Stream!Publish, streamVars
  <2>2. StreamTyped'
    BY <1>a, <2>1 DEF StreamTyped
  <2>3. UNCHANGED <<sNow, HostAt, HostDue, Beat, NearHeld, NearShut, RelayAt, RelayDue, Idle,
                    Chunks, FarHeld, FarShut, ViewerGone, HostGone>>
    BY <2>1
    DEF HostAt, HostDue, Beat, NearHeld, NearShut, RelayAt, RelayDue, Idle, Chunks, FarHeld,
        FarShut, ViewerGone, HostGone
  <2> QED
    BY <1>a, <2>2, <2>3
    DEF StreamInv, StreamTimes, AllServed, ViewerMissed, HostMissed, OnTheWay, Stuck, Bit
<1> QED
  BY <1>0, <1>2, <1>3, <1>4, <1>5, <1>6, <1>7, <1>8, <1>9, <1>10, <1>11, <1>12 DEF Stream!Next

\* What the places and the numbers say is what the module's properties say.
LEMMA StreamSound ==
  StreamInv => Stream!TypeOK /\ Stream!SubscriberReleased /\ Stream!EndsExactlyWhenDead
<1> SUFFICES ASSUME StreamInv
             PROVE  /\ Stream!TypeOK /\ Stream!SubscriberReleased
                    /\ Stream!EndsExactlyWhenDead
  OBVIOUS
<1>1. StreamTyped /\ StreamTimes /\ AllServed /\ ViewerMissed /\ HostMissed
  BY DEF StreamInv
<1>2. /\ HostAt \in {"waiting", "writing", "ended"}
      /\ RelayAt \in {"waiting", "writing", "ended"} /\ RelayDue \in Nat /\ Idle \in Nat
      /\ NearHeld \in Nat /\ FarHeld \in Nat /\ ViewerGone \in Nat /\ HostGone \in Nat
      /\ Beats(StreamBuffer + 1) \in Nat
  <2>1. StreamBuffer + 1 \in Nat
    BY StreamBounds
  <2> QED
    BY <1>1, <2>1, ViewTyped, BeatsGrow
<1>3. Stream!TypeOK
  <2>1. /\ sNow \in 1 .. StreamTime
        /\ NearHeld \in 0 .. StreamBuffer /\ FarHeld \in 0 .. StreamBuffer
    BY <1>1, <1>2, StreamBounds DEF StreamTimes
  <2> QED
    BY <1>1, <1>2, <2>1
    DEF StreamTyped, Stream!TypeOK, Stream!AtWork, NearHeld, FarHeld, HostAt, RelayAt
<1>4. Stream!SubscriberReleased
  <2>1. ViewerGone # 0 /\ HostGone = 0 /\ HostAt # "ended" =>
          sNow - ViewerGone <= Beats(StreamBuffer + 1) + StreamWriteTimeout
    BY <1>1, <1>2, StreamBounds DEF ViewerMissed, StreamTimes
  <2> QED
    BY <2>1, Zenon
    DEF Stream!SubscriberReleased, Stream!Here, Stream!Subscribed, Stream!AtWork, Beats,
        ViewerGone, HostGone, HostAt
<1>5. Stream!EndsExactlyWhenDead
  <2>1. HostGone # 0 /\ RelayAt # "ended" =>
          sNow - HostGone <= StreamIdleLimit + StreamWriteTimeout
    BY <1>1, <1>2, StreamBounds DEF HostMissed, StreamTimes, Stuck
  <2>2. RelayAt = "ended" => ViewerGone # 0 \/ HostGone # 0
    BY <1>1 DEF AllServed
  <2>3. gone = [viewer |-> 0, host |-> 0] => ViewerGone = 0 /\ HostGone = 0
    BY DEF ViewerGone, HostGone
  <2>4. gone.host # 0 /\ relay.at \in {"waiting", "writing"} =>
          sNow - gone.host <= StreamIdleLimit + StreamWriteTimeout
    BY <2>1, Zenon DEF HostGone, RelayAt
  <2>5. relay.at = "ended" => gone # [viewer |-> 0, host |-> 0]
    BY <2>2, <2>3 DEF RelayAt
  <2> QED
    BY <2>4, <2>5, Zenon DEF Stream!EndsExactlyWhenDead, Stream!AtWork
<1> QED
  BY <1>3, <1>4, <1>5

-----------------------------------------------------------------------------
(* The quota: Asked, Polled and Beside, src/quota.go.  The proofs about the   *)
(* module hold with the constants of each setting.                          *)

OfAsked == INSTANCE ClaudeQuotaProofs WITH
  RowIds <- Both, Api <- {"credits"}, Shapes <- {Week, Both},
  Writers <- {"status line", "widget"}, Polls <- FALSE,
  StatusTTL <- QuotaTTL, StaleAfter <- QuotaStale,
  Interval <- PollInterval, MaxTime <- AskedTime, MaxActs <- AskedActs,
  live <- liveRows
OfPolled == INSTANCE ClaudeQuotaProofs WITH
  Requests <- {}, RowIds <- Both, Api <- {"credits"}, Shapes <- {{}, Week},
  Writers <- {"Claude Code"}, Polls <- TRUE, StatusTTL <- QuotaTTL, StaleAfter <- QuotaStale,
  Interval <- PollInterval, MaxTime <- PolledTime, MaxActs <- PolledActs,
  live <- liveRows
OfBeside == INSTANCE ClaudeQuotaProofs WITH
  Requests <- {"dashboard"}, RowIds <- Both, Api <- {"credits"}, Shapes <- {Week, Both},
  Writers <- {"status line", "widget"}, Polls <- TRUE,
  StatusTTL <- QuotaTTL, StaleAfter <- QuotaStale,
  Interval <- PollInterval, MaxTime <- BesideTime, MaxActs <- BesideActs,
  live <- liveRows

\* The definitions the proofs are about are those of the setting.
LEMMA AskedSame ==
  /\ OfAsked!QuotaAssumption /\ (OfAsked!Init <=> Asked!Init) /\ (OfAsked!Next <=> Asked!Next)
<1>1. OfAsked!QuotaAssumption
  BY QuotaAssumed, Zenon DEF OfAsked!QuotaAssumption, Asked!QuotaAssumption
<1>2. OfAsked!Init <=> Asked!Init
  BY Zenon DEF OfAsked!Init, OfAsked!NoStatus, OfAsked!None, OfAsked!Idle,
    OfAsked!Credentials, Asked!Init, Asked!NoStatus, Asked!None, Asked!Idle, Asked!Credentials
<1>3. OfAsked!Next <=> Asked!Next
  BY Zenon DEF OfAsked!vars, OfAsked!world, OfAsked!polling, OfAsked!counting, OfAsked!Times,
    OfAsked!Reading, OfAsked!None, OfAsked!File, OfAsked!Credentials, OfAsked!Failures,
    OfAsked!Answers, OfAsked!Parsed, OfAsked!ReadOf, OfAsked!Broken, OfAsked!Base,
    OfAsked!Merge, OfAsked!Status, OfAsked!NoStatus, OfAsked!Idle, OfAsked!Tick, OfAsked!Act,
    OfAsked!Outside, OfAsked!StatusLineWrites, OfAsked!WidgetWrites,
    OfAsked!CredentialChanges, OfAsked!Ended, OfAsked!PollWithoutToken, OfAsked!PollCalls,
    OfAsked!WaitAfter, OfAsked!PollAnswered, OfAsked!PollerStops, OfAsked!RefreshTokens,
    OfAsked!Moves, OfAsked!FromCache, OfAsked!ReadLive, OfAsked!ReadCache, OfAsked!ReadSnap,
    OfAsked!ReadTokens, OfAsked!StoredAt, OfAsked!Store, OfAsked!Next, Asked!vars,
    Asked!world, Asked!polling, Asked!counting, Asked!Times, Asked!Reading, Asked!None,
    Asked!File, Asked!Credentials, Asked!Failures, Asked!Answers, Asked!Parsed, Asked!ReadOf,
    Asked!Broken, Asked!Base, Asked!Merge, Asked!Status, Asked!NoStatus, Asked!Idle,
    Asked!Tick, Asked!Act, Asked!Outside, Asked!StatusLineWrites, Asked!WidgetWrites,
    Asked!CredentialChanges, Asked!Ended, Asked!PollWithoutToken, Asked!PollCalls,
    Asked!WaitAfter, Asked!PollAnswered, Asked!PollerStops, Asked!RefreshTokens, Asked!Moves,
    Asked!FromCache, Asked!ReadLive, Asked!ReadCache, Asked!ReadSnap, Asked!ReadTokens,
    Asked!StoredAt, Asked!Store, Asked!Next
<1> QED
  BY <1>1, <1>2, <1>3

\* The definitions the proofs are about are those of the setting.
LEMMA PolledSame ==
  /\ OfPolled!QuotaAssumption /\ (OfPolled!Init <=> Polled!Init) /\ (OfPolled!Next <=> Polled!Next)
<1>1. OfPolled!QuotaAssumption
  BY QuotaAssumed, Zenon DEF OfPolled!QuotaAssumption, Polled!QuotaAssumption
<1>2. OfPolled!Init <=> Polled!Init
  BY Zenon DEF OfPolled!Init, OfPolled!NoStatus, OfPolled!None, OfPolled!Idle,
    OfPolled!Credentials, Polled!Init, Polled!NoStatus, Polled!None, Polled!Idle,
    Polled!Credentials
<1>3. OfPolled!Next <=> Polled!Next
  BY Zenon DEF OfPolled!vars, OfPolled!world, OfPolled!polling, OfPolled!counting,
    OfPolled!Times, OfPolled!Reading, OfPolled!None, OfPolled!File, OfPolled!Credentials,
    OfPolled!Failures, OfPolled!Answers, OfPolled!Parsed, OfPolled!ReadOf, OfPolled!Broken,
    OfPolled!Base, OfPolled!Merge, OfPolled!Status, OfPolled!NoStatus, OfPolled!Idle,
    OfPolled!Tick, OfPolled!Act, OfPolled!Outside, OfPolled!StatusLineWrites,
    OfPolled!WidgetWrites, OfPolled!CredentialChanges, OfPolled!Ended,
    OfPolled!PollWithoutToken, OfPolled!PollCalls, OfPolled!WaitAfter, OfPolled!PollAnswered,
    OfPolled!PollerStops, OfPolled!RefreshTokens, OfPolled!Moves, OfPolled!FromCache,
    OfPolled!ReadLive, OfPolled!ReadCache, OfPolled!ReadSnap, OfPolled!ReadTokens,
    OfPolled!StoredAt, OfPolled!Store, OfPolled!Next, Polled!vars, Polled!world,
    Polled!polling, Polled!counting, Polled!Times, Polled!Reading, Polled!None, Polled!File,
    Polled!Credentials, Polled!Failures, Polled!Answers, Polled!Parsed, Polled!ReadOf,
    Polled!Broken, Polled!Base, Polled!Merge, Polled!Status, Polled!NoStatus, Polled!Idle,
    Polled!Tick, Polled!Act, Polled!Outside, Polled!StatusLineWrites, Polled!WidgetWrites,
    Polled!CredentialChanges, Polled!Ended, Polled!PollWithoutToken, Polled!PollCalls,
    Polled!WaitAfter, Polled!PollAnswered, Polled!PollerStops, Polled!RefreshTokens,
    Polled!Moves, Polled!FromCache, Polled!ReadLive, Polled!ReadCache, Polled!ReadSnap,
    Polled!ReadTokens, Polled!StoredAt, Polled!Store, Polled!Next
<1> QED
  BY <1>1, <1>2, <1>3

\* The definitions the proofs are about are those of the setting.
LEMMA BesideSame ==
  /\ OfBeside!QuotaAssumption /\ (OfBeside!Init <=> Beside!Init) /\ (OfBeside!Next <=> Beside!Next)
<1>1. OfBeside!QuotaAssumption
  BY QuotaAssumed, Zenon DEF OfBeside!QuotaAssumption, Beside!QuotaAssumption
<1>2. OfBeside!Init <=> Beside!Init
  BY Zenon DEF OfBeside!Init, OfBeside!NoStatus, OfBeside!None, OfBeside!Idle,
    OfBeside!Credentials, Beside!Init, Beside!NoStatus, Beside!None, Beside!Idle,
    Beside!Credentials
<1>3. OfBeside!Next <=> Beside!Next
  BY Zenon DEF OfBeside!vars, OfBeside!world, OfBeside!polling, OfBeside!counting,
    OfBeside!Times, OfBeside!Reading, OfBeside!None, OfBeside!File, OfBeside!Credentials,
    OfBeside!Failures, OfBeside!Answers, OfBeside!Parsed, OfBeside!ReadOf, OfBeside!Broken,
    OfBeside!Base, OfBeside!Merge, OfBeside!Status, OfBeside!NoStatus, OfBeside!Idle,
    OfBeside!Tick, OfBeside!Act, OfBeside!Outside, OfBeside!StatusLineWrites,
    OfBeside!WidgetWrites, OfBeside!CredentialChanges, OfBeside!Ended,
    OfBeside!PollWithoutToken, OfBeside!PollCalls, OfBeside!WaitAfter, OfBeside!PollAnswered,
    OfBeside!PollerStops, OfBeside!RefreshTokens, OfBeside!Moves, OfBeside!FromCache,
    OfBeside!ReadLive, OfBeside!ReadCache, OfBeside!ReadSnap, OfBeside!ReadTokens,
    OfBeside!StoredAt, OfBeside!Store, OfBeside!Next, Beside!vars, Beside!world,
    Beside!polling, Beside!counting, Beside!Times, Beside!Reading, Beside!None, Beside!File,
    Beside!Credentials, Beside!Failures, Beside!Answers, Beside!Parsed, Beside!ReadOf,
    Beside!Broken, Beside!Base, Beside!Merge, Beside!Status, Beside!NoStatus, Beside!Idle,
    Beside!Tick, Beside!Act, Beside!Outside, Beside!StatusLineWrites, Beside!WidgetWrites,
    Beside!CredentialChanges, Beside!Ended, Beside!PollWithoutToken, Beside!PollCalls,
    Beside!WaitAfter, Beside!PollAnswered, Beside!PollerStops, Beside!RefreshTokens,
    Beside!Moves, Beside!FromCache, Beside!ReadLive, Beside!ReadCache, Beside!ReadSnap,
    Beside!ReadTokens, Beside!StoredAt, Beside!Store, Beside!Next
<1> QED
  BY <1>1, <1>2, <1>3

\* Outside the quota's own parts its variables are those of the first setting.
QuotaInv ==
  /\ part = "polled" => OfPolled!QuotaInv
  /\ part = "beside" => OfBeside!QuotaInv
  /\ part \notin {"polled", "beside"} => OfAsked!QuotaInv

QuotaSteps ==
  /\ part' = part
  /\ part = "polled" => [Polled!Next]_quotaVars
  /\ part = "beside" => [Beside!Next]_quotaVars
  /\ part \notin {"polled", "beside"} => [Asked!Next]_quotaVars

LEMMA QuotaInit == HostInit => QuotaInv
<1> SUFFICES ASSUME HostInit PROVE QuotaInv
  OBVIOUS
<1>1. /\ part = "polled" => Polled!Init
      /\ part = "beside" => Beside!Init
      /\ part \notin {"polled", "beside"} => Asked!Init
  BY DEF HostInit
<1>2. CASE part = "polled"
  BY <1>1, <1>2, PolledSame, OfPolled!InitInv DEF QuotaInv
<1>3. CASE part = "beside"
  BY <1>1, <1>3, BesideSame, OfBeside!InitInv DEF QuotaInv
<1>4. CASE part \notin {"polled", "beside"}
  BY <1>1, <1>4, AskedSame, OfAsked!InitInv DEF QuotaInv
<1> QED
  BY <1>2, <1>3, <1>4

LEMMA QuotaHostSteps == [HostNext]_hostVars => QuotaSteps
<1> SUFFICES ASSUME [HostNext]_hostVars PROVE QuotaSteps
  OBVIOUS
<1>1. CASE UNCHANGED hostVars
  BY <1>1 DEF hostVars, QuotaSteps
<1>2. CASE HostNext
  BY <1>2 DEF HostNext, QuotaSteps
<1> QED
  BY <1>1, <1>2

\* A call to the endpoint waits out the interval, or the backoff.
PacedStep ==
  lastCall'.at # lastCall.at /\ lastCall.at # 0 =>
    lastCall'.at - lastCall.at >=
      IF lastCall.answer = "limited" THEN Backoff429 ELSE PollInterval

LEMMA QuotaStep == QuotaInv /\ QuotaSteps => QuotaInv' /\ PacedStep
<1> SUFFICES ASSUME QuotaInv, QuotaSteps PROVE QuotaInv' /\ PacedStep
  OBVIOUS
<1>1. CASE part = "polled"
  <2>1. OfPolled!QuotaAssumption /\ OfPolled!QuotaInv /\ [OfPolled!Next]_(OfPolled!vars)
    BY <1>1, PolledSame DEF QuotaInv, QuotaSteps, quotaVars, OfPolled!vars
  <2>2. OfPolled!QuotaInv' /\ OfPolled!PacedStep
    BY <2>1, OfPolled!NextInv, OfPolled!StepPaced
  <2> QED
    BY <1>1, <2>2, Zenon DEF QuotaInv, QuotaSteps, PacedStep, OfPolled!PacedStep
<1>2. CASE part = "beside"
  <2>1. OfBeside!QuotaAssumption /\ OfBeside!QuotaInv /\ [OfBeside!Next]_(OfBeside!vars)
    BY <1>2, BesideSame DEF QuotaInv, QuotaSteps, quotaVars, OfBeside!vars
  <2>2. OfBeside!QuotaInv' /\ OfBeside!PacedStep
    BY <2>1, OfBeside!NextInv, OfBeside!StepPaced
  <2> QED
    BY <1>2, <2>2, Zenon DEF QuotaInv, QuotaSteps, PacedStep, OfBeside!PacedStep
<1>3. CASE part \notin {"polled", "beside"}
  <2>1. OfAsked!QuotaAssumption /\ OfAsked!QuotaInv /\ [OfAsked!Next]_(OfAsked!vars)
    BY <1>3, AskedSame DEF QuotaInv, QuotaSteps, quotaVars, OfAsked!vars
  <2>2. OfAsked!QuotaInv' /\ OfAsked!PacedStep
    BY <2>1, OfAsked!NextInv, OfAsked!StepPaced
  <2> QED
    BY <1>3, <2>2, Zenon DEF QuotaInv, QuotaSteps, PacedStep, OfAsked!PacedStep
<1> QED
  BY <1>1, <1>2, <1>3

LEMMA QuotaSound == QuotaInv => AnswersFresh
<1> SUFFICES ASSUME QuotaInv PROVE AnswersFresh
  OBVIOUS
<1>1. ASSUME part = "asked"
      PROVE  Asked!TypeOK /\ Asked!AnswersFresh /\ Asked!EveryRowDated
  <2>1. OfAsked!TypeOK /\ OfAsked!AnswersFresh /\ OfAsked!EveryRowDated
    BY <1>1, OfAsked!Sound DEF QuotaInv
  <2> QED
    BY <2>1, Zenon DEF OfAsked!TypeOK, OfAsked!AnswersFresh, OfAsked!EveryRowDated,
      OfAsked!Times, OfAsked!Reading, OfAsked!File, OfAsked!Credentials, OfAsked!Failures,
      Asked!TypeOK, Asked!AnswersFresh, Asked!EveryRowDated, Asked!Times, Asked!Reading,
      Asked!File, Asked!Credentials, Asked!Failures
<1>2. ASSUME part = "beside"
      PROVE  Beside!TypeOK /\ Beside!AnswersFresh /\ Beside!EveryRowDated
  <2>1. OfBeside!TypeOK /\ OfBeside!AnswersFresh /\ OfBeside!EveryRowDated
    BY <1>2, OfBeside!Sound DEF QuotaInv
  <2> QED
    BY <2>1, Zenon DEF OfBeside!TypeOK, OfBeside!AnswersFresh, OfBeside!EveryRowDated,
      OfBeside!Times, OfBeside!Reading, OfBeside!File, OfBeside!Credentials, OfBeside!Failures,
      Beside!TypeOK, Beside!AnswersFresh, Beside!EveryRowDated, Beside!Times, Beside!Reading,
      Beside!File, Beside!Credentials, Beside!Failures
<1> QED
  BY <1>1, <1>2 DEF AnswersFresh

-----------------------------------------------------------------------------
(* The update helper: UpdateSwap, src/update_apply_windows.go.              *)

\* Whatever step the helper is at, the files and the service are where its
\* next step expects them.
SwapPlaced ==
  /\ pc # "none" => outcome = "none" /\ ~swept
  /\ svc = "running" => live \in Versions
  /\ pc \in {"stop", "sweep", "set aside", "undo start"} => live = prev
  /\ pc \in {"copy", "copying", "start", "wait ready", "clean up",
             "undo stop", "undo remove", "undo rename"} => backup = prev
  /\ pc \in {"stop", "sweep", "set aside", "copy", "copying", "start", "wait ready",
             "clean up"} => staged \in Versions /\ staged > prev
  /\ pc \in {"start", "wait ready", "clean up"} => live = staged
  /\ pc \in {"sweep", "set aside", "copy", "copying", "start", "undo remove",
             "undo rename", "undo start"} => svc = "stopped"
  /\ pc \in {"wait ready", "clean up"} => svc = "running"
  /\ pc = "clean up" => live \notin bad

SwapInv == TypeOK /\ OutcomeHonest /\ PreviousKept /\ SwapPlaced

\* A mark is no version.
LEMMA MarksAreNoVersions ==
  /\ Partial \notin Versions /\ Absent \notin Versions /\ Partial # Absent
  /\ 0 \in Versions
BY VersionsAssumption, MarksAssumption DEF Versions

\* The invariant holds initially.
LEMMA SwapInit == Init => SwapInv
BY MarksAreNoVersions DEF Init, SwapInv, TypeOK, OutcomeHonest, PreviousKept, SwapPlaced,
                          Contents, Outcomes

\* Every step keeps it.
LEMMA SwapStep == SwapInv /\ [Next]_vars => SwapInv'
<1> SUFFICES ASSUME SwapInv, [Next]_vars PROVE SwapInv'
  OBVIOUS
<1> USE MarksAreNoVersions DEF SwapInv, TypeOK, OutcomeHonest, PreviousKept, SwapPlaced,
        Contents, Outcomes, files, agent, helper, fate, At, Done, Goto,
        StopService, StartService, StopFails
<1>1. CASE Spawn
  BY <1>1 DEF Spawn, Versions
<1>2. CASE Refuse
  BY <1>2 DEF Refuse
<1>3. CASE Stop
  BY <1>3 DEF Stop
<1>4. CASE StopTimesOut
  BY <1>4 DEF StopTimesOut, Versions
<1>5. CASE Sweep
  BY <1>5 DEF Sweep
<1>6. CASE SweepFails
  BY <1>6 DEF SweepFails
<1>7. CASE SetAside
  BY <1>7 DEF SetAside
<1>8. CASE SetAsideFails
  BY <1>8 DEF SetAsideFails
<1>9. CASE CopyBegins
  BY <1>9 DEF CopyBegins
<1>10. CASE CopyEnds
  BY <1>10 DEF CopyEnds
<1>11. CASE CopyFails
  <2>1. CASE pc = "copy"
    BY <1>11, <2>1 DEF CopyFails
  <2>2. CASE pc = "copying"
    BY <1>11, <2>2 DEF CopyFails
  <2> QED
    BY <1>11, <2>1, <2>2 DEF CopyFails
<1>12. CASE StartNew
  BY <1>12 DEF StartNew
<1>13. CASE StartNewFails
  BY <1>13 DEF StartNewFails
<1>14. CASE Ready
  BY <1>14 DEF Ready
<1>15. CASE NotReady
  BY <1>15 DEF NotReady
<1>16. CASE CleanUp
  BY <1>16 DEF CleanUp, Versions
<1>17. CASE UndoStop
  BY <1>17 DEF UndoStop
<1>18. CASE UndoStopTimesOut
  BY <1>18 DEF UndoStopTimesOut
<1>19. CASE UndoRemove
  BY <1>19 DEF UndoRemove
<1>20. CASE UndoRemoveFails
  BY <1>20 DEF UndoRemoveFails
<1>21. CASE UndoRename
  BY <1>21 DEF UndoRename
<1>22. CASE UndoRenameFails
  BY <1>22 DEF UndoRenameFails
<1>23. CASE UndoStart
  BY <1>23 DEF UndoStart
<1>24. CASE UndoStartFails
  BY <1>24 DEF UndoStartFails
<1>25. CASE ProcessExits
  <2>1. TypeOK'
    <3>1. lingering' \subseteq {"live", "backup"}
      BY <1>25 DEF ProcessExits
    <3>2. UNCHANGED <<bad, files, svc, applying, helper, fate>>
      BY <1>25 DEF ProcessExits
    <3>3. applying' \in BOOLEAN /\ startTried' \in BOOLEAN /\ doomed' \in BOOLEAN /\ swept' \in BOOLEAN
      BY <3>2
    <3>4. QED
      BY <3>1, <3>2, <3>3
  <2>2. OutcomeHonest' /\ PreviousKept' /\ SwapPlaced'
    BY <1>25 DEF ProcessExits
  <2>3. QED
    BY <2>1, <2>2
<1>26. CASE HelperDies
  BY <1>26 DEF HelperDies
<1>27. CASE Reboot
  <2>1. TypeOK'
    <3>1. swept' \in BOOLEAN /\ doomed' \in BOOLEAN
      BY <1>27 DEF Reboot
    <3>2. QED
      BY <1>27, <3>1 DEF Reboot
  <2>2. OutcomeHonest'
    BY <1>27 DEF Reboot
  <2>3. PreviousKept'
    <3>1. CASE backup' = backup
      BY <1>27, <3>1 DEF Reboot
    <3>2. CASE doomed /\ backup # Absent
      BY <1>27, <3>2 DEF Reboot
    <3>3. QED
      BY <1>27, <3>1, <3>2 DEF Reboot
  <2>4. SwapPlaced'
    BY <1>27 DEF Reboot
  <2>5. QED
    BY <2>1, <2>2, <2>3, <2>4
<1>28. CASE UNCHANGED vars
  <2>1. UNCHANGED <<bad, files, agent, helper, fate>>
    BY <1>28 DEF vars
  <2>2. TypeOK'
    <3>1. applying' \in BOOLEAN /\ startTried' \in BOOLEAN /\ doomed' \in BOOLEAN /\ swept' \in BOOLEAN
      BY <2>1
    <3>2. QED
      BY <2>1, <3>1
  <2>3. OutcomeHonest' /\ PreviousKept' /\ SwapPlaced'
    BY <2>1
  <2>4. QED
    BY <2>2, <2>3
<1>29. QED
  BY <1>1, <1>2, <1>3, <1>4, <1>5, <1>6, <1>7, <1>8, <1>9, <1>10,
     <1>11, <1>12, <1>13, <1>14, <1>15, <1>16, <1>17, <1>18, <1>19,
     <1>20, <1>21, <1>22, <1>23, <1>24, <1>25, <1>26, <1>27, <1>28
     DEF Next, HelperStep

------------------------------------------------------------

-----------------------------------------------------------------------------
(* The host: each part takes its own steps or none.                         *)

LEMMA HostSteps ==
  [HostNext]_hostVars =>
    /\ [Cache!Next]_cacheVars /\ [Stream!Next]_streamVars /\ [Bridge!Next]_bridgeVars
    /\ [Ring!Next]_historyVars /\ [Process!Next]_mainVars /\ [Next]_swapVars
<1> SUFFICES ASSUME [HostNext]_hostVars
             PROVE  /\ [Cache!Next]_cacheVars /\ [Stream!Next]_streamVars
                    /\ [Bridge!Next]_bridgeVars /\ [Ring!Next]_historyVars
                    /\ [Process!Next]_mainVars /\ [Next]_swapVars
  OBVIOUS
<1>1. CASE UNCHANGED hostVars
  BY <1>1 DEF hostVars, processVars
<1>2. CASE HostNext
  BY <1>2 DEF HostNext, processVars
<1> QED
  BY <1>1, <1>2

\* However callers, collections and lanes overlap, an answer of /api/metrics is no
\* further behind a snapshot stored longer ago than the cache's life and a
\* goroutine's delay than a lane may be overtaken between its copy and its store,
\* or its own collection took, and whoever is followed is still collecting
\* (src/collector.go, src/sampler.go).
THEOREM AnswersAreBounded == HostSpec => []ReadingAgeBounded
<1>1. HostInit => CacheInv
  BY CacheInit DEF HostInit
<1>2. CacheInv /\ [HostNext]_hostVars => CacheInv'
  BY HostSteps, CacheStep
<1>3. CacheInv => ReadingAgeBounded
  BY CacheAnswers DEF ReadingAgeBounded
<1> QED
  BY <1>1, <1>2, <1>3, PTL DEF HostSpec

\* /readyz answers 200 only after CPU and memory were measured, whichever lane
\* published first and whichever caller filled the cache (src/healthcheck.go).
THEOREM ReadyMeansMeasured == HostSpec => []ReadyOnlyMeasured
<1>1. HostInit => CacheInv
  BY CacheInit DEF HostInit
<1>2. CacheInv /\ [HostNext]_hostVars => CacheInv'
  BY HostSteps, CacheStep
<1>3. CacheInv => ReadyOnlyMeasured
  BY CacheReady DEF ReadyOnlyMeasured
<1> QED
  BY <1>1, <1>2, <1>3, PTL DEF HostSpec

\* The sensor process answers what it was asked, one process holds the driver,
\* a daemon that worked is tried again, and drives are found again in time
\* (src/lhm_bridge_windows.go).
THEOREM BridgeIsSound == HostSpec => []BridgeSound
<1>1. HostInit => BridgeInv
  BY BridgeInit DEF HostInit
<1>2. BridgeInv /\ [HostNext]_hostVars => BridgeInv'
  BY HostSteps, BridgeStep
<1>3. BridgeInv => BridgeSound
  <2> SUFFICES ASSUME BridgeInv PROVE BridgeSound
    OBVIOUS
  <2>1. Bridge!TypeOK
    <3>1. request.kind \in {"none", "read", "rescan", "osd", "one shot"}
      BY DEF BridgeInv, BridgeTyped, Lines
    <3>2. bNow \in 1 .. BridgeTime /\ processes \in Nat /\ requests \in 0 .. MaxRequests
          /\ cachedAt \in 0 .. BridgeTime /\ failedAt \in 0 .. BridgeTime /\ closed \in BOOLEAN
      BY BridgeBounds DEF BridgeInv, BridgeTyped
    <3> QED
      BY <3>1, <3>2 DEF Bridge!TypeOK
  <2>2. processes <= 1
    BY DEF BridgeInv, BridgeTyped
  <2>3. closed => processes = 0 \/ request.kind = "one shot"
    BY DEF BridgeInv, BridgeTyped, OneHolder
  <2> QED
    BY <2>1, <2>2, <2>3 DEF BridgeInv, BridgeSound, Bridge!OneDriver
<1> QED
  BY <1>1, <1>2, <1>3, PTL DEF HostSpec

\* A vanished viewer or host costs the handlers of a stream within the deadlines,
\* no stream is cut while both are there (src/server.go, src/peers.go), and no
\* request is served by an agent whose sampler has stopped (src/main.go).
THEOREM StreamsEnd == HostSpec => []StreamsEndWhenDead
<1> DEFINE Two == StreamInv /\ MainInv
<1>1. HostInit => Two
  BY StreamInit, MainInit DEF HostInit
<1>2. Two /\ [HostNext]_hostVars => Two'
  BY HostSteps, StreamStep, MainStep
<1>3. Two => StreamsEndWhenDead
  BY StreamSound, MainSound DEF StreamsEndWhenDead
<1> QED
  BY <1>1, <1>2, <1>3, PTL DEF HostSpec

\* After any sequence of snapshots, with the clock standing still, jumping or
\* stepping back, the ring holds the peaks of exactly the buckets observed inside
\* the window, oldest first (src/history.go).
THEOREM RingAlwaysAnswers == HostSpec => []RingAnswersForWindow
<1>1. HostInit => RingInv
  BY RingInit DEF HostInit
<1>2. RingInv /\ [HostNext]_hostVars => RingInv'
  BY HostSteps, RingStep
<1>3. RingInv => RingAnswersForWindow
  BY RingSound DEF RingAnswersForWindow
<1> QED
  BY <1>1, <1>2, <1>3, PTL DEF HostSpec

\* However reads, stores and invalidations of any number of requests interleave,
\* an answer of /api/quota lacks no scan older than the cache's life, and each of
\* its rows is dated (src/quota.go).
THEOREM QuotaAnswersFresh == HostSpec => []AnswersFresh
<1>1. HostInit => QuotaInv
  BY QuotaInit
<1>2. QuotaInv /\ [HostNext]_hostVars => QuotaInv'
  BY QuotaHostSteps, QuotaStep
<1>3. QuotaInv => AnswersFresh
  BY QuotaSound
<1> QED
  BY <1>1, <1>2, <1>3, PTL DEF HostSpec

\* The usage endpoint is called no sooner than after the interval, or the backoff
\* after a call that was rate limited, whatever the credentials and the answers
\* do (src/quota.go), and the sensor process is spawned again no sooner than after
\* its backoff (src/lhm_bridge_windows.go).
THEOREM AlwaysPaced == HostSpec => RetriesPaced
<1> DEFINE All == QuotaInv /\ BridgeInv
<1>1. HostInit => All
  BY QuotaInit, BridgeInit DEF HostInit
<1>2. All /\ [HostNext]_hostVars => All'
  BY HostSteps, QuotaHostSteps, QuotaStep, BridgeStep
<1>3. All /\ [HostNext]_hostVars =>
        /\ [PacedStep]_(Polled!vars) /\ [PacedStep]_(Beside!vars)
        /\ [processes' > processes /\ request'.kind # "one shot" /\ failedAt # 0 =>
              bNow >= failedAt + RestartBackoff]_(Bridge!vars)
  BY HostSteps, QuotaHostSteps, QuotaStep, BridgePaced DEF bridgeVars, Bridge!vars
<1> HIDE DEF All
<1> QED
  BY <1>1, <1>2, <1>3, PTL
  DEF HostSpec, RetriesPaced, Polled!PollPaced, Beside!PollPaced, Bridge!SpawnsPaced, PacedStep

\* The invariant holds throughout.
THEOREM SwapInvariance == Spec => []SwapInv
<1>1. QED
  BY SwapInit, SwapStep, PTL DEF Spec

\* Type correctness of the swap.
THEOREM SwapTypeCorrect == Spec => []TypeOK
<1>1. SwapInv => TypeOK
  BY DEF SwapInv
<1>2. QED
  BY SwapInvariance, <1>1, PTL

\* The helper never reports an update or a rollback that did not happen.
THEOREM ReportsAreHonest == Spec => []OutcomeHonest
<1>1. SwapInv => OutcomeHonest
  BY DEF SwapInv
<1>2. QED
  BY SwapInvariance, <1>1, PTL

\* Until an update is confirmed the previous binary is whole at the live or at
\* the rollback path, but for a boot that deletes what an earlier update
\* queued.
THEOREM PreviousAlwaysKept == Spec => []PreviousKept
<1>1. SwapInv => PreviousKept
  BY DEF SwapInv
<1>2. QED
  BY SwapInvariance, <1>1, PTL

\* The binary's path changes only while the service is reported stopped.
THEOREM FilesMoveOnlyWhileStopped == Spec => FilesMovedWhileStopped
<1>1. SwapInv /\ [Next]_vars => [live' # live => svc = "stopped" /\ svc' = "stopped"]_vars
  <2> SUFFICES ASSUME SwapInv, Next, live' # live PROVE svc = "stopped" /\ svc' = "stopped"
    OBVIOUS
  <2>1. CASE Spawn
    BY <2>1 DEF Spawn
  <2>2. CASE HelperStep
    BY <2>2 DEF HelperStep, Refuse, Stop, StopTimesOut, Sweep, SweepFails, SetAside,
       SetAsideFails, CopyBegins, CopyEnds, CopyFails, StartNew, StartNewFails, Ready,
       NotReady, CleanUp, UndoStop, UndoStopTimesOut, UndoRemove, UndoRemoveFails,
       UndoRename, UndoRenameFails, UndoStart, UndoStartFails, Goto, At, files, agent,
       SwapInv, SwapPlaced
  <2>3. CASE ProcessExits \/ HelperDies \/ Reboot
    BY <2>3 DEF ProcessExits, HelperDies, Reboot, files
  <2>4. QED
    BY <2>1, <2>2, <2>3 DEF Next
<1>2. QED
  BY SwapInvariance, <1>1, PTL DEF Spec, FilesMovedWhileStopped
=============================================================================

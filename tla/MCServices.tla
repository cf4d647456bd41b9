----------------------------- MODULE MCServices ------------------------------
(***************************************************************************)
(* What the agent serves, and what its service depends on, checked side by *)
(* side: one part runs in each behaviour and the others stay as they are.  *)
(***************************************************************************)
EXTENDS UpdateSwap, HistoryBuckets, TLC

CONSTANTS
  Callers, Requests,
  \* The delays of src/quota.go, and the bounds of three settings.
  QuotaTTL, QuotaStale, StartupDelay, PollInterval, Backoff429, CredRetry,
  AskedTime, AskedActs, PolledTime, PolledActs, BesideTime, BesideActs,
  \* The delays of src/collector.go, and bounds.
  MetricsTTL, CollectTimeout, MetricsMaxAge, HeldUp, FirstPass, CacheTime,
  \* Those of streams and relays, with the size of a connection.
  StreamKeepalive, StreamWriteTimeout, StreamIdleLimit, StreamBuffer, StreamTime,
  \* Those of the sensor bridge.
  ColdTimeout, WarmTimeout, OneShotTimeout, RestartBackoff, DisableFailures, RescanReads,
  RescanAge, BridgeTTL, BridgeTime, MaxRequests,
  \* Bounds of the history.
  RingTime, MaxReading, MaxLog,
  \* The grace of a shutdown.
  Grace, MainTime

VARIABLES
  part,  \* the part that runs
  \* src/quota.go
  now, acts, cacheFile, snapFile, credential, liveRows, liveErr, poller, journal, tokens,
  tokenErr, scans, lastCall, cached, req,
  \* src/collector.go
  mNow, working, published, cache, flight, mCall, shot, measured,
  \* src/server.go and src/peers.go: a stream that is relayed
  sNow, host, waiting, near, relay, chunk, far, gone,
  \* src/lhm_bridge_windows.go
  bNow, daemon, child, processes, request, requests, cachedAt, closed, answer, failedAt,
  \* src/history.go
  points, log,
  \* src/main.go and src/service_windows.go
  mainNow, mode, main, running, server, streams, stop, deadline, status, exit

quotaVars == <<now, acts, cacheFile, snapFile, credential, liveRows, liveErr, poller, journal,
               tokens, tokenErr, scans, lastCall, cached, req>>
cacheVars == <<mNow, working, published, cache, flight, mCall, shot, measured>>
streamVars == <<sNow, host, waiting, near, relay, chunk, far, gone>>
swapVars == vars
bridgeVars == <<bNow, daemon, child, processes, request, requests, cachedAt, closed,
                answer, failedAt>>
historyVars == <<points, log>>
mainVars == <<mainNow, mode, main, running, server, streams, stop, deadline, status, exit>>
processVars == <<swapVars, mainVars>>
hostVars == <<part, quotaVars, cacheVars, streamVars, processVars, bridgeVars, historyVars>>

\* The quota in three settings: two dashboards and the files, the poll alone for
\* as long as a backoff takes, and a dashboard beside the poll.
Week == {"week"}
Both == {"week", "credits"}
Asked == INSTANCE ClaudeQuota WITH
  RowIds <- Both, Api <- {"credits"}, Shapes <- {Week, Both},
  Writers <- {"status line", "widget"}, Polls <- FALSE,
  StatusTTL <- QuotaTTL, StaleAfter <- QuotaStale,
  Interval <- PollInterval, MaxTime <- AskedTime, MaxActs <- AskedActs,
  live <- liveRows
Polled == INSTANCE ClaudeQuota WITH
  Requests <- {}, RowIds <- Both, Api <- {"credits"}, Shapes <- {{}, Week},
  Writers <- {"Claude Code"}, Polls <- TRUE, StatusTTL <- QuotaTTL, StaleAfter <- QuotaStale,
  Interval <- PollInterval, MaxTime <- PolledTime, MaxActs <- PolledActs,
  live <- liveRows
Beside == INSTANCE ClaudeQuota WITH
  Requests <- {"dashboard"}, RowIds <- Both, Api <- {"credits"}, Shapes <- {Week, Both},
  Writers <- {"status line", "widget"}, Polls <- TRUE,
  StatusTTL <- QuotaTTL, StaleAfter <- QuotaStale,
  Interval <- PollInterval, MaxTime <- BesideTime, MaxActs <- BesideActs,
  live <- liveRows

Cache == INSTANCE MetricsCache WITH
  TTL <- MetricsTTL, Timeout <- CollectTimeout, MaxAge <- MetricsMaxAge, Delay <- HeldUp,
  MaxTime <- CacheTime, now <- mNow, call <- mCall

Stream == INSTANCE RelayedStream WITH
  Keepalive <- StreamKeepalive, WriteTimeout <- StreamWriteTimeout,
  IdleLimit <- StreamIdleLimit, Buffer <- StreamBuffer, MaxTime <- StreamTime,
  now <- sNow, published <- waiting

Bridge == INSTANCE LhmBridge WITH
  Backoff <- RestartBackoff, CacheTTL <- BridgeTTL, MaxTime <- BridgeTime, now <- bNow

Ring == INSTANCE History WITH MaxTime <- RingTime

Process == INSTANCE Service WITH MaxTime <- MainTime, now <- mainNow

ASSUME QuotaAssumed ==
  Asked!QuotaAssumption /\ Polled!QuotaAssumption /\ Beside!QuotaAssumption
ASSUME CacheAssumed == Cache!CacheAssumption
ASSUME StreamAssumed == Stream!StreamAssumption
ASSUME BridgeAssumed == Bridge!BridgeAssumption
ASSUME RingAssumed == Ring!HistoryAssumption
ASSUME ProcessAssumed == Process!ServiceAssumption

-----------------------------------------------------------------------------
\* The parts that do not run start in one state.
HostInit ==
  /\ part \in {"asked", "polled", "beside", "cache", "stream", "swap", "bridge", "ring",
               "process"}
  /\ CASE part = "polled" -> Polled!Init
       [] part = "beside" -> Beside!Init
       [] OTHER -> Asked!Init
  /\ Cache!Init
  /\ Stream!Init /\ (part = "stream" \/ ~waiting)
  /\ Init /\ (part = "swap" \/ bad = {})
  /\ Bridge!Init
  /\ Ring!Init
  /\ Process!Init /\ (part = "process" \/ mode = "console")

HostNext ==
  \/ /\ \/ part = "asked" /\ Asked!Next
        \/ part = "polled" /\ Polled!Next
        \/ part = "beside" /\ Beside!Next
     /\ UNCHANGED <<part, cacheVars, streamVars, processVars, bridgeVars, historyVars>>
  \/ part = "cache" /\ Cache!Next
     /\ UNCHANGED <<part, quotaVars, streamVars, processVars, bridgeVars, historyVars>>
  \/ part = "stream" /\ Stream!Next
     /\ UNCHANGED <<part, quotaVars, cacheVars, processVars, bridgeVars, historyVars>>
  \/ part = "swap" /\ Next
     /\ UNCHANGED <<part, quotaVars, cacheVars, streamVars, mainVars, bridgeVars, historyVars>>
  \/ part = "bridge" /\ Bridge!Next
     /\ UNCHANGED <<part, quotaVars, cacheVars, streamVars, processVars, historyVars>>
  \/ part = "ring" /\ Ring!Next
     /\ UNCHANGED <<part, quotaVars, cacheVars, streamVars, processVars, bridgeVars>>
  \/ part = "process" /\ Process!Next
     /\ UNCHANGED <<part, quotaVars, cacheVars, streamVars, swapVars, bridgeVars, historyVars>>

HostSpec == HostInit /\ [][HostNext]_hostVars

Symmetry == Permutations(Callers) \cup Permutations(Requests)

-----------------------------------------------------------------------------
(* The properties of the update helper are those of UpdateSwap, read here   *)
(* by their names; the others are those of the modules, with their types.    *)

\* An answer about the quota lacks no scan older than the cache's life, and no
\* reading in it is passed off as newer than it is (quota.go Status).
AnswersFresh ==
  /\ part = "asked" => Asked!TypeOK /\ Asked!AnswersFresh /\ Asked!EveryRowDated
  /\ part = "beside" => Beside!TypeOK /\ Beside!AnswersFresh /\ Beside!EveryRowDated

\* The usage endpoint is polled, and the sensor process spawned again, no sooner
\* than after the interval or backoff that applies (quota.go, lhm_bridge_windows.go).
RetriesPaced == Polled!PollPaced /\ Beside!PollPaced /\ Bridge!SpawnsPaced

\* However callers, collections and lanes overlap, no answer is further behind the
\* snapshots than the cache and the delays allow, and no failed collection is left
\* to be followed (collector.go).
ReadingAgeBounded ==
  part = "cache" => Cache!TypeOK /\ Cache!ReadingAgeBounded /\ Cache!NoDeadFlight

\* The agent is ready only once CPU and memory were measured (healthcheck.go).
ReadyOnlyMeasured == part = "cache" => Cache!ReadyOnlyMeasured

\* A vanished viewer or host costs its handlers within the deadlines, no stream is
\* cut while both are there, and none is served by an agent that has stopped
\* sampling (server.go, peers.go, main.go).
StreamsEndWhenDead ==
  /\ part = "stream" => /\ Stream!TypeOK /\ Stream!SubscriberReleased
                        /\ Stream!EndsExactlyWhenDead
  /\ part = "process" => Process!TypeOK /\ Process!ServedWhileRunning

\* The ring holds the peaks of exactly the buckets inside the window, in order
\* (history.go).
RingAnswersForWindow ==
  part = "ring" => Ring!TypeOK /\ Ring!PointsArePeaks /\ Ring!ExactlyTheWindow /\ Ring!OldestFirst

\* The sensor process answers what it was asked, two never hold the driver, a
\* process that worked is tried again, and drives are found again in time
\* (lhm_bridge_windows.go).
BridgeSound ==
  part = "bridge" => /\ Bridge!TypeOK /\ Bridge!OwnAnswer /\ Bridge!OneDriver
                     /\ Bridge!WorkedIsKept /\ Bridge!RescannedInTime
=============================================================================

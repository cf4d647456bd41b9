----------------------------- MODULE CodexUsage ------------------------------
(***************************************************************************)
(* The Codex usage page of src/token_usage.go and src/codex_quota.go: a    *)
(* sampler goroutine scans the session files, a poller goroutine asks the  *)
(* installed CLI over its standard streams, and requests show the newer of *)
(* the two.  The CLI is a child process that must be gone when the agent   *)
(* stops.  Rows are not modelled: a reading is the time it describes.      *)
(***************************************************************************)
EXTENDS Integers

CONSTANTS Interval,    \* between two quota polls
          Timeout,     \* codexQuotaRequestTimeout
          StaleAfter,
          MaxTime,     \* bound: the clock stops here
          MaxEvents    \* bound: session files written or lost

\* What is assumed of the constants.
CodexAssumption == {Interval, Timeout, StaleAfter, MaxTime, MaxEvents} \subseteq Nat \ {0}

VARIABLES
  now,
  events,    \* how often the session files changed
  sessions,  \* what a scan would find: readable, and the times of the newest
             \* event (newest) and of the newest quota event (quota)
  scan,      \* the usage sampler: idle, or with a scan to store
  cached,    \* the last stored scan: times, and the scan error
  live,      \* time of the last successful poll, 0 before
  pollErr,
  poller,    \* the poll goroutine: off, or a step of pollQuota, or asleep
  due,       \* when its timer fires; while a lookup runs, when it times out
  child,     \* is a CLI process alive?
  cancelled, \* Stop has cancelled the poller's context
  stopper,   \* the caller of Stop: none, waiting, or returned
  lastGood   \* history: when a scan or a poll last succeeded

vars == <<now, events, sessions, scan, cached, live, pollErr, poller, due, child,
          cancelled, stopper, lastGood>>

Times == 0..MaxTime
Found == [readable : BOOLEAN, newest : Times, quota : Times]
InLookup == {"initialize", "read", "failed", "answered"}

polling == <<live, pollErr, poller, due, child, cancelled, stopper>>
scanning == <<scan, cached>>

Init ==
  /\ now = 1 /\ events = 0
  /\ sessions = [readable |-> TRUE, newest |-> 0, quota |-> 0]
  /\ scan = [busy |-> FALSE, found |-> sessions]
  /\ cached = [fetched |-> 0, quota |-> 0, failed |-> FALSE]
  /\ live = 0 /\ pollErr = FALSE
  /\ poller \in {"starting", "off"} /\ due = 0 /\ child = FALSE
  /\ cancelled = FALSE /\ stopper = "none" /\ lastGood = 0

-----------------------------------------------------------------------------
(* The world: time passes and Codex appends to, or loses, its files.        *)

\* No lookup outlives its deadline: its context is due before the clock goes on.
Tick ==
  /\ now < MaxTime /\ now' = now + 1
  /\ poller \in InLookup => now < due
  /\ UNCHANGED <<events, sessions, scanning, polling, lastGood>>

SessionsChange(found) ==
  /\ events < MaxEvents /\ events' = events + 1
  /\ sessions' = found
  /\ UNCHANGED <<now, scanning, polling, lastGood>>

-----------------------------------------------------------------------------
(* tokenUsageSampler and CodexUsageChecker.Refresh.                         *)

ScanReads ==
  /\ ~scan.busy /\ scan' = [busy |-> TRUE, found |-> sessions]
  /\ UNCHANGED <<now, events, sessions, cached, polling, lastGood>>

\* Mutant of Refreshed: a failed scan counts as a fresh look at the files.
RefreshedAlways(found) ==
  [fetched |-> now, quota |-> IF found.readable THEN found.quota ELSE cached.quota,
   failed |-> ~found.readable]

\* An unreadable tree leaves the rows and the time they were fetched.
Refreshed(found) ==
  IF ~found.readable THEN [cached EXCEPT !.failed = TRUE]
  ELSE [fetched |-> IF found.newest # 0 \/ found.quota # 0 THEN now ELSE 0,
        quota |-> found.quota, failed |-> FALSE]

ScanStores ==
  /\ scan.busy /\ scan' = [scan EXCEPT !.busy = FALSE]
  /\ cached' = Refreshed(scan.found)
  /\ lastGood' = IF scan.found.readable THEN now ELSE lastGood
  /\ UNCHANGED <<now, events, sessions, polling>>

-----------------------------------------------------------------------------
(* The poller: Start's goroutine, pollQuota, readCodexQuota and its         *)
(* protocol, and Stop.                                                      *)

Poller(from, to) ==
  /\ poller = from /\ poller' = to
  /\ UNCHANGED <<now, events, sessions, scanning, stopper, cancelled>>

\* The child is started, or is not to be found.
Launch ==
  /\ ~cancelled /\ due' = now + Timeout
  /\ \/ Poller("starting", "initialize") /\ child' = TRUE
     \/ Poller("starting", "failed") /\ UNCHANGED child
  /\ UNCHANGED <<live, pollErr, lastGood>>

\* A request of the protocol is answered.  Messages with another id are
\* skipped, so only the answers to the two requests move the lookup on.
Answer(from, to) ==
  /\ ~cancelled /\ Poller(from, to)
  /\ UNCHANGED <<live, pollErr, due, child, lastGood>>

\* An error response, output that is no message, a child that exited, the
\* request's deadline or Stop.
LookupFails ==
  /\ \E from \in {"initialize", "read"} : Poller(from, "failed")
  /\ UNCHANGED <<live, pollErr, due, child, lastGood>>

\* Mutant of Reaped: the child is only waited for after a good answer.
ReapedIfAnswered == child /\ poller = "failed"

\* The deferred clean-up of readCodexQuota, for every way out: kill and reap.
Reaped == FALSE

\* pollQuota stores the outcome, unless Stop has cancelled it meanwhile.
PollEnds ==
  /\ poller \in {"failed", "answered"}
  /\ Poller(poller, "asleep") /\ due' = now + Interval
  /\ child' = Reaped
  /\ IF cancelled THEN UNCHANGED <<live, pollErr, lastGood>>
     ELSE /\ pollErr' = (poller = "failed")
          /\ live' = IF poller = "answered" THEN now ELSE live
          /\ lastGood' = IF poller = "answered" THEN now ELSE lastGood

Wakes ==
  /\ ~cancelled /\ now >= due /\ Poller("asleep", "starting")
  /\ UNCHANGED <<live, pollErr, due, child, lastGood>>

StopCalled ==
  /\ stopper = "none" /\ poller # "off" /\ stopper' = "waiting" /\ cancelled' = TRUE
  /\ UNCHANGED <<now, events, sessions, scanning, live, pollErr, poller, due, child, lastGood>>

\* A goroutine cancelled before its lookup fails to start one; asleep, it ends.
GoroutineEnds ==
  /\ cancelled /\ poller \in {"starting", "asleep"} /\ Poller(poller, "off")
  /\ UNCHANGED <<live, pollErr, due, child, lastGood>>

StopReturns ==
  /\ stopper = "waiting" /\ poller = "off" /\ stopper' = "returned"
  /\ UNCHANGED <<now, events, sessions, scanning, live, pollErr, poller, due, child,
                 cancelled, lastGood>>

StopStep == LookupFails \/ PollEnds \/ GoroutineEnds \/ StopReturns

Next ==
  \/ Tick
  \/ \E found \in Found : /\ found.newest \in {0, sessions.newest, now}
                          /\ found.quota \in {0, sessions.quota, now}
                          /\ SessionsChange(found)
  \/ ScanReads
  \/ ScanStores
  \/ Launch
  \/ Answer("initialize", "read")
  \/ Answer("read", "answered")
  \/ Wakes
  \/ StopCalled
  \/ LookupFails
  \/ PollEnds
  \/ GoroutineEnds
  \/ StopReturns

Spec == Init /\ [][Next]_vars /\ WF_vars(StopStep)

-----------------------------------------------------------------------------
\* What Status answers at this moment: whether the live reading is shown, the
\* time its source was read, and the stale flag.
ShowsLive == live # 0 /\ cached.quota <= live
Fetched == IF ShowsLive THEN live ELSE cached.fetched
Stale == Fetched # 0 /\ now - Fetched > StaleAfter

TypeOK ==
  /\ now \in Times /\ events \in 0..MaxEvents /\ sessions \in Found
  /\ scan \in [busy : BOOLEAN, found : Found]
  /\ cached \in [fetched : Times, quota : Times, failed : BOOLEAN]
  /\ live \in Times /\ pollErr \in BOOLEAN
  /\ poller \in InLookup \cup {"off", "starting", "asleep"}
  /\ due \in Nat /\ child \in BOOLEAN /\ cancelled \in BOOLEAN
  /\ stopper \in {"none", "waiting", "returned"}

\* When neither a scan nor a poll has succeeded for longer than the limit, the
\* page says that what it shows is stale: "a broken sampler still ages to
\* stale" (token_usage.go), whichever source is on show.
BrokenAgesToStale ==
  Fetched # 0 /\ now - lastGood > StaleAfter => Stale

\* A CLI process lives only while a lookup waits for it: none is left behind
\* by an error, a timeout or Stop, and Stop returns.
NoChildLeft == child => poller \in InLookup
Stopping == stopper = "waiting"
StopReturnsAlone == (Stopping ~> ~Stopping) /\ [][NoChildLeft']_vars
=============================================================================

------------------------------ MODULE LhmBridge ------------------------------
(***************************************************************************)
(* The Windows sensor bridge: src/lhm_bridge_windows.go keeps one          *)
(* PowerShell process that reads the hardware through a driver only one    *)
(* process may open, and src/collector_windows.go asks it for readings,    *)
(* or, once the daemon is known never to work, runs a process of its own   *)
(* for each.  The protocol is one line per request and one per answer.     *)
(* A reading is the number of the request it answers.                      *)
(***************************************************************************)
EXTENDS Integers, Sequences

CONSTANTS ColdTimeout, WarmTimeout, OneShotTimeout,
          Backoff,          \* lhmDaemonRestartBackoff
          DisableFailures,  \* lhmDaemonDisableFailures
          RescanReads, RescanAge,
          CacheTTL,         \* lhmBridgeCacheTTL
          MaxTime,          \* bound: the clock stops here
          MaxRequests       \* bound: requests sent

\* What is assumed of the constants.
BridgeAssumption ==
  /\ {ColdTimeout, WarmTimeout, OneShotTimeout, Backoff, DisableFailures, RescanReads,
      RescanAge, CacheTTL, MaxTime, MaxRequests} \subseteq Nat \ {0}
  /\ WarmTimeout <= ColdTimeout

VARIABLES
  now,
  daemon,     \* lhmDaemon: its fields but the pipe
  child,      \* the live process's unread request and unread answers
  processes,  \* how many processes hold the driver
  request,    \* the request in flight, under the daemon's mutex
  requests,   \* how many were sent
  cachedAt,   \* lhmBridgeAt, 0 when nothing is cached
  closed,     \* Close was called
  answer,     \* history: the last reading handed out and what it was asked for
  failedAt    \* history: when the daemon last failed, 0 for never

vars == <<now, daemon, child, processes, request, requests, cachedAt, closed,
          answer, failedAt>>

NoRequest == [kind |-> "none", id |-> 0, due |-> 0]
NoChild == [reads |-> 0, out |-> <<>>]

Init ==
  /\ now = 1
  /\ daemon = [alive |-> FALSE, disabled |-> FALSE, cold |-> FALSE, worked |-> FALSE,
               reads |-> 0, scannedAt |-> 0, rescanDue |-> FALSE, failures |-> 0,
               restartAt |-> 0]
  /\ child = NoChild /\ processes = 0
  /\ request = NoRequest /\ requests = 0 /\ cachedAt = 0 /\ closed = FALSE
  /\ answer = [asked |-> 0, read |-> 0] /\ failedAt = 0

-----------------------------------------------------------------------------
\* A deadline ends its request before the clock goes on.
Tick ==
  /\ now < MaxTime /\ now' = now + 1
  /\ request.kind # "none" => now < request.due
  /\ UNCHANGED <<daemon, child, processes, request, requests, cachedAt, closed,
                 answer, failedAt>>

\* The daemon reads a request line and answers it, possibly with a line that is
\* no reading (0).
ChildAnswers(good) ==
  /\ child.reads # 0
  /\ child' = [reads |-> 0, out |-> Append(child.out, IF good THEN child.reads ELSE 0)]
  /\ UNCHANGED <<now, daemon, processes, request, requests, cachedAt, closed,
                 answer, failedAt>>

\* The process is gone; whoever writes to it or reads from it will see that.
ChildDies ==
  /\ daemon.alive /\ processes = 1
  /\ processes' = 0 /\ child' = NoChild
  /\ UNCHANGED <<now, daemon, request, requests, cachedAt, closed, answer, failedAt>>

-----------------------------------------------------------------------------
\* handleFailureLocked and recordFailureLocked.
Failed(d) ==
  [d EXCEPT !.alive = FALSE, !.failures = @ + 1, !.restartAt = now + Backoff,
            !.disabled = @ \/ (~d.worked /\ d.failures + 1 >= DisableFailures)]

\* handleSuccessLocked: readings for the on-screen display do not count.
Succeeded(kind) ==
  LET d == [daemon EXCEPT !.worked = TRUE, !.failures = 0, !.cold = FALSE] IN
  CASE kind = "osd" -> d
    [] kind = "rescan" -> [d EXCEPT !.reads = 0, !.scannedAt = now, !.rescanDue = FALSE]
    [] OTHER -> [d EXCEPT !.reads = @ + 1,
                          !.rescanDue = @ \/ d.reads + 1 >= RescanReads
                                          \/ now - d.scannedAt >= RescanAge]

Started == [daemon EXCEPT !.alive = TRUE, !.cold = TRUE, !.scannedAt = now,
                          !.reads = 0, !.rescanDue = FALSE]

Free == request.kind = "none" /\ requests < MaxRequests

\* The display's requests bypass the cache of whole readings, and use only a
\* daemon that a whole reading has asked for before.
Wanted(kind) == IF kind = "osd" THEN requests # 0
                ELSE cachedAt = 0 \/ now - cachedAt >= CacheTTL

\* A whole reading, good or not, is cached from when it was asked for.
Cached(kind) == IF kind = "osd" THEN cachedAt ELSE now

\* ensureAliveLocked found or started the process, and the line is written.
Send(kind, d, running) ==
  LET line == IF kind = "read" /\ d.rescanDue THEN "rescan" ELSE kind
      wait == IF d.cold \/ line = "rescan" THEN ColdTimeout ELSE WarmTimeout
  IN /\ requests' = requests + 1
     /\ request' = [kind |-> line, id |-> requests + 1, due |-> now + wait]
     /\ daemon' = d /\ processes' = running
     /\ child' = IF running = 1 THEN [child EXCEPT !.reads = requests + 1] ELSE child
     /\ cachedAt' = Cached(kind)
     /\ UNCHANGED <<now, closed, answer, failedAt>>

SendWarm(kind) ==
  Free /\ Wanted(kind) /\ ~daemon.disabled /\ daemon.alive
  /\ Send(kind, daemon, processes)

\* No spawn before the backoff of the last failure is over.
MaySpawn == daemon.restartAt = 0 \/ now >= daemon.restartAt

SendCold(kind) ==
  Free /\ Wanted(kind) /\ ~daemon.disabled /\ ~daemon.alive /\ MaySpawn
  /\ Send(kind, Started, processes + 1)

SpawnFails(kind) ==
  /\ Free /\ Wanted(kind) /\ ~daemon.disabled /\ ~daemon.alive /\ MaySpawn
  /\ daemon' = Failed(daemon) /\ failedAt' = now
  /\ requests' = requests + 1 /\ cachedAt' = Cached(kind)
  /\ UNCHANGED <<now, child, processes, request, closed, answer>>

\* Not even the daemon's script could be written: it is given up at once.  Once it
\* is there it is kept, so this can happen only before the first spawn.
ScriptFails(kind) ==
  /\ Free /\ Wanted(kind) /\ ~daemon.disabled /\ ~daemon.alive
  /\ daemon.scannedAt = 0 /\ daemon.failures = 0
  /\ daemon' = [daemon EXCEPT !.disabled = TRUE]
  /\ requests' = requests + 1 /\ cachedAt' = Cached(kind)
  /\ UNCHANGED <<now, child, processes, request, closed, answer, failedAt>>

\* A daemon that can never work, or was closed, is replaced by a process for each
\* whole reading.
OneShotStarts ==
  /\ Free /\ Wanted("read") /\ daemon.disabled
  /\ processes' = processes + 1 /\ requests' = requests + 1
  /\ request' = [kind |-> "one shot", id |-> requests + 1, due |-> now + OneShotTimeout]
  /\ cachedAt' = now
  /\ UNCHANGED <<now, daemon, child, closed, answer, failedAt>>

OneShotEnds ==
  /\ request.kind = "one shot"
  /\ processes' = processes - 1 /\ request' = NoRequest
  /\ UNCHANGED <<now, daemon, child, requests, cachedAt, closed, answer, failedAt>>

Answered ==
  /\ request.kind \notin {"none", "one shot"}
  /\ child.out # <<>> /\ Head(child.out) # 0
  /\ answer' = [asked |-> request.id, read |-> Head(child.out)]
  /\ child' = [child EXCEPT !.out = Tail(@)]
  /\ daemon' = Succeeded(request.kind) /\ request' = NoRequest
  /\ UNCHANGED <<now, processes, requests, cachedAt, closed, failedAt>>

\* Mutant of TornDown: the process is kept for the next request.
TornDownNot == [alive |-> daemon.alive, processes |-> processes, child |-> child]

\* teardownLocked: what of the process is left.
TornDown == [alive |-> FALSE, processes |-> 0, child |-> NoChild]

\* The deadline, the caller's context, a line that is no reading or a process
\* that is gone: the daemon's process goes with the request.
RequestFails ==
  /\ request.kind \notin {"none", "one shot"}
  /\ daemon' = [Failed(daemon) EXCEPT !.alive = TornDown.alive]
  /\ processes' = TornDown.processes /\ child' = TornDown.child
  /\ request' = NoRequest /\ failedAt' = now
  /\ UNCHANGED <<now, requests, cachedAt, closed, answer>>

\* The agent stops, after its sampling loops; a request of the API may still read,
\* and a process of one reading is not the daemon's to end.
Close ==
  /\ request.kind \in {"none", "one shot"} /\ ~closed /\ closed' = TRUE
  /\ daemon' = [daemon EXCEPT !.disabled = TRUE, !.alive = FALSE]
  /\ processes' = IF request.kind = "none" THEN TornDown.processes ELSE processes
  /\ child' = TornDown.child
  /\ UNCHANGED <<now, request, requests, cachedAt, answer, failedAt>>

Next ==
  \/ Tick
  \/ \E good \in BOOLEAN : ChildAnswers(good)
  \/ ChildDies
  \/ \E kind \in {"read", "osd"} : 
       SendWarm(kind) \/ SendCold(kind) \/ SpawnFails(kind) \/ ScriptFails(kind)
  \/ OneShotStarts
  \/ OneShotEnds
  \/ Answered
  \/ RequestFails
  \/ Close

Spec == Init /\ [][Next]_vars

-----------------------------------------------------------------------------
TypeOK ==
  /\ now \in 1..MaxTime /\ processes \in Nat /\ requests \in 0..MaxRequests
  /\ request.kind \in {"none", "read", "rescan", "osd", "one shot"}
  /\ cachedAt \in 0..MaxTime /\ failedAt \in 0..MaxTime
  /\ closed \in BOOLEAN

\* A reading handed out is the answer to the request it was asked for with: no
\* answer that came too late is ever taken for the next one's.
OwnAnswer == answer.read = answer.asked

\* The driver is opened by one process at a time, and after Close by no daemon.
OneDriver == processes <= 1 /\ (closed => processes = 0 \/ request.kind = "one shot")

\* A daemon that has worked is never given up (lhm_bridge_windows.go), whatever
\* fails afterwards and however often.
WorkedIsKept == daemon.worked /\ daemon.disabled => closed

\* Plugged-in hardware is looked for again after at most RescanReads readings.
RescannedInTime == daemon.reads <= RescanReads

\* A process is spawned no sooner than the backoff after the last failure.
SpawnsPaced ==
  [][processes' > processes /\ request'.kind # "one shot" /\ failedAt # 0 =>
       now >= failedAt + Backoff]_vars
=============================================================================

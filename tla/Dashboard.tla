----------------------------- MODULE Dashboard ------------------------------
(***************************************************************************)
(* How the dashboard (static/app.js) keeps its view current: the event     *)
(* stream with the browser's reconnects, the watchdog over a stream that   *)
(* falls silent without an error, polling once streaming has failed out,   *)
(* and the switch to another host while answers of the previous one are    *)
(* still under way.                                                        *)
(*                                                                         *)
(* The browser runs one handler at a time; a request is a handler that     *)
(* starts it and one that takes its answer.                                *)
(***************************************************************************)
EXTENDS Integers, FiniteSets

CONSTANTS
  Hosts,        \* agents that can be viewed
  Limit,        \* streamFailureLimit
  MaxSwitches   \* bound: how often the viewer selects another host

DashboardAssumption == Limit \in Nat \ {0} /\ MaxSwitches \in Nat

VARIABLES
  host,        \* state.hostID
  generation,  \* state.hostGeneration
  visible,     \* document.visibilityState
  paused,      \* state.paused
  stream,      \* state.stream: "none", "connecting", "open", or "live" once a frame came
  timer,       \* state.timer: the poll of /api/metrics is scheduled
  fallback,    \* state.streamFallback
  failures,    \* state.streamFailures
  reconnects,  \* state.streamReconnects
  silent,      \* state.lastStreamAtMS lies more than the silence limit back
  requests,    \* metrics requests under way, and whether the body is awaited
  inFlight,    \* state.metricsInFlight
  shown,       \* whose reading is on display
  aged,        \* it is old
  threw        \* history: the last schedulePolling could not make its EventSource

view == <<host, generation, visible, paused>>
source == <<stream, timer, fallback, failures, reconnects, silent, threw>>
fetches == <<requests, inFlight>>
display == <<shown, aged>>
vars == <<view, source, fetches, display>>

Blank == "--"

TypeOK ==
  /\ host \in Hosts /\ generation \in 0..MaxSwitches
  /\ visible \in BOOLEAN /\ paused \in BOOLEAN
  /\ stream \in {"none", "connecting", "open", "live"} /\ timer \in BOOLEAN
  /\ fallback \in BOOLEAN /\ failures \in 0..Limit /\ reconnects \in 0..Limit
  /\ silent \in BOOLEAN /\ threw \in BOOLEAN
  /\ requests \in SUBSET [host : Hosts, generation : 0..MaxSwitches, body : BOOLEAN]
  /\ inFlight \in BOOLEAN
  /\ shown \in Hosts \cup {Blank} /\ aged \in BOOLEAN

Watching == visible /\ ~paused

-----------------------------------------------------------------------------
\* schedulePolling, with a stream in state open and streamFallback = failed: no
\* source for a view that is hidden or paused, the stream unless it has failed
\* out, the timer otherwise.  Where openStream cannot make an EventSource, it sets
\* streamFallback and leaves the view without either.
SchedulePolling(open, failed) ==
  \E throws \in {t \in BOOLEAN : t => Watching' /\ ~failed /\ open = "none"} :
    /\ stream' = IF ~Watching' \/ failed \/ throws THEN "none"
                 ELSE IF open = "none" THEN "connecting" ELSE open
    /\ timer' = (Watching' /\ failed)
    /\ fallback' = (failed \/ throws) /\ threw' = throws
    /\ silent' = (silent /\ open # "none" /\ stream' = open)

\* fetchMetrics up to its first await.
FetchMetrics ==
  IF inFlight THEN UNCHANGED fetches
  ELSE /\ requests' = requests \cup
                        {[host |-> host, generation |-> generation, body |-> FALSE]}
       /\ inFlight' = TRUE

Init ==
  /\ host \in Hosts /\ generation = 0 /\ visible = TRUE /\ paused = FALSE
  /\ threw \in BOOLEAN /\ fallback = threw
  /\ stream = IF threw THEN "none" ELSE "connecting"
  /\ timer = FALSE /\ failures = 0 /\ reconnects = 0 /\ silent = FALSE
  /\ requests = {[host |-> host, generation |-> 0, body |-> FALSE]} /\ inFlight = TRUE
  /\ shown = Blank /\ aged = TRUE

-----------------------------------------------------------------------------
(* The stream.                                                              *)

\* source.onopen.
StreamOpens ==
  /\ stream = "connecting"
  /\ stream' = "open" /\ failures' = 0 /\ silent' = FALSE
  /\ UNCHANGED <<view, timer, fallback, reconnects, threw, fetches, display>>

\* handleStreamMessage.
Frame ==
  /\ stream \in {"open", "live"}
  /\ stream' = "live"
  /\ shown' = host /\ aged' = FALSE
  /\ failures' = 0 /\ reconnects' = 0 /\ silent' = FALSE
  /\ UNCHANGED <<view, timer, fallback, threw, fetches>>

\* handleStreamError: the browser reconnects, unless the server refused.
StreamFails ==
  /\ stream # "none"
  /\ UNCHANGED <<view, reconnects, display>>
  /\ failures' = failures + 1
  /\ \E closed \in BOOLEAN :
       IF ~closed /\ failures + 1 < Limit
       THEN stream' = "connecting" /\ UNCHANGED <<timer, fallback, silent, threw, fetches>>
       ELSE SchedulePolling("none", TRUE) /\ FetchMetrics

\* The clock: nothing has come over the stream for the silence limit.
Silence ==
  /\ stream # "none" /\ ~silent
  /\ silent' = TRUE
  /\ UNCHANGED <<view, stream, timer, fallback, failures, reconnects, threw, fetches, display>>

\* reviveStreamIfSilent, on the tick of checkDashboardLiveness.
ReviveStreamIfSilent ==
  /\ stream # "none" /\ Watching /\ silent
  /\ UNCHANGED <<view, failures, display>>
  /\ reconnects' = reconnects + 1
  /\ SchedulePolling("none", fallback \/ reconnects + 1 >= Limit) /\ FetchMetrics

-----------------------------------------------------------------------------
(* Requests.                                                                *)

\* The interval of schedulePolling.
Poll ==
  /\ timer /\ Watching
  /\ FetchMetrics
  /\ UNCHANGED <<view, source, display>>

\* Mutant of Current: any answer is taken.
CurrentAny(r) == TRUE

\* isCurrentHost.
Current(r) == r.generation = generation

\* fetchMetrics after its first await: an answer of a host that was left is dropped
\* here, with the flag as it is; from now on no timeout runs.
HeadersArrive(r) ==
  /\ ~r.body
  /\ requests' = (requests \ {r}) \cup
                   IF Current(r) THEN {[r EXCEPT !.body = TRUE]} ELSE {}
  /\ UNCHANGED <<view, source, inFlight, display>>

\* Mutant of Answer: an error leaves the flag set.
AnswerKeepsFlag(r, ok) ==
  /\ ok => r.body
  /\ requests' = requests \ {r}
  /\ inFlight' = (inFlight /\ ~(ok /\ Current(r)))
  /\ IF ok /\ Current(r) THEN shown' = r.host /\ aged' = FALSE ELSE UNCHANGED display
  /\ UNCHANGED <<view, source>>

\* The end of fetchMetrics: the answer, once its body is there, or an error; the
\* timeout of fetchWithTimeout is one of those that come before.
Answer(r, ok) ==
  /\ ok => r.body
  /\ requests' = requests \ {r}
  /\ inFlight' = (inFlight /\ ~Current(r))
  /\ IF ok /\ Current(r) THEN shown' = r.host /\ aged' = FALSE ELSE UNCHANGED display
  /\ UNCHANGED <<view, source>>

Answered == \E r \in requests, ok \in BOOLEAN : Answer(r, ok)
Responded == \E r \in requests : HeadersArrive(r) \/ (~r.body /\ Answer(r, FALSE))

-----------------------------------------------------------------------------
(* The viewer.                                                              *)

\* selectHost with resetHostView.
SelectHost(h) ==
  /\ h # host /\ visible /\ generation < MaxSwitches
  /\ host' = h /\ generation' = generation + 1
  /\ UNCHANGED <<visible, paused>>
  /\ failures' = 0 /\ reconnects' = 0
  /\ SchedulePolling("none", FALSE)
  /\ shown' = Blank /\ aged' = TRUE
  /\ inFlight' = TRUE
  /\ requests' = requests \cup
                    {[host |-> host', generation |-> generation', body |-> FALSE]}

\* handleVisibilityChange and handlePageHide.
Hide ==
  /\ visible /\ visible' = FALSE
  /\ UNCHANGED <<host, generation, paused, failures, reconnects, fetches, display>>
  /\ SchedulePolling(stream, fallback)

Show ==
  /\ ~visible /\ visible' = TRUE
  /\ UNCHANGED <<host, generation, paused, failures, reconnects, display>>
  /\ SchedulePolling(stream, fallback)
  /\ IF paused THEN UNCHANGED fetches ELSE FetchMetrics

\* togglePause.
TogglePause ==
  /\ visible /\ paused' = ~paused
  /\ UNCHANGED <<host, generation, visible, failures, reconnects, display>>
  /\ SchedulePolling(stream, fallback)
  /\ IF paused THEN FetchMetrics ELSE UNCHANGED fetches

\* applySettings, of this page's change or of what was fetched.
ApplySettings ==
  /\ UNCHANGED <<view, failures, reconnects, fetches, display>>
  /\ SchedulePolling(stream, fallback)

\* refreshNow, by a tap on the status strip, and refreshVisibleDashboard.
Refresh ==
  /\ visible
  /\ FetchMetrics
  /\ UNCHANGED <<view, source, display>>

\* The clock: the reading on display grows old.
Age == ~aged /\ aged' = TRUE /\ UNCHANGED <<view, source, fetches, shown>>

Next ==
  \/ StreamOpens \/ Frame \/ StreamFails \/ Silence \/ ReviveStreamIfSilent
  \/ Poll \/ Answered \/ \E r \in requests : HeadersArrive(r)
  \/ \E h \in Hosts : SelectHost(h)
  \/ Hide \/ Show \/ TogglePause \/ ApplySettings \/ Refresh \/ Age

Spec == Init /\ [][Next]_vars

\* Timers fire, that of fetchWithTimeout included; nothing is assumed of the stream,
\* of a body or of what the host answers.
FairSpec ==
  /\ Spec
  /\ WF_vars(Silence) /\ WF_vars(ReviveStreamIfSilent) /\ WF_vars(Poll) /\ WF_vars(Responded)

-----------------------------------------------------------------------------
\* "A switch must never show one host's numbers under another host's name"
\* (resetHostView), though answers of the previous host still come in.
NoForeignReading == shown \in {Blank, host}

\* The flag that holds requests back stands for one request of the selected host:
\* an answer of the previous one does not release it, and none leaves it set.
FlagHonest ==
  /\ Cardinality({r \in requests : Current(r)}) <= 1
  /\ inFlight <=> \E r \in requests : Current(r)

\* A view that is looked at has one source, the stream or the poll, whatever
\* failed, was switched, hidden or paused, and one that is not has none.  The one
\* exception is the code's own: it has none either after an EventSource could not
\* be made, until the next schedulePolling (app.js:574-580).
OneSource ==
  /\ timer => stream = "none"
  /\ timer \/ stream # "none" => Watching
  /\ Watching => timer \/ stream # "none" \/ threw

Overdue == aged /\ Watching
Hanging == \E r \in requests : Current(r) /\ r.body
Refused == \E r \in requests : Current(r) /\ Answer(r, FALSE)
BreaksOff == stream = "open" /\ StreamFails

\* A view that is looked at stays on an old reading for ever only for one of four
\* reasons: a response whose body never ends, an EventSource that could not be made,
\* a host whose requests fail again and again, and a stream that opens and breaks
\* off before a frame again and again, each time with its failures forgotten
\* (app.js:585-588).  A stream that is refused, that fails in any other way or that
\* falls silent without an error is replaced, in the end by polling, and polling
\* keeps asking.
ViewRefreshed ==
  <>[]Overdue => \/ <>[]Hanging \/ <>[]threw
                 \/ []<><<Refused>>_vars \/ []<><<BreaksOff>>_vars
=============================================================================

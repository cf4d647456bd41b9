---------------------------- MODULE MuteControl -----------------------------
(***************************************************************************)
(* The microphone button: the dashboard's toggle (static/app.js), the      *)
(* handler that carries it out microphone by microphone (control_linux.go) *)
(* and the device lane that reports the mute state (device_activity.go).   *)
(* The handlers of two requests share no lock, a request may be lost or    *)
(* outlive the viewer's stay on the host, and what the stream delivers may *)
(* have been sampled before the toggle.                                    *)
(***************************************************************************)
EXTENDS Naturals, FiniteSets

CONSTANTS
  Mics,        \* the sources that are not monitors
  DefaultMic,  \* the default source
  Viewers,     \* the dashboards that look at the host
  MaxPresses,  \* bound: toggles
  MaxMishaps   \* bound: changes from outside, failures, lost requests, departures

MuteAssumption == DefaultMic \in Mics /\ MaxPresses \in Nat /\ MaxMishaps \in Nat

VARIABLES
  muted,       \* the microphones that are muted
  presses,     \* the toggles sent so far
  requests,    \* those that somebody waits for or that are being carried out
  sampled,     \* what the device lane has read and not published yet
  published,   \* the mute state in the newest snapshot
  arriving,    \* by viewer, the mute state in the frame under way
  reading,     \* by viewer, hostControlReadings
  shown,       \* by viewer, microphoneMuteState
  sync,        \* by viewer, controlSync: the toggle in flight
  pending,     \* by viewer, the action is in pendingControlActions
  listed,      \* by viewer, the action is in lastAvailableControls
  disabled,    \* by viewer, button.disabled
  generation,  \* by viewer, hostGeneration
  mishaps

host == <<muted, sampled, published>>
button == <<sync, pending, listed, disabled, generation, presses>>
vars == <<host, requests, arriving, reading, shown, button, mishaps>>

Values == {"muted", "unmuted", "mixed", "unknown"}
Nothing == "nothing"
NoSync == [phase |-> "none"]
Request ==
  [viewer : Viewers, generation : Nat, open : BOOLEAN, todo : SUBSET Mics, failed : SUBSET Mics,
   step : {"read", "set", "done"}, answer : {"muted", "unmuted", "toggled", "failed"}]
Sync == {NoSync} \cup
  [phase : {"sending", "confirming", "holding"}, from : Values, expected : Values,
   id : 1..MaxPresses]

TypeOK ==
  /\ muted \subseteq Mics
  /\ presses \in 0..MaxPresses /\ DOMAIN requests \subseteq 1..presses
  /\ \A k \in DOMAIN requests : requests[k] \in Request
  /\ sampled \in Values \cup {Nothing} /\ published \in Values \cup {Nothing}
  /\ arriving \in [Viewers -> Values \cup {Nothing}]
  /\ reading \in [Viewers -> Values \cup {Nothing}]
  /\ shown \in [Viewers -> Values]
  /\ sync \in [Viewers -> Sync]
  /\ pending \in [Viewers -> BOOLEAN] /\ listed \in [Viewers -> BOOLEAN]
  /\ disabled \in [Viewers -> BOOLEAN] /\ generation \in [Viewers -> Nat]
  /\ mishaps \in 0..MaxMishaps

Mishap == mishaps < MaxMishaps /\ mishaps' = mishaps + 1
Perhaps(bad) == IF bad THEN Mishap ELSE UNCHANGED mishaps

\* aggregateAudioMute, with every source read.
Aggregate(M) == IF M = {} THEN "unmuted" ELSE IF M = Mics THEN "muted" ELSE "mixed"

Init ==
  /\ muted \in SUBSET Mics
  /\ presses = 0 /\ requests = <<>>
  /\ sampled = Nothing /\ published = Nothing
  /\ arriving = [v \in Viewers |-> Nothing] /\ reading = [v \in Viewers |-> Nothing]
  /\ shown = [v \in Viewers |-> "unknown"]
  /\ sync = [v \in Viewers |-> NoSync]
  /\ pending = [v \in Viewers |-> FALSE] /\ listed = [v \in Viewers |-> FALSE]
  /\ disabled = [v \in Viewers |-> TRUE] /\ generation = [v \in Viewers |-> 0]
  /\ mishaps = 0

-----------------------------------------------------------------------------
(* The agent.                                                               *)

At(k, step) == k \in DOMAIN requests /\ requests[k].step = step

\* Request k as r, gone once it is carried out and nobody waits for it.
Now(k, r) ==
  IF r.open \/ r.step # "done" THEN [requests EXCEPT ![k] = r]
  ELSE [j \in DOMAIN requests \ {k} |-> requests[j]]

Flip(m) == (muted \ {m}) \cup ({m} \ muted)

\* applyLinuxCaptureMute up to the list of sources: the target is the inverse of
\* the default source's state.
ReadDefault(k) ==
  /\ At(k, "read")
  /\ requests' = Now(k, [requests[k] EXCEPT
       !.step = "set", !.todo = Mics,
       !.answer = IF DefaultMic \in muted THEN "unmuted" ELSE "muted"])
  /\ UNCHANGED <<host, arriving, reading, shown, button, mishaps>>

\* Apply without pactl's answer: the default source is toggled by itself, by one
\* tool or the next, and a tool that reports a failure may have toggled it.
ToggleDefault(k) ==
  /\ At(k, "read")
  /\ Mishap
  /\ muted' \in {muted, Flip(DefaultMic)}
  /\ \E answer \in {"toggled", "failed"} :
       requests' = Now(k, [requests[k] EXCEPT !.step = "done", !.answer = answer])
  /\ UNCHANGED <<sampled, published, arriving, reading, shown, button>>

\* pactl set-source-mute for one of the sources; after the last one the result is
\* applied unless every source failed.
SetSource(k) ==
  /\ At(k, "set")
  /\ \E m \in requests[k].todo, ok \in BOOLEAN :
       LET todo == requests[k].todo \ {m}
           failed == IF ok THEN requests[k].failed ELSE requests[k].failed \cup {m}
       IN /\ Perhaps(~ok)
          /\ muted' = IF ~ok THEN muted
                      ELSE IF requests[k].answer = "muted" THEN muted \cup {m} ELSE muted \ {m}
          /\ requests' = Now(k, [requests[k] EXCEPT
               !.todo = todo, !.failed = failed,
               !.step = IF todo = {} THEN "done" ELSE @,
               !.answer = IF failed = Mics THEN "failed" ELSE @])
  /\ UNCHANGED <<sampled, published, arriving, reading, shown, button>>

\* AudioMute, in a pass of the device lane; without pactl's list the default source
\* stands for all, and the tools may not answer.
Sample ==
  /\ sampled = Nothing
  /\ \/ sampled' = Aggregate(muted) /\ UNCHANGED mishaps
     \/ sampled' \in {IF DefaultMic \in muted THEN "muted" ELSE "unmuted", "unknown"} /\ Mishap
  /\ UNCHANGED <<muted, published, requests, arriving, reading, shown, button>>

\* applyAndPublish: the newest frame replaces one that is still under way.
Publish ==
  /\ sampled # Nothing
  /\ published' = sampled /\ sampled' = Nothing
  /\ arriving' = [v \in Viewers |-> sampled]
  /\ UNCHANGED <<muted, requests, reading, shown, button, mishaps>>

\* A keyboard key or a mixer.
ChangedOutside ==
  /\ Mishap
  /\ \E m \in Mics : muted' = Flip(m)
  /\ UNCHANGED <<sampled, published, requests, arriving, reading, shown, button>>

-----------------------------------------------------------------------------
(* The dashboard.                                                           *)

\* controlBusy.
Busy(s) == s.phase \in {"sending", "confirming"}

\* endControlSync, with the host's latest reading painted again if replay.
EndSync(v, replay) ==
  /\ sync' = [sync EXCEPT ![v] = NoSync]
  /\ shown' = IF replay /\ reading[v] # Nothing THEN [shown EXCEPT ![v] = reading[v]] ELSE shown

Sent(v) ==
  [viewer |-> v, generation |-> generation[v], open |-> TRUE, todo |-> {}, failed |-> {},
   step |-> "read", answer |-> "failed"]

\* sendControl and beginControlSync.
Press(v) ==
  /\ ~disabled[v] /\ ~pending[v]
  /\ presses < MaxPresses /\ presses' = presses + 1
  /\ requests' = [k \in DOMAIN requests \cup {presses'} |->
       IF k = presses' THEN Sent(v) ELSE requests[k]]
  /\ sync' = [sync EXCEPT ![v] = [phase |-> "sending", from |-> shown[v],
                                  expected |-> "unknown", id |-> presses']]
  /\ pending' = [pending EXCEPT ![v] = TRUE]
  /\ disabled' = [disabled EXCEPT ![v] = TRUE]
  /\ UNCHANGED <<host, arriving, reading, shown, listed, generation, mishaps>>

\* What confirmControlSync expects: the state named by the result, or the other
\* one on a host that reports none.
Expected(v, answer) ==
  IF answer # "toggled" THEN answer
  ELSE IF reading[v] # Nothing THEN "unknown"
  ELSE IF sync[v].from = "muted" THEN "unmuted" ELSE "muted"

\* confirmControlSync.
Confirm(v, answer) ==
  LET expected == Expected(v, answer) IN
  IF expected = "unknown"
  THEN sync' = [sync EXCEPT ![v].phase = "confirming"] /\ UNCHANGED shown
  ELSE /\ shown' = [shown EXCEPT ![v] = expected]
       /\ sync' = [sync EXCEPT ![v] =
            IF reading[v] \in {Nothing, expected} THEN NoSync
            ELSE [@ EXCEPT !.phase = "holding", !.expected = expected]]

\* sendControl after its await: a result, a failure or no answer at all.
Ends(k, answer) ==
  LET v == requests[k].viewer
      own == sync[v].phase # "none" /\ sync[v].id = k
  IN /\ requests' = Now(k, [requests[k] EXCEPT !.open = FALSE])
     /\ IF ~own THEN UNCHANGED <<sync, shown>>
        ELSE IF answer = "failed" THEN EndSync(v, TRUE) ELSE Confirm(v, answer)
     /\ pending' = [pending EXCEPT ![v] = FALSE]
     /\ disabled' = [disabled EXCEPT ![v] = ~listed[v] \/ Busy(sync'[v])]
     /\ UNCHANGED <<host, arriving, reading, listed, generation, presses>>

Answered(k) ==
  /\ At(k, "done") /\ requests[k].open
  /\ Ends(k, requests[k].answer)
  /\ UNCHANGED mishaps

\* The request fails on the way or times out; its handler goes on.
Lost(k) ==
  /\ k \in DOMAIN requests /\ requests[k].open
  /\ Mishap
  /\ Ends(k, "failed")

\* streamControlReading and controlReadingMayPaint.
Receive(v) ==
  /\ arriving[v] # Nothing
  /\ arriving' = [arriving EXCEPT ![v] = Nothing]
  /\ reading' = [reading EXCEPT ![v] = arriving[v]]
  /\ LET paints == CASE sync[v].phase = "none" -> TRUE
                     [] sync[v].phase = "sending" -> FALSE
                     [] sync[v].phase = "holding" -> arriving[v] = sync[v].expected
                     [] sync[v].phase = "confirming" -> arriving[v] # sync[v].from
     IN IF paints
        THEN /\ sync' = [sync EXCEPT ![v] = NoSync]
             /\ shown' = [shown EXCEPT ![v] = arriving[v]]
             /\ disabled' = IF sync[v].phase = "none" \/ pending[v] THEN disabled
                            ELSE [disabled EXCEPT ![v] = ~listed[v]]
        ELSE UNCHANGED <<sync, shown, disabled>>
  /\ UNCHANGED <<host, requests, pending, listed, generation, presses, mishaps>>

\* controlSettleMS runs from the host's answer.
Settles(v) == sync[v].phase \in {"confirming", "holding"}

Settle(v) ==
  /\ Settles(v)
  /\ EndSync(v, TRUE)
  /\ disabled' = IF pending[v] THEN disabled ELSE [disabled EXCEPT ![v] = ~listed[v]]
  /\ UNCHANGED <<host, requests, arriving, reading, pending, listed, generation, presses, mishaps>>

\* applyControlCapabilities, from the status.
Status(v) ==
  /\ ~listed[v]
  /\ listed' = [listed EXCEPT ![v] = TRUE]
  /\ disabled' = [disabled EXCEPT ![v] = pending[v] \/ Busy(sync[v])]
  /\ UNCHANGED <<host, requests, arriving, reading, shown, sync, pending, generation, presses, mishaps>>

\* selectHost to another host and back, with resetHostView: what was sent is
\* still under way.
Return(v) ==
  /\ Mishap
  /\ generation' = [generation EXCEPT ![v] = @ + 1]
  /\ pending' = [pending EXCEPT ![v] = FALSE]
  /\ sync' = [sync EXCEPT ![v] = NoSync]
  /\ reading' = [reading EXCEPT ![v] = Nothing]
  /\ shown' = [shown EXCEPT ![v] = "unknown"]
  /\ listed' = [listed EXCEPT ![v] = FALSE]
  /\ disabled' = [disabled EXCEPT ![v] = TRUE]
  /\ arriving' = [arriving EXCEPT ![v] = published]
  /\ UNCHANGED <<host, requests, presses>>

HandlerStep(k) == ReadDefault(k) \/ ToggleDefault(k) \/ SetSource(k)
LaneStep == Sample \/ Publish

\* The steps that a toggle or a return sets off, of which there are finitely many.
EndsSoon ==
  \/ \E k \in 1..MaxPresses : HandlerStep(k) \/ Answered(k)
  \/ \E v \in Viewers : Settle(v) \/ Status(v)

Next ==
  \/ \E k \in 1..MaxPresses : HandlerStep(k) \/ Answered(k) \/ Lost(k)
  \/ LaneStep \/ ChangedOutside
  \/ \E v \in Viewers : Press(v) \/ Receive(v) \/ Settle(v) \/ Status(v) \/ Return(v)

Spec == Init /\ [][Next]_vars

\* Handlers end by their deadlines, the lane runs while somebody looks on, frames
\* and answers arrive, timers fire.
FairSpec ==
  /\ Spec
  /\ WF_vars(EndsSoon) /\ WF_vars(LaneStep)
  /\ \A v \in Viewers : WF_vars(Receive(v))

-----------------------------------------------------------------------------
\* A button without a toggle in flight shows the host's latest report, whichever
\* answers, failures, timers and returns ended the toggles before.
ShownIsReported ==
  \A v \in Viewers : sync[v].phase = "none" /\ reading[v] # Nothing => shown[v] = reading[v]

\* No reading sampled before the toggle paints over it: the button shows what it
\* did at the press until the host has answered, and then what the host named.
ToggleNotPaintedOver ==
  \A v \in Viewers :
    /\ Busy(sync[v]) => shown[v] = sync[v].from
    /\ sync[v].phase = "holding" => shown[v] = sync[v].expected

\* No button has two toggles under way, which would undo each other, though the
\* answer to one sent before a return comes in between.
InFlight(v) ==
  {k \in DOMAIN requests : /\ requests[k].open
                           /\ requests[k].viewer = v /\ requests[k].generation = generation[v]}
OneToggleAtATime == \A v \in Viewers : Cardinality(InFlight(v)) <= 1

\* Whatever was pressed, lost, changed outside or failed on the way, every button
\* becomes usable again and shows the state that the microphones are in.
Unsettled == \E v \in Viewers : disabled[v] \/ shown[v] # Aggregate(muted)
ButtonSettles == Unsettled ~> ~Unsettled
=============================================================================

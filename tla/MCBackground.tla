---------------------------- MODULE MCBackground -----------------------------
(***************************************************************************)
(* What goes on behind the readings and must keep going, checked side by   *)
(* side: the camera switch, the settings with the update checker they      *)
(* steer, the order of the versions it compares, the Codex page, the       *)
(* delivery to a stream, the dashboard at its other end and its microphone *)
(* button.  One part runs in each behaviour and the others stay as they    *)
(* are.                                                                    *)
(***************************************************************************)
EXTENDS Integers, DeviceManager, SettingsValues, Lanes

CONSTANTS
  Posters, Appliers,
  \* The delays of src/codex_quota.go and src/token_usage.go, and bounds.
  Interval, Timeout, StaleAfter, MaxTime, MaxEvents,
  \* The hosts a dashboard can view, the limit of src/static/app.js, and bounds.
  Hosts, Limit, MaxSwitches,
  \* The microphones, and bounds.
  Mics, DefaultMic, Viewers, MaxPresses, MaxSlips,
  \* What releases may be called, how their suffixes are read, and a bound.
  Tags, Identifiers, Value, Spelling, NaN, MaxUpdates

VARIABLES
  part,  \* the part that runs
  \* src/settings.go and src/update.go
  hardOff, agentUp, file, settings, switching, enabled, loop, got, offered, released,
  applying, appliers, helpers, called,
  \* src/codex_quota.go and src/token_usage.go
  now, events, sessions, scan, scanned, live, pollErr, poller, due, child, cancelled,
  stopper, lastGood,
  \* src/sampler.go: coalesceSend
  holder, pc, data, chan, taken,
  \* src/update.go: isVersionNewer
  newest, installed,
  \* src/static/app.js
  host, generation, visible, paused, stream, timer, fallback, failures, reconnects, silent,
  requests, inFlight, painted, aged, threw,
  \* src/static/app.js, src/control_linux.go and the device lane
  muted, presses, toggles, read, reported, arriving, reading, label, sync, pending, offers,
  disabled, visit, slips

cameraVars == vars
checkerVars == <<hardOff, agentUp, file, settings, switching, enabled, loop, got, offered,
                 released, applying, appliers, helpers, called>>
codexVars == <<now, events, sessions, scan, scanned, live, pollErr, poller, due, child,
               cancelled, stopper, lastGood>>
sendVars == <<holder, pc, data, chan, taken>>
versionVars == <<newest, installed>>
pageVars == <<host, generation, visible, paused, stream, timer, fallback, failures,
              reconnects, silent, requests, inFlight, painted, aged, threw>>
micVars == <<muted, presses, toggles, read, reported, arriving, reading, label, sync,
             pending, offers, disabled, visit, slips>>
updateVars == <<checkerVars, versionVars>>
viewVars == <<sendVars, pageVars, micVars>>
hostVars == <<part, cameraVars, updateVars, codexVars, viewVars>>

Loops == {"fast", "slow", "device"}

\* Three cameras, two of which share a port.
PortOf == [c \in Cameras |-> IF c = 3 THEN 2 ELSE 1]

\* "9", "10", "1a" and "rc", which as strings are in the order "10", "1a", "9", "rc".
Names == {"9", "10", "1a", "rc"}
NotANumber == -1
ValueOf == [n \in Names |-> CASE n = "9" -> 9 [] n = "10" -> 10 [] OTHER -> NotANumber]
PlaceOf == [n \in Names |-> CASE n = "10" -> 1 [] n = "1a" -> 2 [] n = "9" -> 3 [] OTHER -> 4]
Releases ==
  [numbers : {<<1>>, <<1, 0, 1>>},
   suffix : {<<>>, <<"9">>, <<"10">>, <<"1a">>, <<"rc", "9">>, <<"rc", "10">>}]
  \cup [numbers : {<<NotANumber>>, <<1, 0, 1, 0>>}, suffix : {<<>>}]

Checker == INSTANCE UpdateControl WITH up <- agentUp, cached <- offered, apply <- appliers
Codex == INSTANCE CodexUsage WITH cached <- scanned
Send == INSTANCE CoalesceChan WITH mu <- holder
Page == INSTANCE Dashboard WITH shown <- painted
Button == INSTANCE MuteControl WITH
  MaxMishaps <- MaxSlips, requests <- toggles, sampled <- read, published <- reported,
  shown <- label, listed <- offers, generation <- visit, mishaps <- slips

Order == INSTANCE Versions WITH latest <- newest

ASSUME CodexAssumed == Codex!CodexAssumption
ASSUME PageAssumed == Page!DashboardAssumption
ASSUME ButtonAssumed == Button!MuteAssumption
ASSUME OrderAssumed == Order!VersionsAssumption /\ Tags # {}

-----------------------------------------------------------------------------
\* The parts that do not run start in one state.
FirstHost == CHOOSE h \in Hosts : TRUE
OneRelease == CHOOSE tag \in Tags : TRUE

HostInit ==
  /\ part \in {"camera", "checker", "codex", "send", "versions", "dashboard", "mute"}
  /\ Init /\ (part = "camera" \/ (connected = {} /\ on = {}))
  /\ Checker!Init /\ (part = "checker" \/ (hardOff /\ file = Missing))
  /\ Codex!Init /\ (part = "codex" \/ poller = "off")
  /\ Send!Init
  /\ Order!Init /\ (part = "versions" \/ (newest = OneRelease /\ installed = <<OneRelease>>))
  /\ Page!Init /\ (part = "dashboard" \/ (host = FirstHost /\ ~threw))
  /\ Button!Init /\ muted = {}

OthersKept ==
  /\ UNCHANGED part
  /\ part # "camera" => UNCHANGED cameraVars
  /\ part # "checker" => UNCHANGED checkerVars
  /\ part # "versions" => UNCHANGED versionVars
  /\ part # "codex" => UNCHANGED codexVars
  /\ part # "send" => UNCHANGED sendVars
  /\ part # "dashboard" => UNCHANGED pageVars
  /\ part # "mute" => UNCHANGED micVars

HostNext ==
  \/ part = "camera" /\ Next /\ OthersKept
  \/ part = "checker" /\ Checker!Next /\ OthersKept
  \/ part = "versions" /\ Order!Next /\ OthersKept
  \/ part = "codex" /\ Codex!Next /\ OthersKept
  \/ part = "send" /\ Send!Next /\ OthersKept
  \/ part = "dashboard" /\ Page!Next /\ OthersKept
  \/ part = "mute" /\ Button!Next /\ OthersKept

\* What the part that runs may change.
moving ==
  CASE part = "camera" -> cameraVars
    [] part = "checker" -> checkerVars
    [] part = "versions" -> versionVars
    [] part = "codex" -> codexVars
    [] part = "send" -> sendVars
    [] part = "dashboard" -> pageVars
    [] part = "mute" -> micVars

\* The fairness of the module whose part runs.  The part stays the same, so one
\* condition speaks for an action of each part.
Fair1 ==
  /\ \/ part = "camera" /\ ApplyStep
     \/ part = "checker" /\ Checker!LoopStep
     \/ part = "codex" /\ Codex!StopStep
     \/ part = "send" /\ Send!Step("fast")
     \/ part = "dashboard" /\ Page!Silence
     \/ part = "mute" /\ Button!EndsSoon
  /\ UNCHANGED part
Fair2 ==
  /\ \/ part = "camera" /\ Publish
     \/ part = "send" /\ Send!Step("slow")
     \/ part = "dashboard" /\ Page!ReviveStreamIfSilent
     \/ part = "mute" /\ Button!LaneStep
  /\ UNCHANGED part
Fair3 ==
  /\ \/ part = "camera" /\ Restart
     \/ part = "send" /\ Send!Step("device")
     \/ part = "dashboard" /\ Page!Poll
     \/ part = "mute" /\ \E v \in Viewers : Button!Receive(v)
  /\ UNCHANGED part
Fair4 == part = "dashboard" /\ Page!Responded /\ UNCHANGED part
FairStrongly ==
  /\ \/ part = "camera" /\ Press
     \/ part = "checker" /\ Checker!LoopAnswered
  /\ UNCHANGED part

HostSpec ==
  /\ HostInit /\ [][HostNext]_hostVars
  /\ WF_moving(Fair1) /\ WF_moving(Fair2) /\ WF_moving(Fair3) /\ WF_moving(Fair4)
  /\ SF_moving(FairStrongly)

-----------------------------------------------------------------------------
(* The properties of the camera switch are those of DeviceManager, read     *)
(* here by their names; the others are those of the modules.                *)

\* The settings in memory are the settings on disk, two dashboards that update at
\* once do not start two helpers, and a failed attempt does not block the next one
\* (settings.go, update.go).
UpdatesSound == Checker!SettingsAreSaved /\ Checker!OneHelper /\ Checker!SlotNotLeaked

\* Updates only go forward: the comparison has no cycles and is that of semantic
\* versioning (update.go).
VersionsOrdered ==
  part = "versions" => Order!TypeOK /\ Order!NeverBackwards /\ Order!PrecedenceKept

\* A checker that stays enabled notices a release (update.go).
ReleaseNoticed == Checker!ReleaseNoticed

\* A broken sampler and a broken poll age the Codex page to stale, whichever of
\* the two is on show (token_usage.go).
BrokenAgesToStale == part = "codex" => Codex!TypeOK /\ Codex!BrokenAgesToStale

\* Nobody is held up: Stop returns, with no CLI process left behind (codex_quota.go),
\* and coalesceSend returns to its sampling loop although the subscriber may never
\* read (sampler.go).
HeldUp ==
  \/ part = "codex" /\ Codex!Stopping
  \/ part = "send" /\ Send!Sending
CallersReturn == (HeldUp ~> ~HeldUp) /\ [][Codex!NoChildLeft']_codexVars

\* coalesceSend is a one-place mailbox in which the newest snapshot wins (sampler.go).
MailboxSpec == Send!MailboxSpec

\* The dashboard shows no host's readings under another's name, has one source for
\* them while it is looked at, and counts its requests right; its microphone button
\* shows nothing sampled before a toggle as what came of it (app.js).
DashboardHonest ==
  /\ part = "dashboard" =>
       Page!TypeOK /\ Page!NoForeignReading /\ Page!FlagHonest /\ Page!OneSource
  /\ part = "mute" =>
       /\ Button!TypeOK /\ Button!ShownIsReported /\ Button!ToggleNotPaintedOver
       /\ Button!OneToggleAtATime

\* What is looked at does not stay wrong: a view stays on an old reading for ever
\* only if a body never ends, an EventSource could not be made, or requests fail or
\* streams break off before a frame again and again, and the microphone button ends
\* up usable and on the state of the microphones, whatever failed, was lost or was
\* changed elsewhere (app.js, control_linux.go).
Outdated ==
  \/ part = "dashboard" /\ Page!Overdue
  \/ part = "mute" /\ Button!Unsettled
ViewRefreshed ==
  <>[]Outdated =>
    \/ <>[](part = "dashboard" /\ Page!Hanging)
    \/ <>[](part = "dashboard" /\ threw)
    \/ []<><<part = "dashboard" /\ Page!Refused>>_pageVars
    \/ []<><<part = "dashboard" /\ Page!BreaksOff>>_pageVars
=============================================================================

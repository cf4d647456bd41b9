--------------------------- MODULE DeviceManager ---------------------------
(***************************************************************************)
(* The camera switch of device_activity.go: Apply turns the supported      *)
(* cameras off or, while its journal names cameras it turned off, back on; *)
(* the journal is saved before a camera is touched and survives a crash;   *)
(* sample reads the same devices for the dashboard.                        *)
(*                                                                         *)
(* A camera is its identity; Port gives the ID it has while connected, so  *)
(* two cameras of one port are never connected together.  The agent may    *)
(* die between any two steps.  Saving the journal (temporary file, fsync,  *)
(* rename) happens or does not.  A device operation that reports a failure *)
(* may have had its effect.                                                *)
(***************************************************************************)
EXTENDS Naturals, FiniteSets

CONSTANTS
  Cameras,     \* the cameras that are ever plugged in
  Ports,       \* the device IDs
  Port,        \* the ID of each camera
  NoCamera,    \* no camera is being worked on
  MaxMishaps   \* bound on failures, crashes and changes from outside

ASSUME PortAssumption == Port \in [Cameras -> Ports]
ASSUME NoCameraAssumption == NoCamera \notin Cameras
ASSUME MishapsAssumption == MaxMishaps \in Nat

VARIABLES
  connected,   \* the cameras that are plugged in
  on,          \* the cameras that are enabled
  disk,        \* the journal file: the cameras recorded as turned off
  up,          \* whether the agent runs
  journal,     \* deviceManager.journal
  journalErr,  \* deviceManager.journalErr # nil
  mu,          \* who holds deviceManager.mu: "free", "apply" or "sample"
  step,        \* where Apply is
  listed,      \* the cameras Apply listed when it began
  todo,        \* the cameras Apply has yet to work on
  cur,         \* the camera Apply is working on
  failed,      \* Apply noted a failure
  observed,    \* what sample is about to publish
  latest,      \* deviceManager.latest.CameraControl
  refresh,     \* deviceManager.refresh
  ours,        \* history: turned off by the agent and not enabled since
  foreign,     \* history: found off and unrecorded by Apply, not enabled
               \* from outside since
  mishaps

world == <<connected, on>>
ram == <<up, journal, journalErr>>
apply == <<step, listed, todo, cur, failed>>
shown == <<observed, latest, refresh>>
ghosts == <<ours, foreign>>
vars == <<world, disk, ram, mu, apply, shown, ghosts, mishaps>>

Controls == [pending : BOOLEAN, available : BOOLEAN,
             state : {"unavailable", "enabled", "disabled", "mixed"}]
WarmingUp == [pending |-> FALSE, available |-> FALSE, state |-> "unavailable"]

TypeOK ==
  /\ connected \subseteq Cameras
  /\ on \subseteq Cameras
  /\ disk \subseteq Cameras
  /\ up \in BOOLEAN
  /\ journal \subseteq Cameras
  /\ journalErr \in BOOLEAN
  /\ mu \in {"free", "apply", "sample"}
  /\ step \in {"idle", "prepare", "restore", "erase", "record", "off", "report"}
  /\ listed \subseteq Cameras
  /\ todo \subseteq Cameras
  /\ cur \in Cameras \cup {NoCamera}
  /\ failed \in BOOLEAN
  /\ observed \in Controls
  /\ latest \in Controls
  /\ refresh \in BOOLEAN
  /\ ours \subseteq Cameras
  /\ foreign \subseteq Cameras
  /\ mishaps \in 0 .. MaxMishaps

OnePerPort(S) == \A c, d \in S : Port[c] = Port[d] => c = d

Init ==
  /\ connected \in {S \in SUBSET Cameras : OnePerPort(S)}
  /\ on \in SUBSET Cameras
  /\ disk = {}
  /\ up = TRUE
  /\ journal = {}
  /\ journalErr = FALSE
  /\ mu = "free"
  /\ step = "idle"
  /\ listed = {} /\ todo = {} /\ cur = NoCamera /\ failed = FALSE
  /\ observed = WarmingUp /\ latest = WarmingUp /\ refresh = FALSE
  /\ ours = {} /\ foreign = {}
  /\ mishaps = 0

Mishap == mishaps < MaxMishaps /\ mishaps' = mishaps + 1
AllWell == UNCHANGED mishaps

-----------------------------------------------------------------------------
\* SetCamera: the camera is looked up again, switched and read back.
Switch(c, S) == IF S = "on" THEN on \cup {c} ELSE on \ {c}

SetCamera(c, S) ==
  /\ c \in connected
  /\ on' = Switch(c, S)
  /\ AllWell

SetCameraFails(c, S) ==
  \/ c \notin connected /\ AllWell /\ UNCHANGED on
  \/ c \in connected /\ Mishap /\ on' \in {on, Switch(c, S)}

\* saveJournal: memory follows the file only once the file is replaced.
SaveJournal(next) == disk' = next /\ journal' = next /\ AllWell
SaveJournalFails == UNCHANGED <<disk, journal>> /\ Mishap

\* What an observation of the cameras reports.
CameraState(err) ==
  LET here == connected
      lit == connected \cap on
      nothing == err \/ journalErr \/ (here = {} /\ journal = {})
  IN [pending |-> journal # {},
      available |-> ~nothing /\ (lit # {} \/ journal # {}),
      state |-> IF nothing THEN "unavailable"
                ELSE IF ~(journal \subseteq here) \/ (journal # {} /\ lit # {}) THEN "mixed"
                ELSE IF lit = {} THEN "disabled"
                ELSE IF lit = here THEN "enabled" ELSE "mixed"]

-----------------------------------------------------------------------------
\* Mutant of Press: cameras that are already off are worked on as well.
PressAll ==
  /\ up /\ ~journalErr
  /\ mu = "free"
  /\ mu' = "apply"
  /\ ~(connected = {} /\ journal = {})
  /\ listed' = connected
  /\ IF journal # {}
     THEN step' = "prepare" /\ todo' = journal
     ELSE step' = "record" /\ todo' = connected
  /\ failed' = FALSE
  /\ foreign' = foreign \cup (connected \ (on \cup journal))
  /\ AllWell
  /\ UNCHANGED <<world, disk, ram, cur, shown, ours>>

\* Apply takes the mutex and lists the cameras.  Outstanding records select
\* restore, an empty journal selects disable.
Press ==
  /\ up /\ ~journalErr
  /\ mu = "free"
  /\ mu' = "apply"
  /\ ~(connected = {} /\ journal = {})
  /\ listed' = connected
  /\ IF journal # {}
     THEN step' = "prepare" /\ todo' = journal
     ELSE step' = "record" /\ todo' = connected \cap on
  /\ failed' = FALSE
  /\ foreign' = foreign \cup (connected \ (on \cup journal))
  /\ AllWell
  /\ UNCHANGED <<world, disk, ram, cur, shown, ours>>

\* Apply returns at once when the listing fails.
PressFails ==
  /\ up /\ ~journalErr /\ mu = "free"
  /\ Mishap
  /\ UNCHANGED <<world, disk, ram, mu, apply, shown, ghosts>>

\* PrepareRestore: the Linux backend authorizes what it can of the recorded
\* cameras at once, the Windows backend has no such step.
Prepare ==
  /\ step = "prepare"
  /\ step' = "restore"
  /\ \E S \in SUBSET (journal \cap connected) :
       /\ on' = on \cup S
       /\ ours' = ours \ S
       /\ failed' \in {failed, S # journal \cap connected}
  /\ AllWell
  /\ UNCHANGED <<connected, disk, ram, mu, listed, todo, cur, shown, foreign>>

\* A recorded camera that was not listed keeps its record.
SkipAbsent ==
  /\ step = "restore"
  /\ \E c \in todo \ listed : todo' = todo \ {c}
  /\ failed' = TRUE
  /\ AllWell
  /\ UNCHANGED <<world, disk, ram, mu, step, listed, cur, shown, ghosts>>

\* Mutant of Enable: the record of a restored camera is not erased.
EnableKeepingRecord ==
  /\ step = "restore"
  /\ \E c \in todo \cap listed :
       /\ todo' = todo \ {c}
       /\ SetCamera(c, "on")
       /\ ours' = ours \ {c}
  /\ UNCHANGED <<connected, disk, ram, mu, step, listed, cur, failed, shown, foreign>>

Enable ==
  /\ step = "restore"
  /\ \E c \in todo \cap listed :
       /\ todo' = todo \ {c}
       /\ SetCamera(c, "on")
       /\ ours' = ours \ {c}
       /\ cur' = c
  /\ step' = "erase"
  /\ UNCHANGED <<connected, disk, ram, mu, listed, failed, shown, foreign>>

EnableFails ==
  /\ step = "restore"
  /\ \E c \in todo \cap listed :
       /\ todo' = todo \ {c}
       /\ SetCameraFails(c, "on")
       /\ ours' = ours \ on'
  /\ failed' = TRUE
  /\ UNCHANGED <<connected, disk, ram, mu, step, listed, cur, shown, foreign>>

Erase ==
  /\ step = "erase"
  /\ SaveJournal({c \in journal : Port[c] # Port[cur]})
  /\ step' = "restore"
  /\ cur' = NoCamera
  /\ UNCHANGED <<world, up, journalErr, mu, listed, todo, failed, shown, ghosts>>

EraseFails ==
  /\ step = "erase"
  /\ SaveJournalFails
  /\ step' = "report"
  /\ cur' = NoCamera
  /\ failed' = TRUE
  /\ UNCHANGED <<world, up, journalErr, mu, listed, todo, shown, ghosts>>

\* The disable branch records each listed camera before it turns it off.
Record ==
  /\ step = "record"
  /\ \E c \in todo :
       /\ todo' = todo \ {c}
       /\ SaveJournal(journal \cup {c})
       /\ cur' = c
  /\ step' = "off"
  /\ UNCHANGED <<world, up, journalErr, mu, listed, failed, shown, ghosts>>

RecordFails ==
  /\ step = "record"
  /\ todo # {}
  /\ SaveJournalFails
  /\ step' = "report"
  /\ failed' = TRUE
  /\ UNCHANGED <<world, up, journalErr, mu, listed, todo, cur, shown, ghosts>>

Disable ==
  /\ step = "off"
  /\ SetCamera(cur, "off")
  /\ ours' = ours \cup (on \ on')
  /\ step' = "record"
  /\ cur' = NoCamera
  /\ UNCHANGED <<connected, disk, ram, mu, listed, todo, failed, shown, foreign>>

DisableFails ==
  /\ step = "off"
  /\ SetCameraFails(cur, "off")
  /\ ours' = ours \cup (on \ on')
  /\ step' = "record"
  /\ cur' = NoCamera
  /\ failed' = TRUE
  /\ UNCHANGED <<connected, disk, ram, mu, listed, todo, shown, foreign>>

\* Mutant of Report: the mutex is released without publishing.
ReportNothing ==
  /\ \/ step \in {"record", "restore"} /\ todo = {}
     \/ step = "report"
  /\ refresh' = TRUE
  /\ step' = "idle" /\ mu' = "free"
  /\ listed' = {} /\ todo' = {} /\ failed' = FALSE
  /\ AllWell
  /\ UNCHANGED <<world, disk, ram, cur, observed, latest, ghosts>>

\* Apply lists the cameras again, publishes what it finds, asks for a fresh
\* sample and releases the mutex.
Report ==
  /\ \/ step \in {"record", "restore"} /\ todo = {}
     \/ step = "report"
  /\ \E err \in BOOLEAN :
       /\ IF err THEN Mishap ELSE AllWell
       /\ latest' = IF failed \/ err THEN [CameraState(err) EXCEPT !.state = "mixed"]
                    ELSE CameraState(err)
  /\ refresh' = TRUE
  /\ step' = "idle" /\ mu' = "free"
  /\ listed' = {} /\ todo' = {} /\ failed' = FALSE
  /\ UNCHANGED <<world, disk, ram, cur, observed, ghosts>>

-----------------------------------------------------------------------------
\* sample holds the mutex from the observation to its publication.  Without
\* a refresh request it may return the cached set instead, which changes
\* nothing.
Sample ==
  /\ up
  /\ mu = "free"
  /\ mu' = "sample"
  /\ \E err \in BOOLEAN :
       /\ IF err THEN Mishap ELSE AllWell
       /\ observed' = CameraState(err)
  /\ refresh' = FALSE
  /\ UNCHANGED <<world, disk, ram, apply, latest, ghosts>>

Publish ==
  /\ mu = "sample"
  /\ mu' = "free"
  /\ latest' = observed
  /\ observed' = WarmingUp
  /\ AllWell
  /\ UNCHANGED <<world, disk, ram, apply, refresh, ghosts>>

-----------------------------------------------------------------------------
Crash ==
  /\ up
  /\ Mishap
  /\ up' = FALSE
  /\ journal' = {} /\ journalErr' = FALSE
  /\ mu' = "free" /\ step' = "idle"
  /\ listed' = {} /\ todo' = {} /\ cur' = NoCamera /\ failed' = FALSE
  /\ observed' = WarmingUp /\ latest' = WarmingUp /\ refresh' = FALSE
  /\ UNCHANGED <<world, disk, ghosts>>

\* newDeviceManager: the journal is read back.
Restart ==
  /\ ~up
  /\ up' = TRUE
  /\ journal' = disk /\ journalErr' = FALSE
  /\ AllWell
  /\ UNCHANGED <<world, disk, mu, apply, shown, ghosts>>

\* Mutant of RestartUnreadable: an unreadable journal counts as an empty one.
RestartEmpty ==
  /\ ~up
  /\ Mishap
  /\ up' = TRUE
  /\ journal' = {} /\ journalErr' = FALSE
  /\ UNCHANGED <<world, disk, mu, apply, shown, ghosts>>

\* A journal that cannot be read switches the control off.
RestartUnreadable ==
  /\ ~up
  /\ Mishap
  /\ up' = TRUE
  /\ journal' = {} /\ journalErr' = TRUE
  /\ UNCHANGED <<world, disk, mu, apply, shown, ghosts>>

\* The world outside.  A camera that is plugged in may come up enabled.
Unplug ==
  /\ Mishap
  /\ \E c \in connected : connected' = connected \ {c}
  /\ UNCHANGED <<on, disk, ram, mu, apply, shown, ghosts>>

Plug ==
  /\ Mishap
  /\ \E c \in Cameras \ connected :
       /\ OnePerPort(connected \cup {c})
       /\ connected' = connected \cup {c}
       /\ on' \in {on, on \cup {c}}
  /\ ours' = ours \ on'
  /\ foreign' = foreign \ on'
  /\ UNCHANGED <<disk, ram, mu, apply, shown>>

SwitchedOutside ==
  /\ Mishap
  /\ \E c \in connected : on' \in {on \cup {c}, on \ {c}}
  /\ ours' = ours \ on'
  /\ foreign' = foreign \ (on' \ on)
  /\ UNCHANGED <<connected, disk, ram, mu, apply, shown>>

-----------------------------------------------------------------------------
ApplyStep ==
  \/ Prepare \/ SkipAbsent \/ Enable \/ EnableFails \/ Erase \/ EraseFails
  \/ Record \/ RecordFails \/ Disable \/ DisableFails \/ Report

Next ==
  \/ Press \/ PressFails
  \/ ApplyStep
  \/ Sample \/ Publish
  \/ Crash \/ Restart \/ RestartUnreadable
  \/ Unplug \/ Plug \/ SwitchedOutside

Spec == Init /\ [][Next]_vars

\* Apply and sample run to their end, a dead agent is started again by the
\* service manager, and somebody keeps pressing the button.  Go's mutex
\* starves no waiter, so Press gets it although sample takes it again and
\* again.
FairSpec ==
  /\ Spec
  /\ WF_vars(ApplyStep)
  /\ WF_vars(Publish)
  /\ WF_vars(Restart)
  /\ SF_vars(Press)

-----------------------------------------------------------------------------
\* A camera that the agent turned off and nobody turned on since is in the
\* journal file, whatever failed or crashed in between: it can always be
\* restored (saveJournal before SetCamera, erase only after SetCamera).
DisabledIsRecorded == ours \subseteq disk

\* A camera that was off before the agent touched it, and that it did not
\* record, is never turned on by the agent.
ForeignStaysOff == foreign \cap on = {}

\* While the agent runs on a readable journal, memory and file agree.
MemoryMatchesDisk == up /\ ~journalErr => journal = disk

\* What the dashboard reads while nobody is at work is honest about the
\* outstanding restore: the pending flag is current, the control is not
\* shown as enabled while records are outstanding, and a reading that can be
\* trusted leaves the restore available.
PublishedIsCurrent ==
  mu = "free" /\ latest # WarmingUp =>
    /\ latest.pending = (journal # {})
    /\ latest.state = "enabled" => journal = {}
    /\ latest.state = "disabled" /\ journal # {} => latest.available

\* If the recorded cameras are eventually there to stay, the presses that
\* keep coming restore every one of them.
Restorable == up /\ ~journalErr /\ disk \subseteq connected
RecoveryCompletes == <>[]Restorable => []<>(disk = {})
=============================================================================

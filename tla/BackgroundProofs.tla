-------------------------- MODULE BackgroundProofs --------------------------
(***************************************************************************)
(* Why what goes on behind the readings stays right: the camera switch,    *)
(* the settings and the update checker, the delivery to a stream, the      *)
(* order of versions, the Codex page, the dashboard and its microphone     *)
(* button, each with its inductive invariant, for any number of cameras,   *)
(* requests, lanes, hosts, microphones and viewers and for every value of  *)
(* the delays and bounds that MCBackground leaves open.  The theorems are  *)
(* at the end.                                                             *)
(***************************************************************************)
EXTENDS MCBackground, TLAPS, FiniteSetTheorems

-----------------------------------------------------------------------------
(* The camera switch: DeviceManager, src/device_activity.go.                *)

\* Where Apply is tells what it may rely on: it works on a readable journal;
\* while it disables, everything recorded was in its listing, which holds at
\* most one camera per port, and nothing foreign is still to be recorded;
\* while it restores, it only works on records; and the record it is about
\* to erase is that of a camera the agent no longer keeps off.
ApplyInv ==
  /\ step # "idle" => up /\ ~journalErr
  /\ step \in {"record", "off"} =>
       journal \subseteq listed /\ todo \subseteq listed /\ todo \cap foreign = {}
  /\ step = "off" => cur \in journal
  /\ step \in {"prepare", "restore", "erase"} => todo \subseteq journal
  /\ step = "erase" => cur \in journal /\ cur \notin todo /\ cur \notin ours

\* One journal holds at most one camera per port, so erasing by port erases
\* one record; and what is recorded is not foreign.
RecordInv ==
  /\ OnePerPort(connected) /\ OnePerPort(listed) /\ OnePerPort(disk)
  /\ foreign \cap disk = {}

CameraInv ==
  /\ TypeOK
  /\ MemoryMatchesDisk
  /\ DisabledIsRecorded
  /\ ForeignStaysOff
  /\ RecordInv
  /\ ApplyInv

\* What an observation reports is a control state.
LEMMA ControlStates ==
  ASSUME TypeOK, NEW err \in BOOLEAN
  PROVE  CameraState(err) \in Controls
BY DEF CameraState, Controls

\* Failing the report only changes the state shown.
LEMMA MixedState ==
  ASSUME NEW s \in Controls
  PROVE  [s EXCEPT !.state = "mixed"] \in Controls
BY DEF Controls

LEMMA WarmingControl == WarmingUp \in Controls
BY DEF WarmingUp, Controls

\* The invariant holds initially.
LEMMA CameraInit == Init => CameraInv
<1> SUFFICES ASSUME Init PROVE CameraInv
  OBVIOUS
<1> USE PortAssumption, NoCameraAssumption, MishapsAssumption
<1>1. OnePerPort(connected) /\ OnePerPort({})
  BY DEF Init, OnePerPort
<1>2. 0 \in 0 .. MaxMishaps
  OBVIOUS
<1>3. TypeOK
  BY <1>2, WarmingControl DEF Init, TypeOK
<1>4. QED
  BY <1>1, <1>3
  DEF Init, CameraInv, MemoryMatchesDisk, DisabledIsRecorded, ForeignStaysOff, RecordInv,
      ApplyInv

\* Every step keeps it.
LEMMA CameraStep == CameraInv /\ [Next]_vars => CameraInv'
<1> SUFFICES ASSUME CameraInv, [Next]_vars PROVE CameraInv'
  OBVIOUS
<1> USE PortAssumption, NoCameraAssumption, MishapsAssumption
<1> USE DEF CameraInv, TypeOK, MemoryMatchesDisk, DisabledIsRecorded, ForeignStaysOff,
            RecordInv, ApplyInv, OnePerPort, world, ram, apply, shown, ghosts,
            Mishap, AllWell
<1>1. CASE Press
  BY <1>1 DEF Press
<1>2. CASE PressFails
  BY <1>2 DEF PressFails
<1>3. CASE Prepare
  BY <1>3 DEF Prepare
<1>4. CASE SkipAbsent
  BY <1>4 DEF SkipAbsent
<1>5. CASE Enable
  BY <1>5 DEF Enable, SetCamera, Switch
<1>6. CASE EnableFails
  BY <1>6 DEF EnableFails, SetCameraFails, Switch
<1>7. CASE Erase
  BY <1>7 DEF Erase, SaveJournal
<1>8. CASE EraseFails
  BY <1>8 DEF EraseFails, SaveJournalFails
<1>9. CASE Record
  BY <1>9 DEF Record, SaveJournal
<1>10. CASE RecordFails
  BY <1>10 DEF RecordFails, SaveJournalFails
<1>11. CASE Disable
  BY <1>11 DEF Disable, SetCamera, Switch
<1>12. CASE DisableFails
  BY <1>12 DEF DisableFails, SetCameraFails, Switch
<1>13. CASE Report
  <2>1. latest' \in Controls
    BY <1>13, ControlStates, MixedState DEF Report
  <2>2. mishaps' \in 0 .. MaxMishaps
    BY <1>13 DEF Report
  <2>3. QED
    BY <1>13, <2>1, <2>2 DEF Report
<1>14. CASE Sample
  <2>1. observed' \in Controls
    BY <1>14, ControlStates, MixedState DEF Sample
  <2>2. mishaps' \in 0 .. MaxMishaps
    BY <1>14 DEF Sample
  <2>3. QED
    BY <1>14, <2>1, <2>2 DEF Sample
<1>15. CASE Publish
  BY <1>15, WarmingControl DEF Publish
<1>16. CASE Crash
  <2>1. OnePerPort({})
    BY DEF OnePerPort
  <2>2. TypeOK'
    <3>1. mishaps' \in 0 .. MaxMishaps
      BY <1>16 DEF Crash
    <3>2. observed' \in Controls /\ latest' \in Controls
      BY <1>16, WarmingControl DEF Crash
    <3>3. QED
      BY <1>16, <3>1, <3>2 DEF Crash
  <2>3. MemoryMatchesDisk' /\ DisabledIsRecorded' /\ ForeignStaysOff' /\ ApplyInv'
    BY <1>16 DEF Crash
  <2>4. RecordInv'
    BY <1>16, <2>1 DEF Crash
  <2>5. QED
    BY <2>2, <2>3, <2>4
<1>17. CASE Restart
  BY <1>17 DEF Restart
<1>18. CASE RestartUnreadable
  BY <1>18 DEF RestartUnreadable
<1>19. CASE Unplug
  BY <1>19 DEF Unplug
<1>20. CASE Plug
  BY <1>20 DEF Plug
<1>21. CASE SwitchedOutside
  BY <1>21 DEF SwitchedOutside
<1>22. CASE UNCHANGED vars
  BY <1>22 DEF vars
<1>23. QED
  BY <1>1, <1>2, <1>3, <1>4, <1>5, <1>6, <1>7, <1>8, <1>9, <1>10, <1>11, <1>12, <1>13,
     <1>14, <1>15, <1>16, <1>17, <1>18, <1>19, <1>20, <1>21, <1>22
  DEF Next, ApplyStep

\* What is published agrees with the journal: the pending flag is right, records
\* are not shown as an enabled control, and can be restored from a readable state.
Coherent(c) ==
  /\ c.pending = (journal # {})
  /\ c.state = "enabled" => journal = {}
  /\ c.state = "disabled" /\ journal # {} => c.available

\* Only Apply changes the journal of an agent that runs, a dead one has published
\* nothing, and what sample observed stays true until it is published.
PublishInv ==
  /\ step # "idle" <=> mu = "apply"
  /\ ~up => latest = WarmingUp /\ mu = "free"
  /\ mu = "sample" => Coherent(observed)
  /\ PublishedIsCurrent

\* An observation agrees with the journal, also when a failure makes it mixed.
LEMMA ObservedCoherent ==
  ASSUME NEW err \in BOOLEAN
  PROVE  Coherent(CameraState(err)) /\ Coherent([CameraState(err) EXCEPT !.state = "mixed"])
BY DEF Coherent, CameraState

\* Every step of Apply but the last leaves it at work.
LEMMA AtWork ==
  ASSUME PublishInv, step # "idle", step' # "idle", UNCHANGED <<mu, up, latest>>
  PROVE  PublishInv'
BY DEF PublishInv, PublishedIsCurrent

\* What is published stays in agreement with the journal.
LEMMA NextPublished == PublishInv /\ [Next]_vars => PublishInv'
<1> SUFFICES ASSUME PublishInv, [Next]_vars PROVE PublishInv'
  OBVIOUS
<1>1. CASE Press
  BY <1>1 DEF Press, PublishInv, PublishedIsCurrent, ram, shown
<1>2. CASE PressFails
  BY <1>2 DEF PressFails, PublishInv, PublishedIsCurrent, Coherent, ram, apply, shown
<1>3. CASE ApplyStep /\ ~Report
  <2>1. step # "idle" /\ step' # "idle" /\ UNCHANGED <<mu, up, latest>>
    BY <1>3
    DEF ApplyStep, Prepare, SkipAbsent, Enable, EnableFails, Erase, EraseFails, Record,
        RecordFails, Disable, DisableFails, ram, shown
  <2>2. QED
    BY <2>1, AtWork
<1>4. CASE Report
  <2>1. Coherent(latest') /\ UNCHANGED <<journal, up>>
    BY <1>4, ObservedCoherent DEF Report, ram
  <2>2. step' = "idle" /\ mu' = "free" /\ up
    BY <1>4 DEF Report, PublishInv
  <2>3. QED
    BY <2>1, <2>2 DEF PublishInv, PublishedIsCurrent, Coherent
<1>5. CASE Sample
  <2>1. Coherent(observed') /\ UNCHANGED journal
    BY <1>5, ObservedCoherent DEF Sample, ram
  <2>2. QED
    BY <1>5, <2>1 DEF Sample, PublishInv, PublishedIsCurrent, Coherent, ram, apply
<1>6. CASE Publish
  BY <1>6 DEF Publish, PublishInv, PublishedIsCurrent, Coherent, ram, apply
<1>7. CASE Crash
  BY <1>7 DEF Crash, PublishInv, PublishedIsCurrent
<1>8. CASE Restart \/ RestartUnreadable
  BY <1>8 DEF Restart, RestartUnreadable, PublishInv, PublishedIsCurrent, apply, shown
<1>9. CASE Unplug \/ Plug \/ SwitchedOutside
  BY <1>9
  DEF Unplug, Plug, SwitchedOutside, PublishInv, PublishedIsCurrent, Coherent, ram, apply,
      shown
<1>10. CASE UNCHANGED vars
  BY <1>10 DEF vars, PublishInv, PublishedIsCurrent, Coherent, ram, apply, shown
<1>11. QED
  BY <1>1, <1>2, <1>3, <1>4, <1>5, <1>6, <1>7, <1>8, <1>9, <1>10 DEF Next

-----------------------------------------------------------------------------
(* The settings and the update checker: Checker, src/settings.go, src/update.go.*)

UnderWay(a) == appliers[a] \in {"fetch", "download", "spawn"}

\* The slot belongs to one attempt: the one under way, or the one that spawned
\* the helper.
SlotInv ==
  /\ \A a \in Appliers : UnderWay(a) => applying /\ helpers = 0
  /\ \A a, b \in Appliers : UnderWay(a) /\ UnderWay(b) => a = b
  /\ helpers > 0 => applying
  /\ \A a \in Appliers : appliers[a] # "idle" => agentUp

\* A process that is gone has nothing under way.
ProcessInv ==
  /\ ~agentUp => ~applying /\ helpers = 0 /\ loop = "none"
  /\ \A p \in Posters : switching[p] # None => agentUp

CheckerInv ==
  /\ Checker!TypeOK
  /\ Checker!SettingsAreSaved
  /\ Checker!OneHelper
  /\ Checker!SlotNotLeaked
  /\ SlotInv
  /\ ProcessInv

\* The defaults are settings.
LEMMA DefaultsAreSettings == Checker!Defaults \in Checker!Settings
BY DefaultAssumption DEF Checker!Defaults, Checker!Settings

\* A settings value is no mark, and no switch is one either.
LEMMA MarksAreNoSettings == Missing \notin Checker!Settings /\ Damaged \notin Checker!Settings
BY MarksAssumption DEF Checker!Settings

\* The invariant holds initially.
LEMMA CheckerInit == Checker!Init => CheckerInv
<1> SUFFICES ASSUME Checker!Init PROVE CheckerInv
  OBVIOUS
<1>1. Checker!TypeOK
  <2>1. agentUp \in BOOLEAN /\ enabled \in BOOLEAN /\ got \in BOOLEAN /\ offered \in BOOLEAN
        /\ released \in BOOLEAN /\ applying \in BOOLEAN /\ called \in BOOLEAN
    BY DEF Checker!Init
  <2>2. QED
    BY <2>1, DefaultsAreSettings DEF Checker!Init, Checker!TypeOK
<1>2. Checker!SettingsAreSaved /\ Checker!OneHelper /\ Checker!SlotNotLeaked /\ SlotInv
      /\ ProcessInv
  BY
  DEF Checker!Init, Checker!SettingsAreSaved, Checker!OneHelper, Checker!SlotNotLeaked,
      SlotInv, ProcessInv, UnderWay
<1>3. QED
  BY <1>1, <1>2 DEF CheckerInv

\* Every step keeps it.
LEMMA CheckerStep == CheckerInv /\ [Checker!Next]_(Checker!vars) => CheckerInv'
<1> SUFFICES ASSUME CheckerInv, [Checker!Next]_(Checker!vars) PROVE CheckerInv'
  OBVIOUS
<1> USE DEF CheckerInv, Checker!TypeOK, Checker!SettingsAreSaved, Checker!OneHelper,
Checker!SlotNotLeaked, SlotInv, ProcessInv,
        UnderWay, Checker!process, Checker!state, Checker!checker, Checker!updates, Checker!At
<1>1. CASE Checker!StartAgent
  BY <1>1, DefaultsAreSettings DEF Checker!StartAgent
<1>2. CASE Checker!AgentGone
  <2>1. agentUp' \in BOOLEAN /\ enabled' \in BOOLEAN /\ got' \in BOOLEAN /\ offered' \in BOOLEAN
        /\ released' \in BOOLEAN /\ applying' \in BOOLEAN /\ called' \in BOOLEAN
    BY <1>2 DEF Checker!Blank, Checker!AgentGone
  <2>2. Checker!TypeOK'
    BY <1>2, <2>1, DefaultsAreSettings DEF Checker!Blank, Checker!AgentGone
  <2>3. Checker!SettingsAreSaved' /\ Checker!OneHelper' /\ Checker!SlotNotLeaked' /\ SlotInv'
        /\ ProcessInv'
    BY <1>2 DEF Checker!Blank, Checker!AgentGone
  <2>4. QED
    BY <2>2, <2>3
<1>3. CASE \E p \in Posters : Checker!Post(p)
  BY <1>3 DEF Checker!Post, Checker!Settings
<1>4. CASE \E p \in Posters : Checker!SetEnabled(p)
  BY <1>4, MarksAssumption DEF Checker!SetEnabled
<1>5. CASE Checker!LoopStep
  <2>1. UNCHANGED <<Checker!process, Checker!state, released, Checker!updates>>
        /\ loop' \in {"none", "wait", "fetch", "store"} /\ loop # "none"
    BY <1>5
    DEF Checker!LoopStep, Checker!LoopOff, Checker!LoopAsks, Checker!LoopAnswered,
        Checker!LoopFails, Checker!LoopStores
  <2>2. enabled' \in BOOLEAN /\ got' \in BOOLEAN /\ offered' \in BOOLEAN /\ called' \in BOOLEAN
    BY <1>5
    DEF Checker!LoopStep, Checker!LoopOff, Checker!LoopAsks, Checker!LoopAnswered,
        Checker!LoopFails, Checker!LoopStores
  <2>3. hardOff' \in BOOLEAN /\ agentUp' \in BOOLEAN /\ released' \in BOOLEAN
        /\ applying' \in BOOLEAN
    BY <2>1
  <2>4. Checker!TypeOK'
    BY <2>1, <2>2, <2>3
  <2>5. Checker!SettingsAreSaved' /\ Checker!OneHelper' /\ Checker!SlotNotLeaked' /\ SlotInv'
        /\ ProcessInv'
    BY <2>1
  <2>6. QED
    BY <2>4, <2>5
<1>6. CASE \E a \in Appliers : Checker!ApplyEnters(a)
  BY <1>6 DEF Checker!ApplyEnters
<1>7. CASE \E a \in Appliers : Checker!ApplyClaims(a)
  BY <1>7 DEF Checker!ApplyClaims
<1>8. CASE \E a \in Appliers : Checker!ApplyRefused(a)
  BY <1>8 DEF Checker!ApplyRefused
<1>9. CASE \E a \in Appliers : Checker!ApplyFinds(a)
  BY <1>9 DEF Checker!ApplyFinds
<1>10. CASE \E a \in Appliers : Checker!ApplyVerifies(a)
  BY <1>10 DEF Checker!ApplyVerifies
<1>11. CASE \E a \in Appliers : Checker!ApplyFails(a)
  <2>1. PICK a \in Appliers : Checker!ApplyFails(a)
    BY <1>11
  <2>2. UnderWay(a) /\ ~UnderWay(a)' /\ applying /\ helpers = 0 /\ agentUp
    BY <2>1 DEF Checker!ApplyFails
  <2>3. \A b \in Appliers \ {a} : appliers'[b] = appliers[b] /\ ~UnderWay(b)
    BY <2>1, <2>2 DEF Checker!ApplyFails
  <2>4. Checker!TypeOK'
    BY <2>1, <2>2 DEF Checker!ApplyFails
  <2>5. Checker!SettingsAreSaved' /\ ProcessInv'
    BY <2>1, <2>2 DEF Checker!ApplyFails
  <2>6. SlotInv' /\ Checker!OneHelper'
    BY <2>1, <2>2, <2>3 DEF Checker!ApplyFails
  <2>7. Checker!SlotNotLeaked'
    BY <2>1, <2>2 DEF Checker!ApplyFails
  <2>8. QED
    BY <2>4, <2>5, <2>6, <2>7
<1>12. CASE \E a \in Appliers : Checker!ApplySpawns(a)
  <2>1. PICK a \in Appliers : Checker!ApplySpawns(a)
    BY <1>12
  <2>2. UnderWay(a) /\ ~UnderWay(a)' /\ applying /\ helpers = 0 /\ agentUp
    BY <2>1 DEF Checker!ApplySpawns
  <2>3. \A b \in Appliers \ {a} : appliers'[b] = appliers[b] /\ ~UnderWay(b)
    BY <2>1, <2>2 DEF Checker!ApplySpawns
  <2>4. Checker!TypeOK'
    <3>1. helpers' = 1 /\ offered' = FALSE /\ appliers' = [appliers EXCEPT ![a] = "idle"]
      BY <2>1, <2>2 DEF Checker!ApplySpawns
    <3>2. hardOff' \in BOOLEAN /\ agentUp' \in BOOLEAN /\ enabled' \in BOOLEAN
          /\ got' \in BOOLEAN
          /\ released' \in BOOLEAN /\ applying' \in BOOLEAN /\ called' \in BOOLEAN
      BY <2>1 DEF Checker!ApplySpawns
    <3>3. UNCHANGED <<file, settings, switching, loop>>
      BY <2>1 DEF Checker!ApplySpawns
    <3>4. QED
      BY <3>1, <3>2, <3>3
  <2>5. Checker!SettingsAreSaved' /\ ProcessInv'
    BY <2>1, <2>2 DEF Checker!ApplySpawns
  <2>6. SlotInv' /\ Checker!OneHelper'
    BY <2>1, <2>2, <2>3 DEF Checker!ApplySpawns
  <2>7. Checker!SlotNotLeaked'
    BY <2>1, <2>2 DEF Checker!ApplySpawns
  <2>8. QED
    BY <2>4, <2>5, <2>6, <2>7
<1>13. CASE Checker!Publish
  BY <1>13 DEF Checker!Publish
<1>14. CASE UNCHANGED Checker!vars
  BY <1>14 DEF Checker!vars
<1>15. QED
  BY <1>1, <1>2, <1>3, <1>4, <1>5, <1>6, <1>7, <1>8, <1>9, <1>10, <1>11, <1>12, <1>13, <1>14
  DEF Checker!Next

-----------------------------------------------------------------------------
(* The delivery to a stream: Send, src/sampler.go.                          *)

LEMMA SendInit == Send!Init => Send!IInv
  BY EmptyAssumption, NoOneAssumption
  DEF Send!Init, Send!IInv, Send!TypeOK, Send!Steps, Send!OnlyHolderInside,
      Send!HolderHasData, Send!DrainedStaysEmpty

LEMMA SendStep == Send!IInv /\ [Send!Next]_(Send!vars) => Send!IInv'
<1> SUFFICES ASSUME Send!IInv, [Send!Next]_(Send!vars) PROVE Send!IInv'
  OBVIOUS
<1> USE EmptyAssumption, NoOneAssumption
<1> USE DEF Send!IInv, Send!TypeOK, Send!Steps, Send!OnlyHolderInside, Send!HolderHasData,
Send!DrainedStaysEmpty
<1>1. ASSUME NEW s \in Senders, NEW m \in Msg, Send!Lock(s, m) PROVE Send!IInv'
  BY <1>1 DEF Send!Lock
<1>2. ASSUME NEW s \in Senders, Send!TrySend(s) PROVE Send!IInv'
  BY <1>2 DEF Send!TrySend, Send!Leave
<1>3. ASSUME NEW s \in Senders, Send!TryFull(s) PROVE Send!IInv'
  BY <1>3 DEF Send!TryFull
<1>4. ASSUME NEW s \in Senders, Send!Drop(s) PROVE Send!IInv'
  BY <1>4 DEF Send!Drop
<1>5. ASSUME NEW s \in Senders, Send!Resend(s) PROVE Send!IInv'
  BY <1>5 DEF Send!Resend, Send!Leave
<1>6. CASE Send!Receive
  BY <1>6 DEF Send!Receive
<1>7. CASE UNCHANGED Send!vars
  BY <1>7 DEF Send!vars
<1> QED
  BY <1>1, <1>2, <1>3, <1>4, <1>5, <1>6, <1>7 DEF Send!Next, Send!Step

LEMMA InitMailbox == Send!Init => Send!Mailbox!Init
  BY DEF Send!Init, Send!Mailbox!Init, Send!Slot

LEMMA StepMailbox ==
  Send!IInv /\ [Send!Next]_(Send!vars) => [Send!Mailbox!Next]_<<Send!Slot, taken>>
<1> SUFFICES ASSUME Send!IInv, [Send!Next]_(Send!vars)
             PROVE  [Send!Mailbox!Next]_<<Send!Slot, taken>>
  OBVIOUS
<1> USE EmptyAssumption, NoOneAssumption
<1> USE DEF Send!IInv, Send!TypeOK, Send!Steps, Send!OnlyHolderInside, Send!HolderHasData,
Send!DrainedStaysEmpty
\* Locking, and finding the channel full, change nothing a subscriber sees.
<1>1. ASSUME NEW s \in Senders, NEW m \in Msg, Send!Lock(s, m)
      PROVE UNCHANGED <<Send!Slot, taken>>
  BY <1>1 DEF Send!Lock, Send!Slot
<1>2. ASSUME NEW s \in Senders, Send!TryFull(s) PROVE UNCHANGED <<Send!Slot, taken>>
  BY <1>2 DEF Send!TryFull, Send!Slot
\* A delivery takes effect when the first send succeeds or else when the
\* older snapshot is dropped; the second send is then a stutter.
<1>3. ASSUME NEW s \in Senders, Send!TrySend(s) PROVE Send!Mailbox!Put(data[s])
  BY <1>3 DEF Send!TrySend, Send!Leave, Send!Mailbox!Put, Send!Slot
<1>4. ASSUME NEW s \in Senders, Send!Drop(s) PROVE Send!Mailbox!Put(data[s])
  BY <1>4 DEF Send!Drop, Send!Mailbox!Put, Send!Slot
<1>5. ASSUME NEW s \in Senders, Send!Resend(s) PROVE UNCHANGED <<Send!Slot, taken>>
  BY <1>5 DEF Send!Resend, Send!Leave, Send!Slot
<1>6. ASSUME Send!Receive PROVE Send!Mailbox!Take
  <2>1. Send!Slot = chan /\ Send!Slot' = chan'
    BY <1>6 DEF Send!Receive, Send!Slot
  <2> QED
    BY <1>6, <2>1 DEF Send!Receive, Send!Mailbox!Take
<1>7. CASE UNCHANGED Send!vars
  BY <1>7 DEF Send!vars, Send!Slot
<1>8. ASSUME NEW s \in Senders, Send!TrySend(s) \/ Send!Drop(s) PROVE data[s] \in Msg
  BY <1>8 DEF Send!TrySend, Send!Drop
<1> QED
  BY <1>1, <1>2, <1>3, <1>4, <1>5, <1>6, <1>7, <1>8
  DEF Send!Next, Send!Step, Send!Mailbox!Next

-----------------------------------------------------------------------------
(* The order of versions: Order, src/update.go.                             *)

OfOrder == INSTANCE VersionsProofs WITH latest <- newest

\* The definitions the proofs are about are those of the host.
LEMMA OrderSame ==
  /\ OfOrder!VersionsAssumption
  /\ OfOrder!Init <=> Order!Init
  /\ OfOrder!Next <=> Order!Next
<1>1. OfOrder!VersionsAssumption
  BY OrderAssumed, Zenon DEF OfOrder!VersionsAssumption, Order!VersionsAssumption
<1>2. OfOrder!Init <=> Order!Init
  BY Zenon DEF OfOrder!Init, Order!Init
<1>3. OfOrder!Next <=> Order!Next
  BY Zenon
  DEF OfOrder!current, OfOrder!WellFormed, OfOrder!Number, OfOrder!CmpInt,
      OfOrder!CompareIdentifiers, OfOrder!Differ, OfOrder!ComparePrerelease,
      OfOrder!CompareSuffix, OfOrder!Compare, OfOrder!IsVersionNewer, OfOrder!Publish,
      OfOrder!ApplyNow, OfOrder!Next, Order!current, Order!WellFormed, Order!Number,
      Order!CmpInt, Order!CompareIdentifiers, Order!Differ, Order!ComparePrerelease,
      Order!CompareSuffix, Order!Compare, Order!IsVersionNewer, Order!Publish,
      Order!ApplyNow, Order!Next
<1> QED
  BY <1>1, <1>2, <1>3

VersionInv == OfOrder!Inv

LEMMA VersionInit == Order!Init => VersionInv
BY OrderSame, OfOrder!InitInv DEF VersionInv

LEMMA VersionStep == VersionInv /\ [Order!Next]_versionVars => VersionInv'
<1> SUFFICES ASSUME VersionInv, [Order!Next]_versionVars PROVE VersionInv'
  OBVIOUS
<1>1. OfOrder!VersionsAssumption /\ OfOrder!Inv /\ [OfOrder!Next]_(OfOrder!vars)
  BY OrderSame DEF VersionInv, versionVars, OfOrder!vars
<1> QED
  BY <1>1, OfOrder!NextInv DEF VersionInv

LEMMA VersionSound == VersionInv => Order!TypeOK /\ Order!NeverBackwards /\ Order!PrecedenceKept
<1> SUFFICES ASSUME VersionInv
             PROVE  Order!TypeOK /\ Order!NeverBackwards /\ Order!PrecedenceKept
  OBVIOUS
<1>1. OfOrder!TypeOK /\ OfOrder!NeverBackwards /\ OfOrder!PrecedenceKept
  BY OrderSame, OfOrder!InvSound DEF VersionInv
<1> QED
  BY <1>1, Zenon
  DEF OfOrder!current, OfOrder!WellFormed, OfOrder!Number, OfOrder!CmpInt,
      OfOrder!CompareIdentifiers, OfOrder!Differ, OfOrder!ComparePrerelease,
      OfOrder!CompareSuffix, OfOrder!Compare, OfOrder!IsVersionNewer, OfOrder!TypeOK,
      OfOrder!NeverBackwards, OfOrder!Ranks, OfOrder!Below, OfOrder!Precedes,
      OfOrder!PrecedenceKept, Order!current, Order!WellFormed, Order!Number, Order!CmpInt,
      Order!CompareIdentifiers, Order!Differ, Order!ComparePrerelease, Order!CompareSuffix,
      Order!Compare, Order!IsVersionNewer, Order!TypeOK, Order!NeverBackwards, Order!Ranks,
      Order!Below, Order!Precedes, Order!PrecedenceKept

-----------------------------------------------------------------------------
(* The Codex page: Codex, src/token_usage.go, src/codex_quota.go.           *)

Scans == [busy : BOOLEAN, found : Codex!Found]
Stored == [fetched : Codex!Times, quota : Codex!Times, failed : BOOLEAN]

CodexTyped ==
  /\ now \in Codex!Times /\ events \in 0..MaxEvents /\ sessions \in Codex!Found
  /\ scan \in Scans /\ scanned \in Stored
  /\ live \in Codex!Times /\ pollErr \in BOOLEAN
  /\ poller \in Codex!InLookup \cup {"off", "starting", "asleep"}
  /\ due \in Nat /\ child \in BOOLEAN /\ cancelled \in BOOLEAN
  /\ stopper \in {"none", "waiting", "returned"}
  /\ lastGood \in Codex!Times

\* Neither source claims to be newer than the last success, which is no later than now.
GoodBefore ==
  /\ lastGood <= now
  /\ live <= lastGood
  /\ scanned.fetched <= lastGood

CodexInv == CodexTyped /\ GoodBefore /\ Codex!NoChildLeft

LEMMA CodexBounds ==
  /\ {Interval, Timeout, StaleAfter, MaxTime, MaxEvents} \subseteq Nat \ {0}
  /\ 0 \in Codex!Times /\ 1 \in Codex!Times
  /\ \A t \in Codex!Times : t \in Nat /\ t <= MaxTime
BY CodexAssumed DEF Codex!CodexAssumption, Codex!Times

LEMMA CodexInit == Codex!Init => CodexInv
<1> SUFFICES ASSUME Codex!Init PROVE CodexInv
  OBVIOUS
<1>1. sessions \in Codex!Found /\ scan \in Scans /\ scanned \in Stored /\ scanned.fetched = 0
  BY CodexBounds DEF Codex!Init, Codex!Found, Scans, Stored
<1>2. events \in 0..MaxEvents
  BY CodexBounds DEF Codex!Init
<1>3. CodexTyped
  BY <1>1, <1>2, CodexBounds DEF Codex!Init, CodexTyped
<1>4. GoodBefore
  BY <1>1 DEF Codex!Init, GoodBefore
<1>5. Codex!NoChildLeft
  BY DEF Codex!Init, Codex!NoChildLeft
<1> QED
  BY <1>3, <1>4, <1>5 DEF CodexInv

\* What a scan stores is no later than a success.
LEMMA ScanKeeps == ASSUME CodexInv, Codex!ScanStores PROVE CodexInv'
<1>1. scan.found \in Codex!Found /\ scan.found.newest \in Codex!Times
      /\ scan.found.quota \in Codex!Times
      /\ scan.found.readable \in BOOLEAN
  BY DEF CodexInv, CodexTyped, Scans, Codex!Found
<1>2. scanned.fetched \in Codex!Times /\ scanned.quota \in Codex!Times /\ now \in Codex!Times
  BY DEF CodexInv, CodexTyped, Stored
<1>3. scanned' \in Stored
  <2>1. CASE scan.found.readable
    <3>1. scanned' =
            [fetched |-> IF scan.found.newest # 0 \/ scan.found.quota # 0 THEN now ELSE 0,
             quota |-> scan.found.quota, failed |-> FALSE]
      BY <2>1 DEF Codex!ScanStores, Codex!Refreshed
    <3> QED
      BY <1>1, <1>2, <3>1, CodexBounds DEF Stored
  <2>2. CASE ~scan.found.readable
    <3>1. scanned' = [scanned EXCEPT !.failed = TRUE] /\ scanned \in Stored
      BY <2>2 DEF Codex!ScanStores, Codex!Refreshed, CodexInv, CodexTyped
    <3> QED
      BY <3>1 DEF Stored
  <2> QED
    BY <2>1, <2>2, <1>1
<1>4. \/ scanned'.fetched \in {now, 0} /\ lastGood' = now
      \/ scanned'.fetched = scanned.fetched /\ lastGood' = lastGood
  <2>1. CASE scan.found.readable
    BY <2>1 DEF Codex!ScanStores, Codex!Refreshed
  <2>2. CASE ~scan.found.readable
    <3>1. scanned' = [scanned EXCEPT !.failed = TRUE] /\ scanned \in Stored
          /\ lastGood' = lastGood
      BY <2>2 DEF Codex!ScanStores, Codex!Refreshed, CodexInv, CodexTyped
    <3> QED
      BY <3>1 DEF Stored
  <2> QED
    BY <2>1, <2>2, <1>1
<1>5. scan' \in Scans
  BY DEF Codex!ScanStores, CodexInv, CodexTyped, Scans
<1>6. CodexTyped'
  BY <1>2, <1>3, <1>4, <1>5 DEF Codex!ScanStores, CodexInv, CodexTyped, Codex!polling
<1>7. GoodBefore'
  <2>1. now' = now /\ live' = live
    BY DEF Codex!ScanStores, Codex!polling
  <2>2. now \in Nat /\ lastGood \in Nat /\ live \in Nat /\ scanned.fetched \in Nat
    BY <1>2, CodexBounds DEF CodexInv, CodexTyped
  <2>3. lastGood <= now /\ live <= lastGood /\ scanned.fetched <= lastGood
    BY DEF CodexInv, GoodBefore
  <2> QED
    BY <1>4, <2>1, <2>2, <2>3 DEF GoodBefore
<1>8. Codex!NoChildLeft'
  BY DEF Codex!ScanStores, CodexInv, Codex!NoChildLeft, Codex!polling, Codex!InLookup
<1> QED
  BY <1>6, <1>7, <1>8 DEF CodexInv

\* A poll that succeeded is a success.
LEMMA PollKeeps == ASSUME CodexInv, Codex!PollEnds PROVE CodexInv'
<1>1. UNCHANGED <<now, events, sessions, scan, scanned, stopper, cancelled>>
      /\ poller' = "asleep" /\ child' = FALSE /\ due' = now + Interval
  BY DEF Codex!PollEnds, Codex!Poller, Codex!scanning, Codex!Reaped
<1>2. \/ live' = now /\ lastGood' = now
      \/ live' = live /\ lastGood' = lastGood
  BY DEF Codex!PollEnds
<1>3. pollErr' \in BOOLEAN
  BY DEF Codex!PollEnds, CodexInv, CodexTyped
<1>4. due' \in Nat
  BY <1>1, CodexBounds DEF CodexInv, CodexTyped
<1>5. CodexTyped'
  BY <1>1, <1>2, <1>3, <1>4 DEF CodexInv, CodexTyped
<1>6. GoodBefore'
  <2>1. now \in Nat /\ lastGood \in Nat /\ live \in Nat
    BY CodexBounds DEF CodexInv, CodexTyped
  <2>2. scanned.fetched \in Nat
    BY CodexBounds DEF CodexInv, CodexTyped, Stored
  <2>3. lastGood <= now /\ live <= lastGood /\ scanned.fetched <= lastGood
    BY DEF CodexInv, GoodBefore
  <2>4. now' = now /\ scanned'.fetched = scanned.fetched
    BY <1>1
  <2> QED
    BY <1>2, <2>1, <2>2, <2>3, <2>4 DEF GoodBefore
<1> QED
  BY <1>1, <1>5, <1>6 DEF CodexInv, Codex!NoChildLeft

\* Every step keeps the invariant.
LEMMA CodexStep == CodexInv /\ [Codex!Next]_(Codex!vars) => CodexInv'
<1> SUFFICES ASSUME CodexInv, [Codex!Next]_(Codex!vars) PROVE CodexInv'
  OBVIOUS
<1>1. now \in Nat /\ lastGood \in Nat /\ live \in Nat /\ Timeout \in Nat
  BY CodexBounds DEF CodexInv, CodexTyped
\* Only a scan or a poll that ends changes what is shown.
<1>2. ASSUME UNCHANGED <<live, scanned, lastGood>>, now' \in Codex!Times, now <= now',
             events' \in 0..MaxEvents,
             sessions' \in Codex!Found, scan' \in Scans, pollErr' = pollErr,
             poller' \in Codex!InLookup \cup {"off", "starting", "asleep"}, due' \in Nat,
             child' \in BOOLEAN, cancelled' \in BOOLEAN,
             stopper' \in {"none", "waiting", "returned"}, Codex!NoChildLeft'
      PROVE  CodexInv'
  <2>1. CodexTyped'
    BY <1>2 DEF CodexInv, CodexTyped
  <2>2. GoodBefore'
    <3>1. now' \in Nat
      BY <1>2, CodexBounds
    <3> QED
      BY <1>1, <1>2, <3>1 DEF CodexInv, GoodBefore
  <2> QED
    BY <1>2, <2>1, <2>2 DEF CodexInv
<1>3. CASE Codex!Tick
  <2>1. now' = now + 1 /\ now < MaxTime /\ MaxTime \in Nat
    BY <1>3, CodexBounds DEF Codex!Tick
  <2>2. now' \in Codex!Times /\ now <= now'
    BY <1>1, <2>1 DEF Codex!Times
  <2> QED
    BY <1>2, <1>3, <2>2
    DEF Codex!Tick, CodexInv, CodexTyped, Codex!NoChildLeft, Codex!scanning, Codex!polling
<1>4. ASSUME NEW found \in Codex!Found, Codex!SessionsChange(found) PROVE CodexInv'
  <2>1. events' \in 0..MaxEvents
    BY <1>4, CodexBounds DEF Codex!SessionsChange, CodexInv, CodexTyped
  <2> QED
    BY <1>1, <1>2, <1>4, <2>1
    DEF Codex!SessionsChange, CodexInv, CodexTyped, Codex!NoChildLeft, Codex!scanning,
        Codex!polling
<1>5. CASE Codex!ScanReads
  <2>1. scan' \in Scans
    BY <1>5 DEF Codex!ScanReads, CodexInv, CodexTyped, Scans
  <2> QED
    BY <1>1, <1>2, <1>5, <2>1
    DEF Codex!ScanReads, CodexInv, CodexTyped, Codex!NoChildLeft, Codex!polling
<1>6. CASE Codex!ScanStores
  BY <1>6, ScanKeeps
<1>7. CASE Codex!Launch
  <2>1. due' \in Nat
    BY <1>1, <1>7 DEF Codex!Launch
  <2>2. /\ UNCHANGED <<now, events, sessions, scan, scanned, live, pollErr, lastGood, cancelled,
                       stopper>>
        /\ poller' \in Codex!InLookup /\ child' \in BOOLEAN
    BY <1>7 DEF Codex!Launch, Codex!Poller, CodexInv, CodexTyped, Codex!scanning, Codex!InLookup
  <2> QED
    BY <1>1, <1>2, <2>1, <2>2 DEF CodexInv, CodexTyped, Codex!NoChildLeft
<1>8. CASE Codex!Answer("initialize", "read") \/ Codex!Answer("read", "answered")
  BY <1>1, <1>2, <1>8
  DEF Codex!Answer, Codex!Poller, CodexInv, CodexTyped, Codex!NoChildLeft, Codex!scanning,
      Codex!InLookup
<1>9. CASE Codex!Wakes
  BY <1>1, <1>2, <1>9
  DEF Codex!Wakes, Codex!Poller, CodexInv, CodexTyped, Codex!NoChildLeft, Codex!scanning,
      Codex!InLookup
<1>10. CASE Codex!StopCalled
  BY <1>1, <1>2, <1>10
  DEF Codex!StopCalled, CodexInv, CodexTyped, Codex!NoChildLeft, Codex!scanning
<1>11. CASE Codex!LookupFails
  BY <1>1, <1>2, <1>11
  DEF Codex!LookupFails, Codex!Poller, CodexInv, CodexTyped, Codex!NoChildLeft,
      Codex!scanning, Codex!InLookup
<1>12. CASE Codex!PollEnds
  BY <1>12, PollKeeps
<1>13. CASE Codex!GoroutineEnds
  BY <1>1, <1>2, <1>13
  DEF Codex!GoroutineEnds, Codex!Poller, CodexInv, CodexTyped, Codex!NoChildLeft,
      Codex!scanning, Codex!InLookup
<1>14. CASE Codex!StopReturns
  BY <1>1, <1>2, <1>14
  DEF Codex!StopReturns, CodexInv, CodexTyped, Codex!NoChildLeft, Codex!scanning
<1>15. CASE UNCHANGED Codex!vars
  BY <1>1, <1>2, <1>15 DEF Codex!vars, CodexInv, CodexTyped, Codex!NoChildLeft
<1> QED
  BY <1>3, <1>4, <1>5, <1>6, <1>7, <1>8, <1>9, <1>10, <1>11, <1>12, <1>13, <1>14, <1>15
  DEF Codex!Next

\* Whichever source is on show, it is no newer than the last success.
LEMMA CodexSound == CodexInv => Codex!TypeOK /\ Codex!BrokenAgesToStale
<1> SUFFICES ASSUME CodexInv PROVE Codex!TypeOK /\ Codex!BrokenAgesToStale
  OBVIOUS
<1>1. Codex!TypeOK
  BY DEF CodexInv, CodexTyped, Codex!TypeOK, Scans, Stored
<1>2. now \in Nat /\ lastGood \in Nat /\ live \in Nat /\ StaleAfter \in Nat
  BY CodexBounds DEF CodexInv, CodexTyped
<1>3. scanned.fetched \in Nat
  BY CodexBounds DEF CodexInv, CodexTyped, Stored
<1>4. Codex!Fetched \in Nat /\ Codex!Fetched <= lastGood
  BY <1>2, <1>3 DEF CodexInv, GoodBefore, Codex!Fetched
<1>5. Codex!BrokenAgesToStale
  <2> HIDE DEF Codex!Fetched
  <2> QED
    BY <1>2, <1>4 DEF Codex!BrokenAgesToStale, Codex!Stale
<1> QED
  BY <1>1, <1>5

-----------------------------------------------------------------------------
(* The dashboard: Page, src/static/app.js.                                  *)

Streams == {"none", "connecting", "open", "live"}
Generations == 0..MaxSwitches
MetricsRequests == [host : Hosts, generation : Generations, body : BOOLEAN]

\* What is under way for the selected host is one request of that host: a request of
\* the present generation names it, and no request names a later one.
RequestsKnown ==
  /\ \A r \in requests : r.generation <= generation
  /\ \A r \in requests : Page!Current(r) => r.host = host
  /\ \A q, r \in requests : Page!Current(q) /\ Page!Current(r) => q = r
  /\ inFlight <=> \E r \in requests : Page!Current(r)

\* A stream is tried for as long as it has not failed out.
FailedOut ==
  /\ fallback => stream = "none"
  /\ ~fallback => failures < Limit /\ reconnects < Limit

ViewTyped ==
  /\ host \in Hosts /\ generation \in Generations
  /\ visible \in BOOLEAN /\ paused \in BOOLEAN
SourceTyped ==
  /\ stream \in Streams /\ timer \in BOOLEAN
  /\ fallback \in BOOLEAN /\ failures \in 0..Limit /\ reconnects \in 0..Limit
  /\ silent \in BOOLEAN /\ threw \in BOOLEAN
FetchesTyped == requests \subseteq MetricsRequests /\ inFlight \in BOOLEAN
DisplayTyped == painted \in Hosts \cup {Page!Blank} /\ aged \in BOOLEAN

Sourced == SourceTyped /\ FailedOut /\ Page!OneSource
FetchesRight == FetchesTyped /\ RequestsKnown
Displayed == DisplayTyped /\ Page!NoForeignReading
PageInv == ViewTyped /\ Sourced /\ FetchesRight /\ Displayed

LEMMA PageBounds == Limit \in Nat \ {0} /\ MaxSwitches \in Nat
BY PageAssumed DEF Page!DashboardAssumption

LEMMA NoFailures == 0 \in 0..Limit /\ 0 < Limit
BY PageBounds

LEMMA PageInit == Page!Init => PageInv
<1> SUFFICES ASSUME Page!Init PROVE PageInv
  OBVIOUS
<1>1. 0 \in Generations /\ 0 \in 0..Limit /\ 0 < Limit
  BY PageBounds DEF Generations
<1>2. ViewTyped
  BY <1>1 DEF Page!Init, ViewTyped
<1>3. Sourced
  BY <1>1 DEF Page!Init, Sourced, SourceTyped, Streams, FailedOut, Page!OneSource, Page!Watching
<1>4. FetchesRight
  <2>1. [host |-> host, generation |-> 0, body |-> FALSE] \in MetricsRequests
    BY <1>1 DEF Page!Init, MetricsRequests
  <2>2. requests = {[host |-> host, generation |-> 0, body |-> FALSE]} /\ inFlight = TRUE /\ generation = 0
    BY DEF Page!Init
  <2>3. FetchesTyped
    BY <2>1, <2>2 DEF FetchesTyped
  <2>4. RequestsKnown
    BY <2>2 DEF RequestsKnown, Page!Current
  <2> QED
    BY <2>3, <2>4 DEF FetchesRight
<1>5. Displayed
  BY DEF Page!Init, Displayed, DisplayTyped, Page!NoForeignReading
<1> QED
  BY <1>2, <1>3, <1>4, <1>5 DEF PageInv

\* schedulePolling leaves one source for a view that is looked at, or none where an
\* EventSource could not be made, and no stream that has failed out.
LEMMA Scheduled ==
  ASSUME NEW open \in Streams, NEW out \in BOOLEAN, silent \in BOOLEAN,
         visible' \in BOOLEAN, paused' \in BOOLEAN, Page!SchedulePolling(open, out)
  PROVE  /\ stream' \in Streams /\ timer' \in BOOLEAN /\ silent' \in BOOLEAN
         /\ fallback' \in BOOLEAN /\ threw' \in BOOLEAN
         /\ Page!OneSource'
         /\ fallback' => stream' = "none"
         /\ out => fallback'
<1>1. PICK throws \in BOOLEAN :
        /\ throws => Page!Watching' /\ ~out /\ open = "none"
        /\ stream' = IF ~Page!Watching' \/ out \/ throws THEN "none"
                     ELSE IF open = "none" THEN "connecting" ELSE open
        /\ timer' = (Page!Watching' /\ out)
        /\ fallback' = (out \/ throws) /\ threw' = throws
        /\ silent' = (silent /\ open # "none" /\ stream' = open)
  BY Zenon DEF Page!SchedulePolling
<1>2. Page!Watching' \in BOOLEAN /\ timer' \in BOOLEAN /\ silent' \in BOOLEAN
      /\ fallback' \in BOOLEAN /\ threw' \in BOOLEAN
  BY <1>1 DEF Page!Watching
<1>3. stream' = "none" \/ (stream' = "connecting" /\ open = "none")
      \/ (stream' = open /\ open # "none")
  BY <1>1
<1>4. (~Page!Watching' \/ out \/ throws) <=> stream' = "none"
  <2>1. CASE ~Page!Watching' \/ out \/ throws
    BY <1>1, <2>1
  <2>2. CASE ~(~Page!Watching' \/ out \/ throws)
    BY <1>1, <2>2
  <2> QED
    BY <2>1, <2>2
<1>5. stream' \in Streams
  BY <1>3 DEF Streams
<1>6. timer' => stream' = "none"
  BY Zenon, <1>1, <1>4
<1>7. timer' \/ stream' # "none" => Page!Watching'
  BY Zenon, <1>1, <1>4
<1>8. Page!Watching' => timer' \/ stream' # "none" \/ threw'
  BY Zenon, <1>1, <1>4
<1>9. Page!OneSource'
  BY Zenon, <1>6, <1>7, <1>8 DEF Page!OneSource
<1>10. (fallback' => stream' = "none") /\ (out => fallback')
  BY Zenon, <1>1, <1>4
<1> QED
  BY Zenon, <1>2, <1>5, <1>9, <1>10

\* fetchMetrics starts a request only where none of the selected host is under way.
LEMMA FetchKeeps ==
  ASSUME ViewTyped, FetchesRight, Page!FetchMetrics, UNCHANGED <<host, generation>>
  PROVE  FetchesRight'
<1>1. CASE inFlight
  BY <1>1
  DEF Page!FetchMetrics, Page!fetches, FetchesRight, FetchesTyped, RequestsKnown,
      Page!Current
<1>2. CASE ~inFlight
  <2> DEFINE new == [host |-> host, generation |-> generation, body |-> FALSE]
  <2>1. requests' = requests \cup {new} /\ inFlight' = TRUE
    BY <1>2 DEF Page!FetchMetrics
  <2>2. new \in MetricsRequests /\ new.generation = generation /\ new.host = host
    BY DEF ViewTyped, MetricsRequests
  <2>3. generation \in Nat
    BY PageBounds DEF ViewTyped, Generations
  <2> HIDE DEF new
  <2>4. FetchesTyped'
    BY <2>1, <2>2 DEF FetchesRight, FetchesTyped
  <2>5. ASSUME NEW q \in requests PROVE ~Page!Current(q)
    BY <1>2 DEF FetchesRight, RequestsKnown
  <2>6. \A q : Page!Current(q)' <=> Page!Current(q)
    BY DEF Page!Current
  <2>7. Page!Current(new)
    BY <2>2 DEF Page!Current
  <2>8. \A q, r \in requests' : Page!Current(q)' /\ Page!Current(r)' => q = r
    BY <2>1, <2>5, <2>6
  <2>9. /\ \A r \in requests' : r.generation <= generation'
        /\ \A r \in requests' : Page!Current(r)' => r.host = host'
    BY <2>1, <2>2, <2>3, <2>5, <2>6 DEF FetchesRight, RequestsKnown
  <2>10. inFlight' <=> \E r \in requests' : Page!Current(r)'
    BY <2>1, <2>6, <2>7
  <2>11. RequestsKnown'
    BY <2>8, <2>9, <2>10 DEF RequestsKnown
  <2> QED
    BY <2>4, <2>11 DEF FetchesRight
<1> QED
  BY <1>1, <1>2

LEMMA FetchesStay ==
  ASSUME FetchesRight, UNCHANGED <<host, generation, Page!fetches>> PROVE FetchesRight'
BY DEF FetchesRight, FetchesTyped, RequestsKnown, Page!Current, Page!fetches

LEMMA DisplayedStays ==
  ASSUME Displayed, UNCHANGED <<host, Page!display>> PROVE Displayed'
BY DEF Displayed, DisplayTyped, Page!NoForeignReading, Page!display

LEMMA SourcedStays ==
  ASSUME Sourced, UNCHANGED <<visible, paused, Page!source>> PROVE Sourced'
BY DEF Sourced, SourceTyped, FailedOut, Page!OneSource, Page!Watching, Page!source

LEMMA ViewStays == ASSUME ViewTyped, UNCHANGED Page!view PROVE ViewTyped'
BY DEF ViewTyped, Page!view

\* Scheduling again changes neither the counts nor the verdict on the stream.
LEMMA Rescheduled ==
  ASSUME Sourced, visible' \in BOOLEAN, paused' \in BOOLEAN,
         UNCHANGED <<failures, reconnects>>, Page!SchedulePolling(stream, fallback)
  PROVE  Sourced'
<1>1. stream \in Streams /\ fallback \in BOOLEAN /\ silent \in BOOLEAN
  BY DEF Sourced, SourceTyped
<1>2. /\ stream' \in Streams /\ timer' \in BOOLEAN /\ silent' \in BOOLEAN
      /\ fallback' \in BOOLEAN /\ threw' \in BOOLEAN /\ Page!OneSource'
      /\ (fallback' => stream' = "none") /\ (fallback => fallback')
  BY <1>1, Scheduled
<1> QED
  BY <1>2 DEF Sourced, SourceTyped, FailedOut

LEMMA StreamFailsKeeps == ASSUME PageInv, Page!StreamFails PROVE PageInv'
<1>1. ViewTyped' /\ Displayed'
  BY ViewStays, DisplayedStays DEF PageInv, Page!StreamFails, Page!view
<1>2. /\ stream \in Streams /\ stream # "none" /\ silent \in BOOLEAN /\ ~fallback
      /\ fallback \in BOOLEAN
      /\ failures \in 0..Limit /\ failures < Limit /\ threw \in BOOLEAN
      /\ reconnects \in 0..Limit
      /\ reconnects < Limit /\ timer \in BOOLEAN
  BY DEF PageInv, Sourced, SourceTyped, FailedOut, Page!StreamFails
<1>3. failures' = failures + 1 /\ reconnects' = reconnects /\ failures' \in 0..Limit
  BY <1>2, PageBounds DEF Page!StreamFails
<1>5. CASE /\ failures + 1 < Limit /\ stream' = "connecting"
           /\ UNCHANGED <<timer, fallback, silent, threw, Page!fetches>>
  <2>1. Page!Watching /\ timer = FALSE
    BY <1>2 DEF PageInv, Sourced, Page!OneSource, Page!Watching
  <2>2. Page!OneSource'
    BY <1>5, <2>1 DEF Page!OneSource, Page!Watching, Page!StreamFails, Page!view
  <2>3. SourceTyped' /\ FailedOut'
    BY <1>2, <1>3, <1>5 DEF SourceTyped, FailedOut, Streams
  <2>4. FetchesRight'
    BY <1>5, FetchesStay DEF PageInv, Page!StreamFails, Page!view
  <2> QED
    BY <1>1, <2>2, <2>3, <2>4 DEF PageInv, Sourced
<1>6. CASE Page!SchedulePolling("none", TRUE) /\ Page!FetchMetrics
  <2>1. visible' \in BOOLEAN /\ paused' \in BOOLEAN /\ UNCHANGED <<host, generation>>
    BY DEF PageInv, ViewTyped, Page!StreamFails, Page!view
  <2>2. /\ stream' \in Streams /\ timer' \in BOOLEAN /\ silent' \in BOOLEAN
        /\ fallback' = TRUE /\ threw' \in BOOLEAN /\ Page!OneSource' /\ stream' = "none"
    BY <1>2, <1>6, <2>1, Scheduled DEF Streams
  <2>3. Sourced'
    BY <1>2, <1>3, <2>2 DEF Sourced, SourceTyped, FailedOut
  <2>4. FetchesRight'
    BY <1>6, <2>1, FetchKeeps DEF PageInv
  <2> QED
    BY <1>1, <2>3, <2>4 DEF PageInv
<1> QED
  BY <1>5, <1>6 DEF Page!StreamFails

LEMMA ReviveKeeps == ASSUME PageInv, Page!ReviveStreamIfSilent PROVE PageInv'
<1>1. ViewTyped' /\ Displayed'
  BY ViewStays, DisplayedStays DEF PageInv, Page!ReviveStreamIfSilent, Page!view
<1>2. /\ stream \in Streams /\ stream # "none" /\ silent \in BOOLEAN /\ ~fallback
      /\ fallback \in BOOLEAN /\ failures \in 0..Limit /\ failures < Limit
      /\ reconnects \in 0..Limit
      /\ reconnects < Limit
  BY DEF PageInv, Sourced, SourceTyped, FailedOut, Page!ReviveStreamIfSilent
<1> DEFINE out == fallback \/ reconnects + 1 >= Limit
<1>3. reconnects' = reconnects + 1 /\ failures' = failures
      /\ Page!SchedulePolling("none", out) /\ Page!FetchMetrics
  BY <1>2 DEF Page!ReviveStreamIfSilent
<1>4. reconnects' \in 0..Limit /\ out \in BOOLEAN /\ (~out => reconnects' < Limit)
  <2>1. reconnects \in Nat /\ reconnects' = reconnects + 1 /\ reconnects < Limit
        /\ Limit \in Nat
    BY <1>2, <1>3, PageBounds
  <2>2. reconnects' \in 0..Limit /\ (~(reconnects + 1 >= Limit) => reconnects' < Limit)
    BY <2>1
  <2> QED
    BY <1>2, <2>2
<1>5. visible' \in BOOLEAN /\ paused' \in BOOLEAN /\ UNCHANGED <<host, generation>>
  BY DEF PageInv, ViewTyped, Page!ReviveStreamIfSilent, Page!view
<1> HIDE DEF out
<1>7. /\ stream' \in Streams /\ timer' \in BOOLEAN /\ silent' \in BOOLEAN
      /\ fallback' \in BOOLEAN /\ threw' \in BOOLEAN /\ Page!OneSource'
      /\ (fallback' => stream' = "none") /\ (out => fallback')
  BY <1>2, <1>3, <1>4, <1>5, Scheduled DEF Streams
<1>8. Sourced'
  <2>1. failures' \in 0..Limit /\ failures' < Limit
    BY <1>2, <1>3
  <2> QED
    BY <1>4, <1>7, <2>1 DEF Sourced, SourceTyped, FailedOut
<1>9. FetchesRight'
  BY <1>3, <1>5, FetchKeeps DEF PageInv
<1> QED
  BY <1>1, <1>8, <1>9 DEF PageInv

\* An answer of a former generation neither releases the flag nor is shown.
LEMMA AnswerKeeps ==
  ASSUME PageInv, NEW r \in requests, NEW ok \in BOOLEAN, Page!Answer(r, ok)
  PROVE  PageInv'
<1>1. ViewTyped' /\ Sourced'
  BY ViewStays, SourcedStays DEF PageInv, Page!Answer, Page!view
<1>2. r \in MetricsRequests /\ r.host \in Hosts /\ r.generation \in Generations
  BY DEF PageInv, FetchesRight, FetchesTyped, MetricsRequests
<1>3. UNCHANGED <<host, generation>> /\ requests' = requests \ {r}
      /\ inFlight' = (inFlight /\ ~Page!Current(r))
  BY DEF Page!Answer, Page!view
<1>4. ASSUME NEW q \in requests, Page!Current(q), Page!Current(r) PROVE q = r
  BY <1>4 DEF PageInv, FetchesRight, RequestsKnown
<1>5. FetchesRight'
  <2>1. inFlight' <=> \E q \in requests' : Page!Current(q)'
    <3>1. \A q : Page!Current(q)' <=> Page!Current(q)
      BY <1>3 DEF Page!Current
    <3>2. CASE Page!Current(r)
      BY <1>3, <1>4, <3>1, <3>2
    <3>3. CASE ~Page!Current(r)
      BY <1>3, <3>1, <3>3 DEF PageInv, FetchesRight, RequestsKnown
    <3> QED
      BY <3>2, <3>3
  <2>2. FetchesTyped'
    BY <1>3 DEF PageInv, FetchesRight, FetchesTyped
  <2> QED
    BY <1>3, <2>1, <2>2 DEF PageInv, FetchesRight, RequestsKnown, Page!Current
<1>6. Displayed'
  <2>1. CASE ok /\ Page!Current(r)
    <3>1. painted' = r.host /\ aged' = FALSE /\ r.host = host
      BY <2>1 DEF Page!Answer, PageInv, FetchesRight, RequestsKnown
    <3> QED
      BY <1>2, <1>3, <3>1 DEF Displayed, DisplayTyped, Page!NoForeignReading
  <2>2. CASE ~(ok /\ Page!Current(r))
    BY <1>3, <2>2, DisplayedStays DEF Page!Answer, PageInv
  <2> QED
    BY <2>1, <2>2
<1> QED
  BY <1>1, <1>5, <1>6 DEF PageInv

\* Headers change nothing but that the body of a request is awaited.
LEMMA HeadersKeep ==
  ASSUME PageInv, NEW r \in requests, Page!HeadersArrive(r) PROVE PageInv'
<1> DEFINE next == [r EXCEPT !.body = TRUE]
<1>1. ViewTyped' /\ Sourced' /\ Displayed'
  BY ViewStays, SourcedStays, DisplayedStays DEF PageInv, Page!HeadersArrive, Page!view
<1>2. /\ UNCHANGED <<host, generation, inFlight>>
      /\ requests' = (requests \ {r}) \cup IF Page!Current(r) THEN {next} ELSE {}
  BY DEF Page!HeadersArrive, Page!view
<1>3. r \in MetricsRequests
  BY DEF PageInv, FetchesRight, FetchesTyped
<1>4. /\ next \in MetricsRequests /\ next.host = r.host /\ next.generation = r.generation
  BY <1>3 DEF MetricsRequests
<1>5. /\ \A q \in requests : q.generation <= generation /\ (Page!Current(q) => q.host = host)
      /\ \A q, p \in requests : Page!Current(q) /\ Page!Current(p) => q = p
      /\ inFlight <=> \E q \in requests : Page!Current(q)
      /\ requests \subseteq MetricsRequests /\ inFlight \in BOOLEAN
  BY DEF PageInv, FetchesRight, FetchesTyped, RequestsKnown
<1>6. \A q : Page!Current(q)' <=> Page!Current(q)
  BY <1>2 DEF Page!Current
<1>7. Page!Current(next) <=> Page!Current(r)
  BY <1>4 DEF Page!Current
<1> HIDE DEF next
<1>8. FetchesTyped'
  BY <1>2, <1>4, <1>5 DEF FetchesTyped
<1>9. RequestsKnown'
  <2>1. CASE Page!Current(r)
    <3>1. \A q \in requests' : Page!Current(q) => q = next
      BY <1>2, <1>5, <2>1
    <3>2. next \in requests' /\ Page!Current(next) /\ inFlight
      BY <1>2, <1>5, <1>7, <2>1
    <3>3. \A q \in requests' : q.generation <= generation /\ (Page!Current(q) => q.host = host)
      BY <1>2, <1>4, <1>5, <2>1
    <3> QED
      BY <1>2, <1>6, <3>1, <3>2, <3>3 DEF RequestsKnown
  <2>2. CASE ~Page!Current(r)
    <3>1. requests' = requests \ {r}
      BY <1>2, <2>2
    <3> QED
      BY <1>2, <1>5, <1>6, <2>2, <3>1 DEF RequestsKnown
  <2> QED
    BY <2>1, <2>2
<1> QED
  BY <1>1, <1>8, <1>9 DEF PageInv, FetchesRight

LEMMA SelectKeeps == ASSUME PageInv, NEW h \in Hosts, Page!SelectHost(h) PROVE PageInv'
<1> DEFINE new == [host |-> host', generation |-> generation', body |-> FALSE]
<1>1. /\ host' = h /\ generation' = generation + 1 /\ generation < MaxSwitches
      /\ visible' = visible /\ paused' = paused
  BY DEF Page!SelectHost
<1>2. generation \in Nat /\ generation' \in Generations
  BY <1>1, PageBounds DEF PageInv, ViewTyped, Generations
<1>3. ViewTyped'
  BY <1>1, <1>2 DEF PageInv, ViewTyped
<1>4. Sourced'
  <2>1. failures' = 0 /\ reconnects' = 0
        /\ Page!SchedulePolling("none", FALSE)
    BY DEF Page!SelectHost
  <2>2. /\ stream' \in Streams /\ timer' \in BOOLEAN /\ silent' \in BOOLEAN
        /\ fallback' \in BOOLEAN /\ threw' \in BOOLEAN /\ Page!OneSource'
        /\ (fallback' => stream' = "none")
    BY <1>3, <2>1, Scheduled DEF Streams, PageInv, Sourced, SourceTyped, ViewTyped
  <2> QED
    BY <2>1, <2>2, NoFailures DEF Sourced, SourceTyped, FailedOut
<1>5. new \in MetricsRequests /\ new.generation = generation' /\ new.host = host'
  BY <1>1, <1>2 DEF MetricsRequests
<1>6. requests' = requests \cup {new} /\ inFlight' = TRUE
  BY DEF Page!SelectHost
<1> HIDE DEF new
<1>7. FetchesRight'
  <2>1. ASSUME NEW r \in requests
        PROVE  r.generation <= generation' /\ ~(r.generation = generation')
    <3>1. r.generation \in Nat /\ r.generation <= generation
      BY DEF PageInv, FetchesRight, FetchesTyped, RequestsKnown, MetricsRequests, Generations
    <3> QED
      BY <1>1, <1>2, <3>1
  <2>2. FetchesTyped'
    BY <1>5, <1>6 DEF PageInv, FetchesRight, FetchesTyped
  <2>3. generation' <= generation'
    BY <1>1, <1>2
  <2>4. RequestsKnown'
    BY <1>5, <1>6, <2>1, <2>3 DEF RequestsKnown, Page!Current
  <2> QED
    BY <2>2, <2>4 DEF FetchesRight
<1>8. Displayed'
  BY DEF Page!SelectHost, Displayed, DisplayTyped, Page!NoForeignReading
<1> QED
  BY <1>3, <1>4, <1>7, <1>8 DEF PageInv

\* Every handler and every tick keeps the invariant.
LEMMA PageStep == PageInv /\ [Page!Next]_(Page!vars) => PageInv'
<1> SUFFICES ASSUME PageInv, [Page!Next]_(Page!vars) PROVE PageInv'
  OBVIOUS
<1>1. CASE Page!StreamOpens
  <2>1. ViewTyped' /\ Displayed' /\ FetchesRight'
    BY <1>1, ViewStays, DisplayedStays, FetchesStay DEF PageInv, Page!StreamOpens, Page!view
  <2>2. Sourced'
    BY <1>1, NoFailures
    DEF Page!StreamOpens, PageInv, Sourced, SourceTyped, FailedOut, Page!OneSource,
        Page!Watching, Page!view, Streams
  <2> QED
    BY <2>1, <2>2 DEF PageInv
<1>2. CASE Page!Frame
  <2>1. ViewTyped' /\ FetchesRight'
    BY <1>2, ViewStays, FetchesStay DEF PageInv, Page!Frame, Page!view
  <2>2. Sourced'
    BY <1>2, NoFailures
    DEF Page!Frame, PageInv, Sourced, SourceTyped, FailedOut, Page!OneSource, Page!Watching,
        Page!view, Streams
  <2>3. Displayed'
    BY <1>2
    DEF Page!Frame, PageInv, ViewTyped, Displayed, DisplayTyped, Page!NoForeignReading,
        Page!view
  <2> QED
    BY <2>1, <2>2, <2>3 DEF PageInv
<1>3. CASE Page!StreamFails
  BY <1>3, StreamFailsKeeps
<1>4. CASE Page!Silence
  <2>1. ViewTyped' /\ Displayed' /\ FetchesRight'
    BY <1>4, ViewStays, DisplayedStays, FetchesStay DEF PageInv, Page!Silence, Page!view
  <2>2. Sourced'
    BY <1>4
    DEF Page!Silence, PageInv, Sourced, SourceTyped, FailedOut, Page!OneSource,
        Page!Watching, Page!view
  <2> QED
    BY <2>1, <2>2 DEF PageInv
<1>5. CASE Page!ReviveStreamIfSilent
  BY <1>5, ReviveKeeps
<1>6. CASE Page!Poll \/ Page!Refresh
  <2>1. Page!FetchMetrics /\ UNCHANGED <<Page!view, Page!source, Page!display>>
    BY <1>6 DEF Page!Poll, Page!Refresh
  <2> QED
    BY <2>1, ViewStays, DisplayedStays, SourcedStays, FetchKeeps DEF PageInv, Page!view
<1>7. CASE Page!Answered \/ \E r \in requests : Page!HeadersArrive(r)
  BY <1>7, AnswerKeeps, HeadersKeep DEF Page!Answered
<1>8. ASSUME NEW h \in Hosts, Page!SelectHost(h) PROVE PageInv'
  BY <1>8, SelectKeeps
<1>9. CASE Page!Hide
  <2>1. UNCHANGED <<host, generation, paused, failures, reconnects, Page!fetches, Page!display>>
        /\ visible' = FALSE /\ Page!SchedulePolling(stream, fallback)
    BY <1>9 DEF Page!Hide
  <2>2. ViewTyped'
    BY <2>1 DEF PageInv, ViewTyped
  <2> QED
    BY <2>1, <2>2, Rescheduled, FetchesStay, DisplayedStays DEF PageInv, ViewTyped
<1>10. CASE Page!Show
  <2>1. UNCHANGED <<host, generation, paused, failures, reconnects, Page!display>>
        /\ visible' = TRUE /\ Page!SchedulePolling(stream, fallback)
        /\ (UNCHANGED Page!fetches \/ Page!FetchMetrics)
    BY <1>10 DEF Page!Show
  <2>2. ViewTyped'
    BY <2>1 DEF PageInv, ViewTyped
  <2> QED
    BY <2>1, <2>2, Rescheduled, FetchesStay, FetchKeeps, DisplayedStays DEF PageInv, ViewTyped
<1>11. CASE Page!TogglePause
  <2>1. UNCHANGED <<host, generation, visible, failures, reconnects, Page!display>>
        /\ paused' = ~paused /\ Page!SchedulePolling(stream, fallback)
        /\ (UNCHANGED Page!fetches \/ Page!FetchMetrics)
    BY <1>11 DEF Page!TogglePause
  <2>2. ViewTyped'
    BY <2>1 DEF PageInv, ViewTyped
  <2> QED
    BY <2>1, <2>2, Rescheduled, FetchesStay, FetchKeeps, DisplayedStays DEF PageInv, ViewTyped
<1>12. CASE Page!ApplySettings
  <2>1. UNCHANGED <<Page!view, failures, reconnects, Page!fetches, Page!display>>
        /\ Page!SchedulePolling(stream, fallback)
    BY <1>12 DEF Page!ApplySettings
  <2>2. ViewTyped' /\ visible' \in BOOLEAN /\ paused' \in BOOLEAN
    BY <2>1, ViewStays DEF PageInv, ViewTyped, Page!view
  <2> QED
    BY <2>1, <2>2, Rescheduled, FetchesStay, DisplayedStays DEF PageInv, Page!view
<1>13. CASE Page!Age
  <2>1. UNCHANGED <<Page!view, Page!source, Page!fetches, painted>> /\ aged' = TRUE
    BY <1>13 DEF Page!Age
  <2>2. Displayed'
    BY <2>1 DEF PageInv, Displayed, DisplayTyped, Page!NoForeignReading, Page!view
  <2> QED
    BY <2>1, <2>2, ViewStays, SourcedStays, FetchesStay DEF PageInv, Page!view
<1>14. CASE UNCHANGED Page!vars
  BY <1>14, ViewStays, SourcedStays, FetchesStay, DisplayedStays
  DEF PageInv, Page!vars, Page!view
<1> QED
  BY <1>1, <1>2, <1>3, <1>4, <1>5, <1>6, <1>7, <1>8, <1>9, <1>10, <1>11, <1>12, <1>13,
     <1>14
  DEF Page!Next

\* The module counts as the library does.
LEMMA PageSizes == ASSUME NEW S PROVE Page!Cardinality(S) = Cardinality(S)
BY Zenon DEF Page!Cardinality, Cardinality

\* At most one request of the selected host is under way: two would be the same.
LEMMA PageSound ==
  PageInv => Page!TypeOK /\ Page!NoForeignReading /\ Page!FlagHonest /\ Page!OneSource
<1> SUFFICES ASSUME PageInv
             PROVE  Page!TypeOK /\ Page!NoForeignReading /\ Page!FlagHonest /\ Page!OneSource
  OBVIOUS
<1>1. Page!TypeOK
  BY
  DEF PageInv, ViewTyped, Sourced, SourceTyped, FetchesRight, FetchesTyped, Displayed,
      DisplayTyped, Page!TypeOK, Streams, MetricsRequests, Generations
<1>2. Page!FlagHonest
  <2> DEFINE wanted == {r \in requests : Page!Current(r)}
  <2>2. ASSUME wanted # {} PROVE Cardinality(wanted) = 1
    <3>1. PICK r \in requests : Page!Current(r)
      BY <2>2
    <3>2. wanted = {r}
      BY <3>1 DEF PageInv, FetchesRight, RequestsKnown
    <3> QED
      BY <3>2, FS_Singleton
  <2>4. Cardinality(wanted) <= 1
    <3> HIDE DEF wanted
    <3>1. wanted = {} => Cardinality(wanted) = 0
      BY FS_EmptySet
    <3>2. Cardinality(wanted) = 1 \/ wanted = {}
      BY <2>2
    <3> QED
      BY <3>1, <3>2
  <2> QED
    BY <2>4, PageSizes DEF Page!FlagHonest, PageInv, FetchesRight, RequestsKnown
<1> QED
  BY <1>1, <1>2 DEF PageInv, Sourced, Displayed

-----------------------------------------------------------------------------
(* The microphone button: Button, src/static/app.js, src/control_linux.go.  *)

Phases == {"sending", "confirming", "holding"}
PressIds == 1..MaxPresses
Toggles == [phase : Phases, from : Button!Values, expected : Button!Values, id : PressIds]
Reports == Button!Values \cup {Button!Nothing}

\* Toggle k was sent by the dashboard of viewer v as it is now, and is waited for.
Awaits(k, v) ==
  /\ k \in DOMAIN toggles /\ toggles[k].open = TRUE
  /\ toggles[k].viewer = v /\ toggles[k].generation = visit[v]

\* What is waited for is what the button is in sync with, in its first phase; a busy
\* button cannot be pressed; the later phases are those of a toggle nobody waits for.
OneSync(v) ==
  /\ Button!Busy(sync[v]) => disabled[v] = TRUE
  /\ \A k : Awaits(k, v) => sync[v].phase = "sending" /\ sync[v].id = k
  /\ sync[v].phase \in {"confirming", "holding"} =>
       ~(sync[v].id \in DOMAIN toggles /\ toggles[sync[v].id].open = TRUE)

\* What the button shows.
ShowsRight(v) ==
  /\ sync[v].phase = "none" /\ reading[v] # Button!Nothing => label[v] = reading[v]
  /\ Button!Busy(sync[v]) => label[v] = sync[v].from
  /\ sync[v].phase = "holding" => label[v] = sync[v].expected

\* Toggles are numbered as they are sent.
Numbered ==
  /\ presses \in 0..MaxPresses
  /\ DOMAIN toggles \subseteq 1..presses
  /\ \A v \in Viewers : sync[v].phase # "none" => sync[v].id \in 1..presses

\* None was sent by a dashboard that is yet to come.
NoneAhead ==
  \A k \in DOMAIN toggles : toggles[k].generation <= visit[toggles[k].viewer]

AgentTyped == muted \subseteq Mics /\ read \in Reports /\ reported \in Reports
RequestsTyped == \A k \in DOMAIN toggles : toggles[k] \in Button!Request
ButtonsTyped ==
  /\ arriving \in [Viewers -> Reports] /\ reading \in [Viewers -> Reports]
  /\ label \in [Viewers -> Button!Values] /\ sync \in [Viewers -> Button!Sync]
  /\ pending \in [Viewers -> BOOLEAN] /\ offers \in [Viewers -> BOOLEAN]
  /\ disabled \in [Viewers -> BOOLEAN] /\ visit \in [Viewers -> Nat]

MicInv ==
  /\ AgentTyped /\ RequestsTyped /\ ButtonsTyped /\ slips \in 0..MaxSlips
  /\ Numbered /\ NoneAhead
  /\ \A v \in Viewers : OneSync(v) /\ ShowsRight(v)

-----------------------------------------------------------------------------
(* Records of toggles and of requests. *)

LEMMA SyncSet == Button!Sync = {Button!NoSync} \cup Toggles
BY DEF Button!Sync, Toggles, Phases, PressIds

LEMMA SyncFields ==
  ASSUME NEW s \in Button!Sync
  PROVE  /\ s.phase \in Phases \cup {"none"}
         /\ s.phase = "none" => s = Button!NoSync
         /\ s.phase # "none" => /\ s \in Toggles /\ s.from \in Button!Values
                                /\ s.expected \in Button!Values /\ s.id \in PressIds
BY SyncSet DEF Button!NoSync, Toggles, Phases

LEMMA NoSyncIsSync == Button!NoSync \in Button!Sync /\ Button!NoSync.phase = "none"
BY SyncSet DEF Button!NoSync

LEMMA SyncMade ==
  ASSUME NEW from \in Button!Values, NEW id \in PressIds,
         NEW s, s = [phase |-> "sending", from |-> from, expected |-> "unknown", id |-> id]
  PROVE  s \in Button!Sync /\ s.phase = "sending" /\ s.from = from /\ s.id = id
BY SyncSet DEF Toggles, Phases, Button!Values

LEMMA SyncConfirming ==
  ASSUME NEW s \in Toggles, NEW t, t = [s EXCEPT !.phase = "confirming"]
  PROVE  t \in Button!Sync /\ t.phase = "confirming" /\ t.from = s.from /\ t.id = s.id
BY SyncSet DEF Toggles, Phases

LEMMA RequestFields ==
  ASSUME NEW r \in Button!Request
  PROVE  /\ r.viewer \in Viewers /\ r.generation \in Nat /\ r.open \in BOOLEAN
         /\ r.todo \subseteq Mics /\ r.failed \subseteq Mics
         /\ r.answer \in {"muted", "unmuted", "toggled", "failed"}
BY DEF Button!Request

\* What carries a request out leaves alone whose it is and whether it is waited for.
Sender(r) == <<r.viewer, r.generation, r.open>>

LEMMA RequestRead ==
  ASSUME NEW r \in Button!Request, NEW a \in {"muted", "unmuted"}, NEW q,
         q = [r EXCEPT !.step = "set", !.todo = Mics, !.answer = a]
  PROVE  q \in Button!Request /\ Sender(q) = Sender(r)
BY DEF Button!Request, Sender

LEMMA RequestToggled ==
  ASSUME NEW r \in Button!Request, NEW a \in {"toggled", "failed"}, NEW q,
         q = [r EXCEPT !.step = "done", !.answer = a]
  PROVE  q \in Button!Request /\ Sender(q) = Sender(r)
BY DEF Button!Request, Sender

LEMMA RequestClosed ==
  ASSUME NEW r \in Button!Request, NEW q, q = [r EXCEPT !.open = FALSE]
  PROVE  q \in Button!Request /\ q.viewer = r.viewer /\ q.generation = r.generation
         /\ q.open = FALSE
BY DEF Button!Request

LEMMA RequestSent ==
  ASSUME NEW v \in Viewers, visit[v] \in Nat
  PROVE  /\ Button!Sent(v) \in Button!Request /\ Button!Sent(v).viewer = v
         /\ Button!Sent(v).open = TRUE
         /\ Button!Sent(v).generation = visit[v]
BY DEF Button!Sent, Button!Request

LEMMA NowOf ==
  ASSUME NEW k \in DOMAIN toggles, NEW r, NEW f, f = Button!Now(k, r)
  PROVE  /\ DOMAIN f \subseteq DOMAIN toggles
         /\ \A j \in DOMAIN f : f[j] = IF j = k THEN r ELSE toggles[j]
BY DEF Button!Now

-----------------------------------------------------------------------------
(* What one step leaves to the buttons it does not concern. *)

\* No request is reopened, passed on or dated otherwise.
RequestsLast ==
  /\ DOMAIN toggles' \subseteq DOMAIN toggles
  /\ \A k \in DOMAIN toggles' :
       /\ toggles'[k] \in Button!Request
       /\ toggles'[k].viewer = toggles[k].viewer
       /\ toggles'[k].generation = toggles[k].generation
       /\ toggles'[k].open = TRUE => toggles[k].open = TRUE

LEMMA SyncStays ==
  ASSUME NEW v \in Viewers, OneSync(v), RequestsLast, visit'[v] = visit[v],
         sync'[v] = sync[v], disabled'[v] = disabled[v]
  PROVE  OneSync(v)'
<1>1. \A k : Awaits(k, v)' => Awaits(k, v)
  BY DEF Awaits, RequestsLast
<1> QED
  BY <1>1 DEF OneSync, RequestsLast, Button!Busy

LEMMA ShownStays ==
  ASSUME NEW v \in Viewers, ShowsRight(v), sync'[v] = sync[v], label'[v] = label[v],
         reading'[v] = reading[v]
  PROVE  ShowsRight(v)'
BY DEF ShowsRight, Button!Busy

LEMMA RequestsStay ==
  ASSUME RequestsTyped, UNCHANGED toggles PROVE RequestsLast
BY DEF RequestsTyped, RequestsLast

LEMMA LastTyped == ASSUME RequestsLast PROVE RequestsTyped'
BY DEF RequestsTyped, RequestsLast

\* Requests that last, from dashboards that stay, are none ahead.
LEMMA AheadStays ==
  ASSUME NoneAhead, RequestsLast, RequestsTyped, ButtonsTyped, visit' \in [Viewers -> Nat],
         \A v \in Viewers : visit[v] <= visit'[v]
  PROVE  NoneAhead'
<1> SUFFICES ASSUME NEW k \in DOMAIN toggles'
             PROVE  toggles'[k].generation <= visit'[toggles'[k].viewer]
  BY DEF NoneAhead
<1> DEFINE v == toggles[k].viewer
           g == toggles[k].generation
<1>1. k \in DOMAIN toggles /\ toggles'[k].viewer = v /\ toggles'[k].generation = g
  BY DEF RequestsLast
<1>2. v \in Viewers /\ g \in Nat
  BY <1>1, RequestFields DEF RequestsTyped
<1>3. g <= visit[v]
  BY <1>1 DEF NoneAhead
<1>4. visit[v] \in Nat /\ visit'[v] \in Nat /\ visit[v] <= visit'[v]
  BY <1>2 DEF ButtonsTyped
<1> HIDE DEF v, g
<1>5. g <= visit'[v]
  BY <1>2, <1>3, <1>4
<1> QED
  BY <1>1, <1>5

LEMMA NumberedStays ==
  ASSUME Numbered, RequestsLast, UNCHANGED presses,
         \A v \in Viewers : sync'[v].phase # "none" =>
           sync[v].phase # "none" /\ sync'[v].id = sync[v].id
  PROVE  Numbered'
BY DEF Numbered, RequestsLast

\* A step of the agent or of the world: no dashboard changes.
LEMMA AgentKeeps ==
  ASSUME MicInv, RequestsLast, UNCHANGED <<arriving, reading, label, Button!button>>,
         AgentTyped', slips' \in 0..MaxSlips
  PROVE  MicInv'
<1>1. UNCHANGED <<sync, pending, offers, disabled, visit, presses>>
  BY DEF Button!button
<1>2. ButtonsTyped' /\ RequestsTyped'
  BY <1>1, LastTyped DEF MicInv, ButtonsTyped
<1>3. Numbered'
  BY <1>1, NumberedStays DEF MicInv
<1>4. \A v \in Viewers : visit[v] \in Nat /\ visit[v] <= visit'[v]
  BY <1>1 DEF MicInv, ButtonsTyped
<1>5. NoneAhead'
  BY <1>2, <1>4, AheadStays DEF MicInv, ButtonsTyped
<1>6. ASSUME NEW v \in Viewers PROVE OneSync(v)' /\ ShowsRight(v)'
  BY <1>1, SyncStays, ShownStays DEF MicInv
<1> QED
  BY <1>2, <1>3, <1>5, <1>6 DEF MicInv

LEMMA MishapCounted ==
  ASSUME slips \in 0..MaxSlips, Button!Mishap \/ UNCHANGED slips PROVE slips' \in 0..MaxSlips
BY ButtonAssumed DEF Button!MuteAssumption, Button!Mishap

\* A handler carries out its own request.
LEMMA HandlerWrites ==
  ASSUME RequestsTyped, NEW k \in DOMAIN toggles, NEW r \in Button!Request,
         Sender(r) = Sender(toggles[k]), toggles' = Button!Now(k, r)
  PROVE  RequestsLast
<1>1. /\ DOMAIN toggles' \subseteq DOMAIN toggles
      /\ \A j \in DOMAIN toggles' : toggles'[j] = IF j = k THEN r ELSE toggles[j]
  BY NowOf
<1>2. r.viewer = toggles[k].viewer /\ r.generation = toggles[k].generation
      /\ r.open = toggles[k].open
  BY DEF Sender
<1> QED
  BY <1>1, <1>2 DEF RequestsLast, RequestsTyped

LEMMA AgentStep ==
  ASSUME MicInv, \/ \E k \in 1..MaxPresses : Button!HandlerStep(k)
                 \/ Button!LaneStep \/ Button!ChangedOutside
  PROVE  MicInv'
<1>1. ASSUME NEW k \in 1..MaxPresses, Button!ReadDefault(k) PROVE MicInv'
  <2>1. k \in DOMAIN toggles /\ toggles[k] \in Button!Request
    BY <1>1 DEF Button!ReadDefault, Button!At, MicInv, RequestsTyped
  <2> DEFINE r == [toggles[k] EXCEPT !.step = "set", !.todo = Mics,
                     !.answer = IF DefaultMic \in muted THEN "unmuted" ELSE "muted"]
  <2>2. r \in Button!Request /\ Sender(r) = Sender(toggles[k])
    BY <2>1, RequestRead
  <2>3. toggles' = Button!Now(k, r)
        /\ UNCHANGED <<Button!host, arriving, reading, label, Button!button, slips>>
    BY <1>1 DEF Button!ReadDefault
  <2> HIDE DEF r
  <2>4. RequestsLast
    BY <2>1, <2>2, <2>3, HandlerWrites DEF MicInv
  <2>5. AgentTyped' /\ slips' \in 0..MaxSlips
    BY <2>3 DEF MicInv, AgentTyped, Button!host
  <2> QED
    BY <2>3, <2>4, <2>5, AgentKeeps
<1>2. ASSUME NEW k \in 1..MaxPresses, Button!ToggleDefault(k) PROVE MicInv'
  <2>1. k \in DOMAIN toggles /\ toggles[k] \in Button!Request
    BY <1>2 DEF Button!ToggleDefault, Button!At, MicInv, RequestsTyped
  <2>2. PICK answer \in {"toggled", "failed"} :
          toggles' = Button!Now(k, [toggles[k] EXCEPT !.step = "done", !.answer = answer])
    BY <1>2 DEF Button!ToggleDefault
  <2> DEFINE r == [toggles[k] EXCEPT !.step = "done", !.answer = answer]
  <2>3. r \in Button!Request /\ Sender(r) = Sender(toggles[k])
    BY <2>1, RequestToggled
  <2>4. toggles' = Button!Now(k, r)
    BY <2>2
  <2> HIDE DEF r
  <2>5. RequestsLast
    BY <2>1, <2>3, <2>4, HandlerWrites DEF MicInv
  <2>6. AgentTyped'
    BY <1>2, ButtonAssumed
    DEF Button!ToggleDefault, MicInv, AgentTyped, Button!Flip, Button!MuteAssumption
  <2>7. slips' \in 0..MaxSlips
    BY <1>2, MishapCounted DEF Button!ToggleDefault, MicInv
  <2> QED
    BY <1>2, <2>5, <2>6, <2>7, AgentKeeps DEF Button!ToggleDefault
<1>3. ASSUME NEW k \in 1..MaxPresses, Button!SetSource(k) PROVE MicInv'
  <2>1. k \in DOMAIN toggles /\ toggles[k] \in Button!Request
    BY <1>3 DEF Button!SetSource, Button!At, MicInv, RequestsTyped
  <2>2. PICK m \in toggles[k].todo, ok \in BOOLEAN :
          LET left == toggles[k].todo \ {m}
              bad == IF ok THEN toggles[k].failed ELSE toggles[k].failed \cup {m}
          IN /\ Button!Perhaps(~ok)
             /\ muted' = IF ~ok THEN muted
                         ELSE IF toggles[k].answer = "muted" THEN muted \cup {m}
                         ELSE muted \ {m}
             /\ toggles' = Button!Now(k, [toggles[k] EXCEPT
                  !.todo = left, !.failed = bad,
                  !.step = IF left = {} THEN "done" ELSE @,
                  !.answer = IF bad = Mics THEN "failed" ELSE @])
    BY <1>3 DEF Button!SetSource
  <2> DEFINE left == toggles[k].todo \ {m}
             bad == IF ok THEN toggles[k].failed ELSE toggles[k].failed \cup {m}
             st == IF left = {} THEN "done" ELSE toggles[k].step
             a == IF bad = Mics THEN "failed" ELSE toggles[k].answer
             r == [toggles[k] EXCEPT !.todo = left, !.failed = bad, !.step = st,
                                     !.answer = a]
  <2>3. toggles' = Button!Now(k, r)
    BY <2>2
  <2>4. m \in Mics /\ left \in SUBSET Mics /\ bad \in SUBSET Mics
    BY <2>1, RequestFields
  <2>5. st \in {"done", toggles[k].step} /\ a \in {"failed", toggles[k].answer}
    OBVIOUS
  <2> HIDE DEF left, bad, st, a
  <2>6. r \in Button!Request /\ Sender(r) = Sender(toggles[k])
    BY <2>1, <2>4, <2>5 DEF Button!Request, Sender
  <2> HIDE DEF r
  <2>7. RequestsLast
    BY <2>1, <2>3, <2>6, HandlerWrites DEF MicInv
  <2>8. AgentTyped'
    BY <1>3, <2>2, <2>4 DEF Button!SetSource, MicInv, AgentTyped
  <2>9. slips' \in 0..MaxSlips
    BY <2>2, MishapCounted DEF Button!Perhaps, MicInv
  <2> QED
    BY <1>3, <2>7, <2>8, <2>9, AgentKeeps DEF Button!SetSource
<1>4. ASSUME UNCHANGED toggles, UNCHANGED <<arriving, reading, label, Button!button>>,
             AgentTyped', Button!Mishap \/ UNCHANGED slips
      PROVE  MicInv'
  BY <1>4, RequestsStay, MishapCounted, AgentKeeps DEF MicInv
<1>5. CASE Button!Sample
  <2>1. Button!Aggregate(muted) \in Reports
    BY DEF Button!Aggregate, Reports, Button!Values
  <2>2. AgentTyped'
    BY <1>5, <2>1 DEF Button!Sample, MicInv, AgentTyped, Reports, Button!Values
  <2> QED
    BY <1>4, <1>5, <2>2 DEF Button!Sample
<1>6. CASE Button!Publish
  <2>1. AgentTyped' /\ UNCHANGED <<sync, pending, offers, disabled, visit, presses>>
    BY <1>6 DEF Button!Publish, MicInv, AgentTyped, Reports, Button!button
  <2>2. ButtonsTyped' /\ RequestsTyped' /\ RequestsLast
    BY <1>6, <2>1, RequestsStay, LastTyped DEF Button!Publish, MicInv, AgentTyped, ButtonsTyped
  <2>3. Numbered'
    BY <1>6, <2>1, <2>2, NumberedStays DEF MicInv
  <2>4. NoneAhead'
    BY <1>6, <2>1 DEF Button!Publish, MicInv, NoneAhead
  <2>5. ASSUME NEW v \in Viewers PROVE OneSync(v)' /\ ShowsRight(v)'
    BY <1>6, <2>1, <2>2, SyncStays, ShownStays DEF Button!Publish, MicInv
  <2> QED
    BY <1>6, <2>1, <2>2, <2>3, <2>4, <2>5 DEF Button!Publish, MicInv
<1>7. CASE Button!ChangedOutside
  <2>1. AgentTyped'
    BY <1>7 DEF Button!ChangedOutside, MicInv, AgentTyped, Button!Flip
  <2> QED
    BY <1>4, <1>7, <2>1 DEF Button!ChangedOutside
<1> QED
  BY <1>1, <1>2, <1>3, <1>5, <1>6, <1>7 DEF Button!HandlerStep, Button!LaneStep

-----------------------------------------------------------------------------
\* A step of the dashboard of viewer v, which sends nothing.
LEMMA ViewerKeeps ==
  ASSUME MicInv, NEW v \in Viewers, RequestsLast, UNCHANGED <<Button!host, presses>>,
         ButtonsTyped', Button!Mishap \/ UNCHANGED slips,
         \A w \in Viewers \ {v} :
           /\ sync'[w] = sync[w] /\ disabled'[w] = disabled[w] /\ label'[w] = label[w]
           /\ reading'[w] = reading[w] /\ visit'[w] = visit[w],
         visit[v] <= visit'[v],
         sync'[v].phase # "none" => sync[v].phase # "none" /\ sync'[v].id = sync[v].id,
         OneSync(v)', ShowsRight(v)'
  PROVE  MicInv'
<1>1. RequestsTyped' /\ AgentTyped' /\ slips' \in 0..MaxSlips
  BY LastTyped, MishapCounted DEF MicInv, AgentTyped, Button!host
<1>2. \A w \in Viewers : sync'[w].phase # "none" =>
        sync[w].phase # "none" /\ sync'[w].id = sync[w].id
  OBVIOUS
<1>3. Numbered'
  BY <1>2, NumberedStays DEF MicInv
<1>4. \A w \in Viewers : visit[w] <= visit'[w]
  BY DEF MicInv, ButtonsTyped
<1>5. NoneAhead'
  BY <1>4, AheadStays DEF MicInv, ButtonsTyped
<1>6. ASSUME NEW w \in Viewers PROVE OneSync(w)' /\ ShowsRight(w)'
  BY SyncStays, ShownStays DEF MicInv
<1> QED
  BY <1>1, <1>3, <1>5, <1>6 DEF MicInv

LEMMA ExpectedIsValue ==
  ASSUME NEW v \in Viewers, sync[v] \in Button!Sync,
         NEW answer \in {"muted", "unmuted", "toggled"}
  PROVE  Button!Expected(v, answer) \in Button!Values
BY DEF Button!Expected, Button!Values

\* An answer, a failure or the loss of toggle k reaches the dashboard that sent it.
LEMMA EndsKeeps ==
  ASSUME MicInv, NEW k \in DOMAIN toggles, toggles[k].open,
         NEW v \in Viewers, v = toggles[k].viewer,
         NEW answer \in {"muted", "unmuted", "toggled", "failed"}, Button!Ends(k, answer),
         Button!Mishap \/ UNCHANGED slips
  PROVE  MicInv'
<1> DEFINE s == sync[v]
           r == [toggles[k] EXCEPT !.open = FALSE]
           own == s.phase # "none" /\ s.id = k
<1>1. toggles[k] \in Button!Request /\ toggles[k].open = TRUE
  BY RequestFields DEF MicInv, RequestsTyped
<1>2. r \in Button!Request /\ r.viewer = v /\ r.generation = toggles[k].generation
      /\ r.open = FALSE
  BY <1>1, RequestClosed
<1>3. /\ toggles' = Button!Now(k, r)
      /\ IF ~own THEN UNCHANGED <<sync, label>>
         ELSE IF answer = "failed" THEN Button!EndSync(v, TRUE) ELSE Button!Confirm(v, answer)
      /\ pending' = [pending EXCEPT ![v] = FALSE]
      /\ disabled' = [disabled EXCEPT ![v] = ~offers[v] \/ Button!Busy(sync'[v])]
      /\ UNCHANGED <<Button!host, arriving, reading, offers, visit, presses>>
  BY DEF Button!Ends
<1>4. /\ DOMAIN toggles' \subseteq DOMAIN toggles
      /\ \A j \in DOMAIN toggles' : toggles'[j] = IF j = k THEN r ELSE toggles[j]
  BY <1>3, NowOf
<1>5. RequestsLast
  <2> HIDE DEF r
  <2> QED
    BY <1>2, <1>4 DEF RequestsLast, MicInv, RequestsTyped
<1>6. \A j : Awaits(j, v)' => Awaits(j, v) /\ j # k
  <2> HIDE DEF r
  <2> QED
    BY <1>2, <1>3, <1>4, <1>5 DEF Awaits, RequestsLast
<1>7. ~(k \in DOMAIN toggles' /\ toggles'[k].open = TRUE)
  BY <1>2, <1>4
<1> HIDE DEF r
<1>8. /\ sync \in [Viewers -> Button!Sync] /\ label \in [Viewers -> Button!Values]
      /\ reading \in [Viewers -> Reports]
      /\ pending \in [Viewers -> BOOLEAN] /\ disabled \in [Viewers -> BOOLEAN]
      /\ offers \in [Viewers -> BOOLEAN] /\ visit \in [Viewers -> Nat]
      /\ arriving \in [Viewers -> Reports]
  BY DEF MicInv, ButtonsTyped
<1>9. s \in Button!Sync /\ OneSync(v) /\ ShowsRight(v)
  BY <1>1, <1>8 DEF MicInv
\* Whatever came of it, the button is in sync with it no more, or in a later phase.
<1>10. /\ sync' \in [Viewers -> Button!Sync] /\ label' \in [Viewers -> Button!Values]
       /\ \A w \in Viewers \ {v} : sync'[w] = sync[w] /\ label'[w] = label[w]
       /\ sync'[v].phase # "none" => s.phase # "none" /\ sync'[v].id = s.id
       /\ own => sync'[v].phase # "sending"
       /\ ~own => sync'[v] = s
       /\ ShowsRight(v)'
  <2>1. CASE ~own
    BY <1>3, <1>8, <1>9, <2>1, ShownStays, <1>1
  <2>2. CASE /\ own
             /\ \/ answer = "failed"
                \/ /\ Button!Expected(v, answer) # "unknown"
                   /\ reading[v] \in {Button!Nothing, Button!Expected(v, answer)}
    <3>1. sync' = [sync EXCEPT ![v] = Button!NoSync]
      BY <1>3, <2>2 DEF Button!EndSync, Button!Confirm
    <3>2. /\ label' \in [Viewers -> Button!Values]
          /\ \A w \in Viewers \ {v} : label'[w] = label[w]
          /\ reading[v] # Button!Nothing => label'[v] = reading[v]
      <4>1. CASE answer = "failed"
        BY <1>1, <1>3, <1>8, <2>2, <4>1 DEF Button!EndSync, Reports
      <4>2. CASE answer # "failed"
        <5>1. Button!Expected(v, answer) \in Button!Values
          BY <1>9, <4>2, ExpectedIsValue
        <5>2. label' = [label EXCEPT ![v] = Button!Expected(v, answer)]
          BY <1>3, <2>2, <4>2 DEF Button!Confirm
        <5> QED
          BY <1>1, <1>8, <2>2, <4>2, <5>1, <5>2
      <4> QED
        BY <4>1, <4>2
    <3>3. sync'[v] = Button!NoSync /\ sync' \in [Viewers -> Button!Sync]
          /\ \A w \in Viewers \ {v} : sync'[w] = sync[w]
      BY <1>8, <3>1, NoSyncIsSync
    <3> QED
      BY <1>3, <2>2, <3>2, <3>3, NoSyncIsSync DEF ShowsRight, Button!Busy
  <2>3. CASE own /\ answer # "failed" /\ Button!Expected(v, answer) = "unknown"
    <3>1. sync' = [sync EXCEPT ![v] = [s EXCEPT !.phase = "confirming"]] /\ label' = label
      BY <1>3, <2>3 DEF Button!Confirm
    <3>2. s \in Toggles /\ s.phase = "sending"
      BY <1>1, <1>9, <2>3, SyncFields DEF OneSync, Phases
    <3>3. /\ sync'[v] \in Button!Sync /\ sync'[v].phase = "confirming" /\ sync'[v].from = s.from
          /\ sync'[v].id = s.id
      BY <1>8, <3>1, <3>2, SyncConfirming
    <3>4. sync' \in [Viewers -> Button!Sync] /\ \A w \in Viewers \ {v} : sync'[w] = sync[w]
      BY <1>8, <3>1, <3>3
    <3>5. ShowsRight(v)'
      BY <1>9, <3>1, <3>2, <3>3 DEF ShowsRight, Button!Busy
    <3> QED
      BY <1>8, <2>3, <3>1, <3>2, <3>3, <3>4, <3>5
  <2>4. CASE /\ own /\ answer # "failed" /\ Button!Expected(v, answer) # "unknown"
             /\ reading[v] \notin {Button!Nothing, Button!Expected(v, answer)}
    <3> DEFINE e == Button!Expected(v, answer)
    <3>1. e \in Button!Values
      BY <1>9, <2>4, ExpectedIsValue
    <3>2. /\ label' = [label EXCEPT ![v] = e]
          /\ sync' = [sync EXCEPT ![v] = [s EXCEPT !.phase = "holding", !.expected = e]]
      BY <1>3, <2>4 DEF Button!Confirm
    <3> HIDE DEF e
    <3>3. s \in Toggles
      BY <1>9, <2>4, SyncFields
    <3>4. /\ sync'[v] \in Button!Sync /\ sync'[v].phase = "holding" /\ sync'[v].expected = e
          /\ sync'[v].id = s.id
      BY <1>8, <3>1, <3>2, <3>3, SyncSet DEF Toggles, Phases
    <3>5. /\ sync' \in [Viewers -> Button!Sync] /\ label' \in [Viewers -> Button!Values]
          /\ label'[v] = e
          /\ \A w \in Viewers \ {v} : sync'[w] = sync[w] /\ label'[w] = label[w]
      BY <1>8, <3>1, <3>2, <3>4
    <3>6. ShowsRight(v)'
      BY <3>4, <3>5 DEF ShowsRight, Button!Busy
    <3> QED
      BY <2>4, <3>4, <3>5, <3>6
  <2> QED
    BY <2>1, <2>2, <2>3, <2>4, Zenon
<1>11. OneSync(v)'
  <2>1. Button!Busy(sync'[v]) => disabled'[v] = TRUE
    BY <1>1, <1>3, <1>8
  <2>2. \A j : Awaits(j, v)' => sync'[v].phase = "sending" /\ sync'[v].id = j
    BY <1>6, <1>9, <1>10 DEF OneSync
  <2>3. sync'[v].phase \in {"confirming", "holding"} =>
          ~(sync'[v].id \in DOMAIN toggles' /\ toggles'[sync'[v].id].open = TRUE)
    <3>1. CASE own
      BY <1>7, <1>10, <3>1
    <3>2. CASE ~own
      BY <1>5, <1>9, <1>10, <3>2 DEF OneSync, RequestsLast
    <3> QED
      BY <3>1, <3>2
  <2> QED
    BY <2>1, <2>2, <2>3 DEF OneSync
<1>12. ButtonsTyped'
  <2>1. (~offers[v] \/ Button!Busy(sync'[v])) \in BOOLEAN
    OBVIOUS
  <2> QED
    BY <1>1, <1>3, <1>8, <1>10, <2>1 DEF ButtonsTyped
<1>13. \A w \in Viewers \ {v} : disabled'[w] = disabled[w]
  BY <1>3, <1>8
<1>14. visit[v] <= visit'[v]
  BY <1>1, <1>3, <1>8
<1> QED
  BY <1>1, <1>3, <1>5, <1>10, <1>11, <1>12, <1>13, <1>14, ViewerKeeps

\* A step that sends and answers nothing, of one dashboard: a busy button stays
\* disabled, and what it is in sync with stays or is given up.
LEMMA PaintKeeps ==
  ASSUME MicInv, NEW v \in Viewers, UNCHANGED <<Button!host, toggles, presses, visit>>,
         ButtonsTyped', Button!Mishap \/ UNCHANGED slips,
         \A w \in Viewers \ {v} :
           /\ sync'[w] = sync[w] /\ disabled'[w] = disabled[w] /\ label'[w] = label[w]
           /\ reading'[w] = reading[w],
         sync'[v] = sync[v] \/ (sync'[v] = Button!NoSync /\ sync[v].phase # "sending"),
         Button!Busy(sync'[v]) => disabled'[v] = TRUE,
         ShowsRight(v)'
  PROVE  MicInv'
<1>1. RequestsLast
  BY RequestsStay DEF MicInv
<1>2. OneSync(v)
  BY DEF MicInv
<1>3. \A j : Awaits(j, v)' => Awaits(j, v)
  BY DEF Awaits
<1>4. sync'[v].phase # "none" => sync'[v] = sync[v]
  BY NoSyncIsSync
<1>5. OneSync(v)'
  <2>1. \A j : Awaits(j, v)' => sync'[v].phase = "sending" /\ sync'[v].id = j
    BY <1>2, <1>3 DEF OneSync
  <2>2. sync'[v].phase \in {"confirming", "holding"} =>
          ~(sync'[v].id \in DOMAIN toggles' /\ toggles'[sync'[v].id].open = TRUE)
    BY <1>2, <1>4 DEF OneSync
  <2> QED
    BY <2>1, <2>2 DEF OneSync
<1>6. visit[v] <= visit'[v]
  BY DEF MicInv, ButtonsTyped
<1> QED
  BY <1>1, <1>4, <1>5, <1>6, ViewerKeeps

LEMMA NoSyncIsIdle == ~Button!Busy(Button!NoSync)
BY NoSyncIsSync DEF Button!Busy

LEMMA ReceiveKeeps == ASSUME MicInv, NEW v \in Viewers, Button!Receive(v) PROVE MicInv'
<1> DEFINE s == sync[v]
           paints == CASE s.phase = "none" -> TRUE
                       [] s.phase = "sending" -> FALSE
                       [] s.phase = "holding" -> arriving[v] = s.expected
                       [] s.phase = "confirming" -> arriving[v] # s.from
<1>1. /\ sync \in [Viewers -> Button!Sync] /\ label \in [Viewers -> Button!Values]
      /\ reading \in [Viewers -> Reports]
      /\ disabled \in [Viewers -> BOOLEAN] /\ arriving \in [Viewers -> Reports]
      /\ offers \in [Viewers -> BOOLEAN] /\ pending \in [Viewers -> BOOLEAN]
      /\ OneSync(v) /\ ShowsRight(v)
  BY DEF MicInv, ButtonsTyped
<1>2. s \in Button!Sync /\ s.phase \in Phases \cup {"none"}
      /\ (s.phase = "none" => s = Button!NoSync)
  BY <1>1, SyncFields
<1>3. /\ arriving' = [arriving EXCEPT ![v] = Button!Nothing]
      /\ reading' = [reading EXCEPT ![v] = arriving[v]]
      /\ arriving[v] \in Button!Values
      /\ UNCHANGED <<Button!host, toggles, pending, offers, visit, presses, slips>>
  BY <1>1 DEF Button!Receive, Reports
<1>4. arriving' \in [Viewers -> Reports] /\ reading' \in [Viewers -> Reports]
      /\ reading'[v] = arriving[v] /\ \A w \in Viewers \ {v} : reading'[w] = reading[w]
  BY <1>1, <1>3 DEF Reports
<1>5. CASE paints
  <2>1. s.phase # "sending"
    BY <1>5
  <2>2. /\ sync' = [sync EXCEPT ![v] = Button!NoSync]
        /\ label' = [label EXCEPT ![v] = arriving[v]]
        /\ disabled' = IF s.phase = "none" \/ pending[v] THEN disabled
                       ELSE [disabled EXCEPT ![v] = ~offers[v]]
    BY <1>5 DEF Button!Receive
  <2>3. /\ sync' \in [Viewers -> Button!Sync] /\ sync'[v] = Button!NoSync
        /\ label' \in [Viewers -> Button!Values] /\ label'[v] = arriving[v]
        /\ \A w \in Viewers \ {v} : sync'[w] = sync[w] /\ label'[w] = label[w]
    BY <1>1, <1>3, <2>2, NoSyncIsSync
  <2>4. disabled' \in [Viewers -> BOOLEAN]
        /\ \A w \in Viewers \ {v} : disabled'[w] = disabled[w]
    BY <1>1, <2>2
  <2>5. ButtonsTyped'
    BY <1>3, <1>4, <2>3, <2>4 DEF MicInv, ButtonsTyped
  <2>6. ShowsRight(v)'
    BY <1>4, <2>3, NoSyncIsSync, NoSyncIsIdle DEF ShowsRight
  <2> QED
    BY <1>3, <1>4, <2>1, <2>3, <2>4, <2>5, <2>6, NoSyncIsIdle, PaintKeeps
<1>6. CASE ~paints
  <2>1. UNCHANGED <<sync, label, disabled>>
    BY <1>6 DEF Button!Receive
  <2>2. s.phase # "none"
    BY <1>6
  <2>3. ButtonsTyped'
    BY <1>3, <1>4, <2>1 DEF MicInv, ButtonsTyped
  <2>4. ShowsRight(v)'
    BY <1>1, <2>1, <2>2 DEF ShowsRight, Button!Busy
  <2>5. Button!Busy(sync'[v]) => disabled'[v] = TRUE
    BY <1>1, <2>1 DEF OneSync
  <2> QED
    BY <1>3, <1>4, <2>1, <2>3, <2>4, <2>5, PaintKeeps
<1> QED
  BY <1>5, <1>6

LEMMA SettleKeeps == ASSUME MicInv, NEW v \in Viewers, Button!Settle(v) PROVE MicInv'
<1>1. /\ sync \in [Viewers -> Button!Sync] /\ label \in [Viewers -> Button!Values]
      /\ reading \in [Viewers -> Reports]
      /\ disabled \in [Viewers -> BOOLEAN] /\ offers \in [Viewers -> BOOLEAN]
  BY DEF MicInv, ButtonsTyped
<1>2. /\ sync' = [sync EXCEPT ![v] = Button!NoSync]
      /\ label' = IF reading[v] # Button!Nothing THEN [label EXCEPT ![v] = reading[v]]
                  ELSE label
      /\ disabled' = IF pending[v] THEN disabled ELSE [disabled EXCEPT ![v] = ~offers[v]]
      /\ UNCHANGED <<Button!host, toggles, arriving, reading, pending, offers, visit, presses,
                     slips>>
      /\ sync[v].phase # "sending"
  BY DEF Button!Settle, Button!Settles, Button!EndSync
<1>3. /\ sync' \in [Viewers -> Button!Sync] /\ sync'[v] = Button!NoSync
      /\ \A w \in Viewers \ {v} : sync'[w] = sync[w]
  BY <1>1, <1>2, NoSyncIsSync
<1>4. /\ label' \in [Viewers -> Button!Values]
      /\ (reading[v] # Button!Nothing => label'[v] = reading[v])
      /\ \A w \in Viewers \ {v} : label'[w] = label[w]
  BY <1>1, <1>2 DEF Reports
<1>5. disabled' \in [Viewers -> BOOLEAN] /\ \A w \in Viewers \ {v} : disabled'[w] = disabled[w]
  BY <1>1, <1>2
<1>6. ButtonsTyped'
  BY <1>2, <1>3, <1>4, <1>5 DEF MicInv, ButtonsTyped
<1>7. ShowsRight(v)'
  BY <1>2, <1>3, <1>4, NoSyncIsSync, NoSyncIsIdle DEF ShowsRight
<1> QED
  BY <1>2, <1>3, <1>4, <1>5, <1>6, <1>7, NoSyncIsIdle, PaintKeeps

LEMMA StatusKeeps == ASSUME MicInv, NEW v \in Viewers, Button!Status(v) PROVE MicInv'
<1>1. /\ disabled \in [Viewers -> BOOLEAN] /\ offers \in [Viewers -> BOOLEAN]
      /\ pending \in [Viewers -> BOOLEAN] /\ ShowsRight(v)
  BY DEF MicInv, ButtonsTyped
<1>2. /\ offers' = [offers EXCEPT ![v] = TRUE]
      /\ disabled' = [disabled EXCEPT ![v] = pending[v] \/ Button!Busy(sync[v])]
      /\ UNCHANGED <<Button!host, toggles, arriving, reading, label, sync, pending, visit,
                     presses, slips>>
  BY DEF Button!Status
<1>3. (pending[v] \/ Button!Busy(sync[v])) \in BOOLEAN
  OBVIOUS
<1>4. /\ disabled' \in [Viewers -> BOOLEAN] /\ offers' \in [Viewers -> BOOLEAN]
      /\ \A w \in Viewers \ {v} : disabled'[w] = disabled[w]
      /\ Button!Busy(sync[v]) => disabled'[v] = TRUE
  BY <1>1, <1>2, <1>3
<1>5. ButtonsTyped'
  BY <1>2, <1>4 DEF MicInv, ButtonsTyped
<1>6. ShowsRight(v)'
  BY <1>1, <1>2, ShownStays
<1> QED
  BY <1>2, <1>4, <1>5, <1>6, PaintKeeps

\* A dashboard that returns has sent nothing.
LEMMA ReturnKeeps == ASSUME MicInv, NEW v \in Viewers, Button!Return(v) PROVE MicInv'
<1>1. /\ sync \in [Viewers -> Button!Sync] /\ label \in [Viewers -> Button!Values]
      /\ reading \in [Viewers -> Reports]
      /\ disabled \in [Viewers -> BOOLEAN] /\ offers \in [Viewers -> BOOLEAN]
      /\ pending \in [Viewers -> BOOLEAN] /\ arriving \in [Viewers -> Reports]
      /\ visit \in [Viewers -> Nat] /\ reported \in Reports
  BY DEF MicInv, ButtonsTyped, AgentTyped
<1>2. /\ visit' = [visit EXCEPT ![v] = @ + 1]
      /\ sync' = [sync EXCEPT ![v] = Button!NoSync]
      /\ reading' = [reading EXCEPT ![v] = Button!Nothing]
      /\ label' = [label EXCEPT ![v] = "unknown"]
      /\ disabled' = [disabled EXCEPT ![v] = TRUE]
      /\ UNCHANGED <<Button!host, toggles, presses>> /\ Button!Mishap
  BY DEF Button!Return
<1>3. /\ pending' \in [Viewers -> BOOLEAN] /\ offers' \in [Viewers -> BOOLEAN]
      /\ arriving' \in [Viewers -> Reports]
  BY <1>1 DEF Button!Return
<1>4. visit' \in [Viewers -> Nat] /\ visit'[v] = visit[v] + 1
      /\ visit[v] \in Nat /\ \A w \in Viewers \ {v} : visit'[w] = visit[w]
  BY <1>1, <1>2
<1>5. /\ sync' \in [Viewers -> Button!Sync] /\ sync'[v] = Button!NoSync
      /\ reading' \in [Viewers -> Reports] /\ reading'[v] = Button!Nothing
      /\ label' \in [Viewers -> Button!Values] /\ disabled' \in [Viewers -> BOOLEAN]
      /\ \A w \in Viewers \ {v} :
           /\ sync'[w] = sync[w] /\ reading'[w] = reading[w]
           /\ label'[w] = label[w] /\ disabled'[w] = disabled[w]
  BY <1>1, <1>2, NoSyncIsSync DEF Reports, Button!Values
<1>6. ButtonsTyped'
  BY <1>3, <1>4, <1>5 DEF ButtonsTyped
<1>7. RequestsLast
  BY <1>2, RequestsStay DEF MicInv
<1>8. ASSUME NEW k PROVE ~Awaits(k, v)'
  <2> SUFFICES ASSUME Awaits(k, v)' PROVE FALSE
    OBVIOUS
  <2>1. k \in DOMAIN toggles /\ toggles[k].viewer = v /\ toggles[k].generation = visit'[v]
    BY <1>2 DEF Awaits
  <2>2. toggles[k].generation <= visit[v]
    BY <2>1 DEF MicInv, NoneAhead
  <2> QED
    BY <1>4, <2>1, <2>2
<1>9. OneSync(v)' /\ ShowsRight(v)'
  BY <1>5, <1>8, NoSyncIsSync, NoSyncIsIdle DEF OneSync, ShowsRight
<1>10. visit[v] <= visit'[v]
  BY <1>4
<1> QED
  BY <1>2, <1>4, <1>5, <1>6, <1>7, <1>9, <1>10, NoSyncIsSync, ViewerKeeps

\* A press: the button was not busy, so nothing it sent is waited for.
LEMMA PressKeeps == ASSUME MicInv, NEW v \in Viewers, Button!Press(v) PROVE MicInv'
<1> DEFINE id == presses + 1
<1>1. /\ sync \in [Viewers -> Button!Sync] /\ label \in [Viewers -> Button!Values]
      /\ pending \in [Viewers -> BOOLEAN] /\ disabled \in [Viewers -> BOOLEAN]
      /\ visit \in [Viewers -> Nat]
  BY DEF MicInv, ButtonsTyped
<1>2. /\ ~disabled[v] /\ presses < MaxPresses /\ presses' = id
      /\ toggles' = [k \in DOMAIN toggles \cup {id} |->
                       IF k = id THEN Button!Sent(v) ELSE toggles[k]]
      /\ sync' = [sync EXCEPT ![v] = [phase |-> "sending", from |-> label[v],
                                      expected |-> "unknown", id |-> id]]
      /\ pending' = [pending EXCEPT ![v] = TRUE]
      /\ disabled' = [disabled EXCEPT ![v] = TRUE]
      /\ UNCHANGED <<Button!host, arriving, reading, label, offers, visit, slips>>
  BY DEF Button!Press
<1>3. /\ presses \in Nat /\ MaxPresses \in Nat /\ id \in PressIds /\ presses' \in 0..MaxPresses
      /\ \A k \in 1..presses : k # id /\ k \in 1..id
      /\ id \in 1..id
  BY <1>2, ButtonAssumed DEF MicInv, Numbered, Button!MuteAssumption, PressIds
<1>4. /\ DOMAIN toggles \subseteq 1..presses
      /\ \A w \in Viewers : sync[w].phase # "none" => sync[w].id \in 1..presses
  BY DEF MicInv, Numbered
<1> HIDE DEF id
<1>5. id \notin DOMAIN toggles /\ \A w \in Viewers : sync[w].phase # "none" => sync[w].id # id
  BY <1>3, <1>4
<1>6. Button!Sent(v) \in Button!Request /\ Button!Sent(v).viewer = v
      /\ Button!Sent(v).open = TRUE
      /\ Button!Sent(v).generation = visit[v] /\ visit[v] \in Nat
  BY <1>1, RequestSent
<1>7. /\ DOMAIN toggles' = DOMAIN toggles \cup {id} /\ toggles'[id] = Button!Sent(v)
      /\ \A k \in DOMAIN toggles : toggles'[k] = toggles[k]
  BY <1>2, <1>5
<1>8. /\ sync' \in [Viewers -> Button!Sync] /\ sync'[v].phase = "sending" /\ sync'[v].id = id
      /\ sync'[v].from = label[v]
      /\ \A w \in Viewers \ {v} : sync'[w] = sync[w]
  <2> DEFINE t == [phase |-> "sending", from |-> label[v], expected |-> "unknown", id |-> id]
  <2>1. label[v] \in Button!Values
    BY <1>1
  <2>2. t \in Button!Sync /\ t.phase = "sending" /\ t.from = label[v] /\ t.id = id
    BY <1>3, <2>1, SyncMade
  <2>3. sync' = [sync EXCEPT ![v] = t]
    BY <1>2
  <2> HIDE DEF t
  <2> QED
    BY <1>1, <2>2, <2>3
<1>9. /\ pending' \in [Viewers -> BOOLEAN] /\ disabled' \in [Viewers -> BOOLEAN]
      /\ disabled'[v] = TRUE /\ \A w \in Viewers \ {v} : disabled'[w] = disabled[w]
  BY <1>1, <1>2
<1>10. AgentTyped' /\ ButtonsTyped' /\ slips' \in 0..MaxSlips
  BY <1>2, <1>8, <1>9 DEF MicInv, AgentTyped, ButtonsTyped, Button!host
<1>11. RequestsTyped'
  BY <1>6, <1>7 DEF MicInv, RequestsTyped
<1>12. Numbered'
  <2>1. \A w \in Viewers : sync'[w].phase # "none" => sync'[w].id \in 1..id
    BY <1>3, <1>4, <1>8
  <2> QED
    BY <1>2, <1>3, <1>4, <1>7, <2>1 DEF Numbered
<1>13. NoneAhead'
  <2>1. visit[v] <= visit[v]
    BY <1>6
  <2> QED
    BY <1>2, <1>6, <1>7, <2>1 DEF MicInv, NoneAhead
<1>14. ~Button!Busy(sync[v]) /\ OneSync(v)
  BY <1>1, <1>2 DEF MicInv, OneSync
<1>15. \A k : ~Awaits(k, v)
  BY <1>14 DEF OneSync, Button!Busy
<1>16. ASSUME NEW w \in Viewers, NEW k, Awaits(k, w)' PROVE Awaits(k, w) \/ (k = id /\ w = v)
  BY <1>2, <1>6, <1>7, <1>16 DEF Awaits
<1>17. OneSync(v)' /\ ShowsRight(v)'
  <2>1. \A k : Awaits(k, v)' => sync'[v].phase = "sending" /\ sync'[v].id = k
    BY <1>8, <1>15, <1>16
  <2> QED
    BY <1>2, <1>8, <1>9, <2>1 DEF OneSync, ShowsRight, Button!Busy
<1>18. ASSUME NEW w \in Viewers \ {v} PROVE OneSync(w)' /\ ShowsRight(w)'
  <2>1. OneSync(w) /\ ShowsRight(w) /\ sync'[w] = sync[w] /\ disabled'[w] = disabled[w]
    BY <1>8, <1>9 DEF MicInv
  <2>2. \A k : Awaits(k, w)' => Awaits(k, w)
    BY <1>16
  <2>3. sync[w].phase # "none" => sync[w].id # id
    BY <1>5
  <2>4. OneSync(w)'
    BY <1>7, <2>1, <2>2, <2>3 DEF OneSync
  <2>5. ShowsRight(w)'
    BY <1>2, <2>1, ShownStays
  <2> QED
    BY <2>4, <2>5
<1> QED
  BY <1>10, <1>11, <1>12, <1>13, <1>17, <1>18 DEF MicInv

\* Every step of a handler, of the lane and of a dashboard keeps the invariant.
LEMMA MicStep == MicInv /\ [Button!Next]_(Button!vars) => MicInv'
<1> SUFFICES ASSUME MicInv, [Button!Next]_(Button!vars) PROVE MicInv'
  OBVIOUS
<1>1. ASSUME NEW k \in 1..MaxPresses, Button!Answered(k) PROVE MicInv'
  <2>1. k \in DOMAIN toggles /\ toggles[k] \in Button!Request /\ toggles[k].open
        /\ Button!Ends(k, toggles[k].answer) /\ UNCHANGED slips
    BY <1>1 DEF Button!Answered, Button!At, MicInv, RequestsTyped
  <2> QED
    BY <2>1, RequestFields, EndsKeeps
<1>2. ASSUME NEW k \in 1..MaxPresses, Button!Lost(k) PROVE MicInv'
  <2>1. k \in DOMAIN toggles /\ toggles[k] \in Button!Request /\ toggles[k].open
        /\ Button!Ends(k, "failed") /\ Button!Mishap
    BY <1>2 DEF Button!Lost, MicInv, RequestsTyped
  <2> QED
    BY <2>1, RequestFields, EndsKeeps
<1>3. CASE \/ \E k \in 1..MaxPresses : Button!HandlerStep(k)
           \/ Button!LaneStep \/ Button!ChangedOutside
  BY <1>3, AgentStep
<1>4. ASSUME NEW v \in Viewers,
             \/ Button!Press(v) \/ Button!Receive(v) \/ Button!Settle(v)
             \/ Button!Status(v) \/ Button!Return(v)
      PROVE  MicInv'
  BY <1>4, PressKeeps, ReceiveKeeps, SettleKeeps, StatusKeeps, ReturnKeeps
<1>5. CASE UNCHANGED Button!vars
  <2>1. UNCHANGED toggles /\ UNCHANGED <<arriving, reading, label, Button!button>>
        /\ UNCHANGED slips /\ AgentTyped'
    BY <1>5 DEF Button!vars, Button!host, MicInv, AgentTyped
  <2> QED
    BY <2>1, RequestsStay, MishapCounted, AgentKeeps DEF MicInv
<1> QED
  BY <1>1, <1>2, <1>3, <1>4, <1>5 DEF Button!Next

LEMMA MicInit == Button!Init => MicInv
<1> SUFFICES ASSUME Button!Init PROVE MicInv
  OBVIOUS
<1>1. DOMAIN toggles = {}
  BY DEF Button!Init
<1>2. AgentTyped /\ RequestsTyped
  BY <1>1 DEF Button!Init, AgentTyped, RequestsTyped, Reports
<1>3. ButtonsTyped
  BY NoSyncIsSync DEF Button!Init, ButtonsTyped, Reports, Button!Values
<1>4. presses \in 0..MaxPresses /\ slips \in 0..MaxSlips
  BY ButtonAssumed DEF Button!Init, Button!MuteAssumption
<1>5. \A v \in Viewers : sync[v] = Button!NoSync /\ reading[v] = Button!Nothing
  BY DEF Button!Init
<1>6. Numbered /\ NoneAhead
  BY <1>1, <1>4, <1>5, NoSyncIsSync DEF Numbered, NoneAhead
<1>7. \A v \in Viewers : OneSync(v) /\ ShowsRight(v)
  BY <1>1, <1>5, NoSyncIsSync, NoSyncIsIdle DEF OneSync, ShowsRight, Awaits
<1> QED
  BY <1>2, <1>3, <1>4, <1>6, <1>7 DEF MicInv

LEMMA ButtonSizes == ASSUME NEW S PROVE Button!Cardinality(S) = Cardinality(S)
BY Zenon DEF Button!Cardinality, Cardinality

\* Two toggles that a button waits for would both be the one it is in sync with.
LEMMA MicSound ==
  MicInv => /\ Button!TypeOK /\ Button!ShownIsReported /\ Button!ToggleNotPaintedOver
            /\ Button!OneToggleAtATime
<1> SUFFICES ASSUME MicInv
             PROVE  /\ Button!TypeOK /\ Button!ShownIsReported /\ Button!ToggleNotPaintedOver
                    /\ Button!OneToggleAtATime
  OBVIOUS
<1>1. Button!TypeOK
  BY DEF MicInv, AgentTyped, RequestsTyped, ButtonsTyped, Numbered, Button!TypeOK, Reports
<1>2. Button!ShownIsReported /\ Button!ToggleNotPaintedOver
  BY DEF MicInv, ShowsRight, Button!ShownIsReported, Button!ToggleNotPaintedOver
<1>3. ASSUME NEW v \in Viewers PROVE Cardinality(Button!InFlight(v)) <= 1
  <2>1. Button!InFlight(v) \subseteq {sync[v].id}
    <3>1. \A k : Awaits(k, v) => sync[v].id = k
      BY DEF MicInv, OneSync
    <3>2. \A k \in Button!InFlight(v) : Awaits(k, v)
      BY DEF Button!InFlight, Awaits, MicInv, RequestsTyped, Button!Request
    <3> QED
      BY <3>1, <3>2
  <2>2. IsFiniteSet({sync[v].id}) /\ Cardinality({sync[v].id}) = 1
    BY FS_Singleton
  <2> QED
    BY <2>1, <2>2, FS_Subset
<1> QED
  BY <1>1, <1>2, <1>3, ButtonSizes DEF Button!OneToggleAtATime

-----------------------------------------------------------------------------
(* The camera switch, on its own.                                           *)

\* The invariant holds throughout.
THEOREM CameraInvariance == Spec => []CameraInv
<1>1. QED
  BY CameraInit, CameraStep, PTL DEF Spec

\* Type correctness of the camera switch.
THEOREM CameraTypeCorrect == Spec => []TypeOK
<1>1. CameraInv => TypeOK
  BY DEF CameraInv
<1>2. QED
  BY CameraInvariance, <1>1, PTL

\* Whatever fails or crashes, a camera the agent keeps off is in the journal
\* file: saveJournal comes before SetCamera and the record outlives the
\* disabled state.
THEOREM AlwaysRestorable == Spec => []DisabledIsRecorded
<1>1. CameraInv => DisabledIsRecorded
  BY DEF CameraInv
<1>2. QED
  BY CameraInvariance, <1>1, PTL

\* The agent never turns on a camera that was off before it came.
THEOREM ForeignNeverTouched == Spec => []ForeignStaysOff
<1>1. CameraInv => ForeignStaysOff
  BY DEF CameraInv
<1>2. QED
  BY CameraInvariance, <1>1, PTL

\* The journal in memory is the journal on disk.
THEOREM MemoryIsDisk == Spec => []MemoryMatchesDisk
<1>1. CameraInv => MemoryMatchesDisk
  BY DEF CameraInv
<1>2. QED
  BY CameraInvariance, <1>1, PTL

\* What the dashboard reads while nobody is at work never hides an outstanding
\* restore, whatever failed, crashed or was unplugged.
THEOREM PublishedAlwaysCurrent == Spec => []PublishedIsCurrent
<1>1. Init => PublishInv
  BY DEF Init, PublishInv, PublishedIsCurrent
<1>2. PublishInv => PublishedIsCurrent
  BY DEF PublishInv
<1>3. QED
  BY <1>1, <1>2, NextPublished, PTL DEF Spec

-----------------------------------------------------------------------------
(* The host: each part has its steps, and the others stay as they are.      *)

\* A part that runs takes steps of its own module, and the others keep their state.
LEMMA HostSteps ==
  [HostNext]_hostVars =>
    /\ [Next]_vars /\ [Checker!Next]_(Checker!vars) /\ [Order!Next]_versionVars
    /\ [Codex!Next]_(Codex!vars) /\ [Send!Next]_(Send!vars) /\ [Page!Next]_(Page!vars)
    /\ [Button!Next]_(Button!vars)
<1> SUFFICES ASSUME [HostNext]_hostVars
             PROVE  /\ [Next]_cameraVars /\ [Checker!Next]_checkerVars
                    /\ [Order!Next]_versionVars /\ [Codex!Next]_codexVars
                    /\ [Send!Next]_sendVars /\ [Page!Next]_pageVars /\ [Button!Next]_micVars
  BY
  DEF cameraVars, checkerVars, codexVars, sendVars, pageVars, micVars, Checker!vars,
      Checker!process, Checker!state, Checker!checker, Checker!updates, Codex!vars,
      Send!vars, Page!vars, Page!view, Page!source, Page!fetches, Page!display, Button!vars,
      Button!host, Button!button
<1>1. CASE UNCHANGED hostVars
  BY <1>1 DEF hostVars, updateVars, viewVars
<1>2. CASE HostNext
  BY <1>2 DEF HostNext, OthersKept
<1> QED
  BY <1>1, <1>2

\* The settings in memory are those on disk, two dashboards that update at once do
\* not start two helpers, and a failed attempt does not keep the slot, for any
\* number of requests (settings.go, update.go).
THEOREM UpdatesAreSound == HostSpec => []UpdatesSound
<1>1. HostInit => CheckerInv
  BY CheckerInit DEF HostInit
<1>2. CheckerInv /\ [HostNext]_hostVars => CheckerInv'
  BY HostSteps, CheckerStep
<1>3. CheckerInv => UpdatesSound
  BY DEF CheckerInv, UpdatesSound
<1> QED
  BY <1>1, <1>2, <1>3, PTL DEF HostSpec

\* However releases are published, renamed and withdrawn, a chain of updates of any
\* length only goes forward, in the precedence of semantic versioning (update.go).
THEOREM VersionsAreOrdered == HostSpec => []VersionsOrdered
<1>1. HostInit => VersionInv
  BY VersionInit DEF HostInit
<1>2. VersionInv /\ [HostNext]_hostVars => VersionInv'
  BY HostSteps, VersionStep
<1>3. VersionInv => VersionsOrdered
  BY VersionSound DEF VersionsOrdered
<1> QED
  BY <1>1, <1>2, <1>3, PTL DEF HostSpec

\* Whatever scans and polls fail, are cancelled or come late, what neither of them
\* has refreshed for the limit is shown as stale (token_usage.go, codex_quota.go).
THEOREM BrokenAlwaysAges == HostSpec => []BrokenAgesToStale
<1>1. HostInit => CodexInv
  BY CodexInit DEF HostInit
<1>2. CodexInv /\ [HostNext]_hostVars => CodexInv'
  BY HostSteps, CodexStep
<1>3. CodexInv => BrokenAgesToStale
  BY CodexSound DEF BrokenAgesToStale
<1> QED
  BY <1>1, <1>2, <1>3, PTL DEF HostSpec

\* No CLI process is left behind: one lives only while a lookup waits for it, however
\* the lookup ends and whenever Stop comes (codex_quota.go).
THEOREM NoProcessLeft == HostSpec => []Codex!NoChildLeft
<1>1. HostInit => CodexInv
  BY CodexInit DEF HostInit
<1>2. CodexInv /\ [HostNext]_hostVars => CodexInv'
  BY HostSteps, CodexStep
<1>3. CodexInv => Codex!NoChildLeft
  BY DEF CodexInv
<1> QED
  BY <1>1, <1>2, <1>3, PTL DEF HostSpec

\* However answers, frames, failures and switches interleave, no host's readings are
\* shown under another's name and there is one source for them; however requests
\* are answered, lost and overtaken, the button shows nothing that was sampled before
\* its toggle as what came of it (app.js, control_linux.go).
THEOREM DashboardIsHonest == HostSpec => []DashboardHonest
<1> DEFINE Both == PageInv /\ MicInv
<1>1. HostInit => Both
  BY PageInit, MicInit DEF HostInit
<1>2. Both /\ [HostNext]_hostVars => Both'
  BY HostSteps, PageStep, MicStep
<1>3. Both => DashboardHonest
  BY PageSound, MicSound DEF DashboardHonest
<1> QED
  BY <1>1, <1>2, <1>3, PTL DEF HostSpec

\* The second attempt of coalesceSend always finds the channel empty, for any number
\* of lanes: its default case, which would discard the newest snapshot, is never
\* taken (sampler.go).
THEOREM DrainedStaysEmptyAlways == HostSpec => []Send!DrainedStaysEmpty
<1>1. HostInit => Send!IInv
  BY SendInit DEF HostInit
<1>2. Send!IInv /\ [HostNext]_hostVars => Send!IInv'
  BY HostSteps, SendStep
<1>3. Send!IInv => Send!DrainedStaysEmpty
  BY DEF Send!IInv
<1> QED
  BY <1>1, <1>2, <1>3, PTL DEF HostSpec

\* broadcast and coalesceSend implement the mailbox in which the newest snapshot
\* wins, whatever the number of lanes and however the handler interleaves (sampler.go).
THEOREM ImplementsMailbox == HostSpec => MailboxSpec
<1>1. HostInit => Send!IInv /\ Send!Mailbox!Init
  BY SendInit, InitMailbox DEF HostInit
<1>2. Send!IInv /\ [HostNext]_hostVars => Send!IInv'
  BY HostSteps, SendStep
<1>3. Send!IInv /\ [HostNext]_hostVars => [Send!Mailbox!Next]_<<Send!Slot, taken>>
  BY HostSteps, StepMailbox
<1> QED
  BY <1>1, <1>2, <1>3, PTL DEF HostSpec, MailboxSpec, Send!MailboxSpec, Send!Mailbox!Spec
=============================================================================

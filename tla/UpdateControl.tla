--------------------------- MODULE UpdateControl ---------------------------
(***************************************************************************)
(* The settings of the dashboard and the update checker they steer:        *)
(* RuntimeState.UpdateSettings (settings.go), which saves the settings and *)
(* then, outside its lock, switches the checker; the checker's background  *)
(* loop and ApplyNow (update.go); and the start of the agent (main.go),    *)
(* which creates the checker from the -no-update-check flag.               *)
(*                                                                         *)
(* The channel has a release newer than the agent or not yet.  A settings  *)
(* value is the update switch and one other field.                         *)
(***************************************************************************)
EXTENDS Integers, SettingsValues

CONSTANTS
  Posters,      \* handlers of POST /api/settings
  Appliers      \* handlers of POST /api/update

VARIABLES
  hardOff,    \* -no-update-check or SYSMON_UPDATE_CHECK=0 for this host
  up,         \* whether it runs
  file,       \* the settings file
  settings,   \* RuntimeState.settings
  switching,  \* what each poster has yet to pass to SetEnabled
  enabled,    \* UpdateChecker.enabled
  loop,       \* where the checker's loop is
  got,        \* whether the loop was told of a newer release
  cached,     \* UpdateChecker.cached.Available
  released,   \* whether the channel has a newer release
  applying,   \* UpdateChecker.applying
  apply,      \* where each applier is
  helpers,    \* history: helpers spawned by this process
  called      \* history: this process contacted the release channel

process == <<up, hardOff>>
state == <<file, settings, switching>>
checker == <<enabled, loop, got, cached>>
updates == <<applying, apply, helpers>>
vars == <<process, state, checker, released, updates, called>>

TypeOK ==
  /\ hardOff \in BOOLEAN
  /\ up \in BOOLEAN
  /\ file \in Settings \cup {Missing, Damaged}
  /\ settings \in Settings
  /\ switching \in [Posters -> BOOLEAN \cup {None}]
  /\ enabled \in BOOLEAN
  /\ loop \in {"none", "wait", "fetch", "store"}
  /\ got \in BOOLEAN /\ cached \in BOOLEAN /\ released \in BOOLEAN
  /\ applying \in BOOLEAN
  /\ apply \in [Appliers -> {"idle", "claim", "fetch", "download", "spawn"}]
  /\ helpers \in Nat
  /\ called \in BOOLEAN

\* What a process that is not running holds.
Blank ==
  /\ settings' = Defaults
  /\ switching' = [p \in Posters |-> None]
  /\ enabled' = FALSE /\ loop' = "none" /\ got' = FALSE /\ cached' = FALSE
  /\ applying' = FALSE /\ apply' = [a \in Appliers |-> "idle"]
  /\ helpers' = 0 /\ called' = FALSE

Init ==
  /\ hardOff \in BOOLEAN
  /\ up = FALSE
  /\ file \in Settings \cup {Missing, Damaged}
  /\ settings = Defaults
  /\ switching = [p \in Posters |-> None]
  /\ enabled = FALSE /\ loop = "none" /\ got = FALSE /\ cached = FALSE
  /\ released = FALSE
  /\ applying = FALSE /\ apply = [a \in Appliers |-> "idle"]
  /\ helpers = 0 /\ called = FALSE

-----------------------------------------------------------------------------
\* main: the settings are loaded, and a missing or damaged file is replaced by
\* the defaults; the checker is enabled by the flag alone, and its loop is
\* launched if it is.
StartAgent ==
  /\ ~up
  /\ up' = TRUE
  /\ settings' = IF file \in Settings THEN file ELSE Defaults
  /\ file' = settings'
  /\ enabled' = ~hardOff
  /\ loop' = IF hardOff THEN "none" ELSE "wait"
  /\ UNCHANGED <<hardOff, switching, got, cached, released, updates, called>>

\* The process ends, killed or stopped.  The settings file is not synced, so
\* the host going down with it may leave it damaged.
AgentGone ==
  /\ up
  /\ up' = FALSE
  /\ file' \in {file, Damaged}
  /\ Blank
  /\ UNCHANGED <<hardOff, released>>

\* UpdateSettings under the lock: merge, save, adopt.  A value that cannot be
\* saved changes nothing.
Post(p) ==
  /\ up
  /\ switching[p] = None
  /\ \E saved, check \in BOOLEAN, panel \in Panels :
       IF ~saved THEN UNCHANGED state
       ELSE /\ settings' \in {[settings EXCEPT !.check = check],
                            [settings EXCEPT !.panel = panel]}
            /\ file' = settings'
            /\ switching' = [switching EXCEPT ![p] = settings'.check]
  /\ UNCHANGED <<process, checker, released, updates, called>>

\* UpdateSettings after the lock: the live checker follows the setting.
SetEnabled(p) ==
  /\ switching[p] # None
  /\ enabled' = switching[p]
  /\ switching' = [switching EXCEPT ![p] = None]
  /\ UNCHANGED <<process, file, settings, loop, got, cached, released, updates, called>>

-----------------------------------------------------------------------------
\* checkOnce, with the flag read before the request is sent.
LoopOff ==
  /\ loop = "wait"
  /\ ~enabled
  /\ cached' = FALSE
  /\ UNCHANGED <<process, state, enabled, loop, got, released, updates, called>>

LoopAsks ==
  /\ loop = "wait"
  /\ enabled
  /\ loop' = "fetch"
  /\ called' = TRUE
  /\ UNCHANGED <<process, state, enabled, got, cached, released, updates>>

LoopAnswered ==
  /\ loop = "fetch"
  /\ loop' = "store"
  /\ got' = released
  /\ UNCHANGED <<process, state, enabled, cached, released, updates, called>>

\* An error keeps the last known result.
LoopFails ==
  /\ loop = "fetch"
  /\ loop' = "wait"
  /\ UNCHANGED <<process, state, enabled, got, cached, released, updates, called>>

\* Mutant of LoopStores: the answer is not cached.
LoopForgets ==
  /\ loop = "store"
  /\ loop' = "wait"
  /\ got' = FALSE
  /\ UNCHANGED <<process, state, enabled, cached, released, updates, called>>

LoopStores ==
  /\ loop = "store"
  /\ loop' = "wait"
  /\ cached' = got
  /\ got' = FALSE
  /\ UNCHANGED <<process, state, enabled, released, updates, called>>

-----------------------------------------------------------------------------
At(a, from, to) == apply[a] = from /\ apply' = [apply EXCEPT ![a] = to]

\* ApplyNow: the switch, then the single-flight slot, then the channel, the
\* download with its verification, and the helper.
ApplyEnters(a) ==
  /\ up /\ enabled
  /\ At(a, "idle", "claim")
  /\ UNCHANGED <<process, state, checker, released, applying, helpers, called>>

\* Mutant of ApplyClaims: the slot is claimed without a look at it.
ApplyClaimsTwice(a) ==
  /\ At(a, "claim", "fetch")
  /\ applying' = TRUE
  /\ called' = TRUE
  /\ UNCHANGED <<process, state, checker, released, helpers>>

ApplyClaims(a) ==
  /\ At(a, "claim", "fetch")
  /\ ~applying
  /\ applying' = TRUE
  /\ called' = TRUE
  /\ UNCHANGED <<process, state, checker, released, helpers>>

ApplyRefused(a) ==
  /\ At(a, "claim", "idle")
  /\ applying
  /\ UNCHANGED <<process, state, checker, released, applying, helpers, called>>

ApplyFinds(a) ==
  /\ At(a, "fetch", "download")
  /\ released
  /\ UNCHANGED <<process, state, checker, released, applying, helpers, called>>

ApplyVerifies(a) ==
  /\ At(a, "download", "spawn")
  /\ UNCHANGED <<process, state, checker, released, applying, helpers, called>>

\* No newer release, no asset, network, checksum, staging or spawn failure:
\* the slot is released.
ApplyFails(a) ==
  /\ apply[a] \in {"fetch", "download", "spawn"}
  /\ At(a, apply[a], "idle")
  /\ applying' = FALSE
  /\ UNCHANGED <<process, state, checker, released, helpers, called>>

\* With the helper spawned the slot stays claimed and the offer is withdrawn.
ApplySpawns(a) ==
  /\ At(a, "spawn", "idle")
  /\ helpers' = helpers + 1
  /\ cached' = FALSE
  /\ UNCHANGED <<process, state, enabled, loop, got, released, applying, called>>

Publish ==
  /\ ~released
  /\ released' = TRUE
  /\ UNCHANGED <<process, state, checker, updates, called>>

-----------------------------------------------------------------------------
LoopStep == LoopOff \/ LoopAsks \/ LoopAnswered \/ LoopFails \/ LoopStores

Next ==
  \/ StartAgent \/ AgentGone
  \/ \E p \in Posters : Post(p) \/ SetEnabled(p)
  \/ LoopStep
  \/ \E a \in Appliers :
       \/ ApplyEnters(a) \/ ApplyClaims(a) \/ ApplyRefused(a) \/ ApplyFinds(a)
       \/ ApplyVerifies(a) \/ ApplyFails(a) \/ ApplySpawns(a)
  \/ Publish

Spec == Init /\ [][Next]_vars

\* The ticker keeps the loop going, a request ends by its deadline, and the
\* channel is not unreachable for ever.
FairSpec == Spec /\ WF_vars(LoopStep) /\ SF_vars(LoopAnswered)

-----------------------------------------------------------------------------
\* What the dashboard is told is what a restart would bring back: the settings
\* in memory are the settings on disk, whichever saves failed.
SettingsAreSaved == up => settings = file

\* Two dashboards that update at once do not start two helpers.
OneHelper == helpers <= 1

\* A failed attempt does not block the next one: the slot is claimed only by an
\* attempt under way or by one that spawned its helper.
SlotNotLeaked ==
  applying => helpers > 0 \/ \E a \in Appliers : apply[a] \in {"fetch", "download", "spawn"}

\* A checker that stays enabled notices a release.
Escape == ~up \/ ~enabled \/ helpers > 0
ReleaseNoticed == (released /\ loop # "none") ~> (cached \/ Escape)

\* -no-update-check wins over the setting: no call to the channel is made.
HardOffWins == hardOff => ~called
=============================================================================

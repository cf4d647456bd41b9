----------------------------- MODULE UpdateSwap -----------------------------
(***************************************************************************)
(* The in-place update of the Windows service: the agent stages a verified *)
(* binary and spawns a detached helper (update.go, ApplyNow), which stops  *)
(* the service, moves the live binary aside, copies the new one in, starts *)
(* the service and waits for readiness, and undoes all of it on a failure  *)
(* (update_swap.go).  Every operation of the helper may fail, the helper   *)
(* may die and the host may reboot between any two steps.                  *)
(*                                                                         *)
(* Binaries are versions; a copy that was interrupted is Partial.  A file  *)
(* that is the image of a running process can be renamed, not removed.     *)
(***************************************************************************)
EXTENDS Integers

CONSTANTS
  MaxVersion,  \* the versions are 0 .. MaxVersion; 0 is installed at first
  Partial,     \* a file with part of a binary
  Absent       \* no file

ASSUME VersionsAssumption == MaxVersion \in Nat \ {0}
ASSUME MarksAssumption == Partial \notin Nat /\ Absent \notin Nat /\ Partial # Absent

VARIABLES
  bad,         \* the versions that never become ready
  live,        \* what is at the path of the service's binary
  backup,      \* what is at the path of the rollback copy
  staged,      \* the verified download
  svc,         \* what the service manager reports
  lingering,   \* the paths of images of processes that reported STOPPED
               \* and have yet to exit
  applying,    \* UpdateChecker.applying of the running agent
  pc,          \* where the helper is
  prev,        \* the version the helper found live
  outcome,     \* what the helper reported last
  startTried,  \* whether this helper asked for a start after its last stop
  doomed,      \* the rollback path is queued for deletion at the next boot
  swept        \* history: a boot deleted the only copy of prev

files == <<live, backup, staged>>
agent == <<svc, lingering, applying>>
helper == <<pc, prev, outcome, startTried>>
fate == <<doomed, swept>>
vars == <<bad, files, agent, helper, fate>>

Versions == 0 .. MaxVersion
Contents == Versions \cup {Partial, Absent}
Outcomes == {"none", "ok", "rolled back", "restored", "rollback failed",
             "not stopped", "abandoned"}

TypeOK ==
  /\ bad \subseteq Versions \ {0}
  /\ live \in Contents /\ backup \in Contents /\ staged \in Versions \cup {Absent}
  /\ svc \in {"running", "stopped"}
  /\ lingering \subseteq {"live", "backup"}
  /\ applying \in BOOLEAN
  /\ pc \in {"none", "stop", "sweep", "set aside", "copy", "copying", "start",
             "wait ready", "clean up", "undo stop", "undo remove",
             "undo rename", "undo start"}
  /\ prev \in Versions
  /\ outcome \in Outcomes
  /\ startTried \in BOOLEAN
  /\ doomed \in BOOLEAN /\ swept \in BOOLEAN

Init ==
  /\ bad \in SUBSET (Versions \ {0})
  /\ live = 0 /\ backup = Absent /\ staged = Absent
  /\ svc = "running" /\ lingering = {} /\ applying = FALSE
  /\ pc = "none" /\ prev = 0 /\ outcome = "none" /\ startTried = FALSE
  /\ doomed = FALSE /\ swept = FALSE

At(from, to) == pc = from /\ pc' = to
Done(result) == pc' = "none" /\ outcome' = result /\ UNCHANGED <<prev, startTried>>
Goto(from, to) == At(from, to) /\ UNCHANGED <<prev, outcome, startTried>>

-----------------------------------------------------------------------------
\* StopAndWait: STOPPED may be reported while the process still exits.
StopService ==
  /\ svc' = "stopped"
  /\ lingering' \in IF svc = "running" THEN {lingering, lingering \cup {"live"}}
                    ELSE {lingering}
  /\ applying' = FALSE

\* It gives up on a query error at once or, when the stop takes too long,
\* after a timeout; the service may stop all the same.
StopFails == UNCHANGED agent \/ StopService

\* A new agent process starts with the single-flight guard released.
StartService ==
  /\ live \in Versions
  /\ svc' = "running"
  /\ applying' = FALSE
  /\ UNCHANGED lingering

\* The helper runs from the file it set aside.
HelperImage == IF pc \in {"none", "stop", "sweep", "set aside"} THEN "live" ELSE "backup"
Locked(path) ==
  \/ path \in lingering \/ path = HelperImage
  \/ path = "live" /\ svc = "running"

-----------------------------------------------------------------------------
\* ApplyNow: a newer release is verified and staged, the helper spawned.  An agent
\* spawns one at most (UpdateControl); that an agent started by a helper spawns
\* another before that helper has ended is left out.
Spawn ==
  /\ svc = "running" /\ ~applying
  /\ pc = "none"
  /\ \E v \in Versions : v > live /\ staged' = v
  /\ applying' = TRUE
  /\ pc' = "stop" /\ prev' = live /\ outcome' = "none" /\ startTried' = FALSE
  /\ swept' = FALSE
  /\ UNCHANGED <<bad, live, backup, svc, lingering, doomed>>

\* The helper refuses to begin without sc.exe or a queryable service.
Refuse ==
  /\ pc = "stop"
  /\ Done("not stopped")
  /\ UNCHANGED <<bad, files, agent, fate>>

\* Mutant of Stop: the stop is requested and not waited for.
StopUnawaited ==
  /\ Goto("stop", "sweep")
  /\ UNCHANGED <<bad, files, agent, fate>>

Stop ==
  /\ Goto("stop", "sweep")
  /\ StopService
  /\ UNCHANGED <<bad, files, fate>>

StopTimesOut ==
  /\ pc = "stop"
  /\ Done("not stopped")
  /\ StopFails
  /\ UNCHANGED <<bad, files, fate>>

\* A rollback copy of an earlier, interrupted run is removed.
Sweep ==
  /\ Goto("sweep", "set aside")
  /\ backup # Absent => ~Locked("backup")
  /\ backup' = Absent
  /\ UNCHANGED <<bad, live, staged, agent, fate>>

SweepFails ==
  /\ pc = "sweep"
  /\ backup # Absent
  /\ Done("abandoned")
  /\ UNCHANGED <<bad, files, agent, fate>>

SetAside ==
  /\ Goto("set aside", "copy")
  /\ live # Absent
  /\ backup' = live /\ live' = Absent
  /\ lingering' = IF "live" \in lingering THEN {"backup"} ELSE {}
  /\ UNCHANGED <<bad, staged, svc, applying, fate>>

\* Nothing was modified: the service is started again, whatever comes of it.
SetAsideFails ==
  /\ pc = "set aside"
  /\ pc' = "none" /\ outcome' = "abandoned" /\ startTried' = TRUE
  /\ \/ StartService \/ UNCHANGED agent
  /\ UNCHANGED <<bad, files, prev, fate>>

\* copyFileContents truncates the target, writes it and syncs it.
CopyBegins ==
  /\ Goto("copy", "copying")
  /\ live' = Partial
  /\ UNCHANGED <<bad, backup, staged, agent, fate>>

CopyEnds ==
  /\ Goto("copying", "start")
  /\ live' = staged
  /\ UNCHANGED <<bad, backup, staged, agent, fate>>

CopyFails ==
  /\ pc \in {"copy", "copying"}
  /\ Goto(pc, "undo stop")
  /\ UNCHANGED <<bad, files, agent, fate>>

\* Mutants of StartNew: success without waiting for readiness, and a rollback
\* copy dropped as soon as the new service is asked to start.
StartNewUnchecked ==
  /\ At("start", "clean up")
  /\ StartService
  /\ startTried' = TRUE
  /\ UNCHANGED <<bad, files, prev, outcome, fate>>
StartNewDropsBackup ==
  /\ At("start", "wait ready")
  /\ StartService
  /\ backup' = Absent
  /\ startTried' = TRUE
  /\ UNCHANGED <<bad, live, staged, prev, outcome, fate>>

StartNew ==
  /\ At("start", "wait ready")
  /\ StartService
  /\ startTried' = TRUE
  /\ UNCHANGED <<bad, files, prev, outcome, fate>>

StartNewFails ==
  /\ At("start", "undo stop")
  /\ startTried' = TRUE
  /\ UNCHANGED <<bad, files, agent, prev, outcome, fate>>

Ready ==
  /\ Goto("wait ready", "clean up")
  /\ svc = "running" /\ live \notin bad
  /\ UNCHANGED <<bad, files, agent, fate>>

NotReady ==
  /\ Goto("wait ready", "undo stop")
  /\ UNCHANGED <<bad, files, agent, fate>>

\* RemoveBackup cannot remove the helper's own image: it queues it for
\* deletion at the next boot.  Both removals are best effort.
CleanUp ==
  /\ pc = "clean up"
  /\ \/ ~Locked("backup") /\ backup' = Absent /\ UNCHANGED doomed
     \/ doomed' \in {doomed, TRUE} /\ UNCHANGED backup
  /\ staged' \in {staged, Absent}
  /\ Done("ok")
  /\ UNCHANGED <<bad, live, agent, swept>>

\* rollback
UndoStop ==
  /\ Goto("undo stop", "undo remove")
  /\ StopService
  /\ UNCHANGED <<bad, files, fate>>

UndoStopTimesOut ==
  /\ pc = "undo stop"
  /\ Done("rollback failed")
  /\ StopFails
  /\ UNCHANGED <<bad, files, fate>>

UndoRemove ==
  /\ Goto("undo remove", "undo rename")
  /\ live # Absent => ~Locked("live")
  /\ live' = Absent
  /\ UNCHANGED <<bad, backup, staged, agent, fate>>

UndoRemoveFails ==
  /\ pc = "undo remove"
  /\ live # Absent
  /\ Done("rollback failed")
  /\ UNCHANGED <<bad, files, agent, fate>>

UndoRename ==
  /\ At("undo rename", "undo start")
  /\ backup # Absent
  /\ live' = backup /\ backup' = Absent
  /\ lingering' = IF "backup" \in lingering THEN {"live"} ELSE {}
  /\ startTried' = FALSE
  /\ UNCHANGED <<bad, staged, svc, applying, prev, outcome, fate>>

UndoRenameFails ==
  /\ pc = "undo rename"
  /\ Done("rollback failed")
  /\ UNCHANGED <<bad, files, agent, fate>>

UndoStart ==
  /\ pc = "undo start"
  /\ pc' = "none" /\ outcome' = "rolled back" /\ startTried' = TRUE
  /\ StartService
  /\ UNCHANGED <<bad, files, prev, fate>>

UndoStartFails ==
  /\ pc = "undo start"
  /\ pc' = "none" /\ outcome' = "restored" /\ startTried' = TRUE
  /\ UNCHANGED <<bad, files, agent, prev, fate>>

-----------------------------------------------------------------------------
ProcessExits ==
  /\ lingering # {}
  /\ lingering' = {}
  /\ UNCHANGED <<bad, files, svc, applying, helper, fate>>

HelperDies ==
  /\ pc # "none"
  /\ pc' = "none"
  /\ UNCHANGED <<bad, files, agent, prev, outcome, startTried, fate>>

\* The queued deletion names a path: it takes whatever is there at boot.  The
\* service starts with the host if there is a binary to start.
Reboot ==
  /\ LET kept == IF doomed THEN Absent ELSE backup
     IN /\ backup' = kept
        /\ swept' = (swept \/ (doomed /\ backup = prev /\ live # prev /\ outcome # "ok"))
  /\ doomed' = FALSE
  /\ svc' = IF live \in Versions THEN "running" ELSE "stopped"
  /\ lingering' = {} /\ applying' = FALSE
  /\ pc' = "none"
  /\ UNCHANGED <<bad, live, staged, prev, outcome, startTried>>

HelperStep ==
  \/ Refuse \/ Stop \/ StopTimesOut \/ Sweep \/ SweepFails \/ SetAside \/ SetAsideFails
  \/ CopyBegins \/ CopyEnds \/ CopyFails \/ StartNew \/ StartNewFails
  \/ Ready \/ NotReady \/ CleanUp
  \/ UndoStop \/ UndoStopTimesOut \/ UndoRemove \/ UndoRemoveFails
  \/ UndoRename \/ UndoRenameFails \/ UndoStart \/ UndoStartFails

Next == Spawn \/ HelperStep \/ ProcessExits \/ HelperDies \/ Reboot

Spec == Init /\ [][Next]_vars

-----------------------------------------------------------------------------
\* The helper reports what happened: "ok" only when the new binary is in
\* place and the service runs, "rolled back" only when the previous one is.
OutcomeHonest ==
  /\ outcome = "ok" => live > prev /\ live \notin bad /\ svc = "running"
  /\ outcome = "rolled back" => live = prev /\ svc = "running"
  /\ outcome \in {"restored", "not stopped", "abandoned"} => live = prev

\* Until an update is confirmed the previous binary is whole at one of the two
\* paths, whatever failed, died or was cut short; the exception is a boot that
\* carries out the deletion an earlier update queued for the same path.
PreviousKept == outcome # "ok" => prev \in {live, backup} \/ swept

\* The helper never moves or writes a file while the service is reported as
\* running from it.
FilesMovedWhileStopped ==
  [][live' # live => svc = "stopped" /\ svc' = "stopped"]_vars

\* A helper that stopped the service and gives up with nothing modified puts
\* the service back the way it found it, or at least asks for it.
LeftAsFound == pc = "none" /\ outcome = "abandoned" => svc = "running" \/ startTried
=============================================================================

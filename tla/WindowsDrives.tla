---------------------------- MODULE WindowsDrives ----------------------------
(***************************************************************************)
(* The drives of the storage panel on Windows, and the volumes of the disk *)
(* rows.  Sizes and free space are read in the background, one outstanding *)
(* read to a device at a time; a discovery waits for them to a deadline    *)
(* and falls back to what each device said last (src/bounded_reads.go,     *)
(* src/collector_windows_storage.go, src/collector_windows_disk.go).       *)
(* Drives named by -storage-exclude are to be left alone.                  *)
(***************************************************************************)
EXTENDS Integers, FiniteSets

CONSTANTS Slots,      \* PhysicalDriveN
          Volumes,    \* drive letters
          MaxChanges  \* bound: drives plugged in and out

\* What is assumed of the constants.
WindowsDrivesAssumption ==
  /\ IsFiniteSet(Slots) /\ IsFiniteSet(Volumes) /\ Slots \cap Volumes = {}
  /\ MaxChanges \in Nat

VARIABLES
  drive,    \* what is in each slot
  on,       \* the slots each volume lives on
  changes,  \* how often drives were plugged
  reads,    \* reads of each device that have not come back
  last,     \* the last read of each device that did: boundedReads.last
  pass,     \* the discovery under way
  rows,     \* what the last discovery listed
  sent      \* history: slots of excluded drives that were sent something

vars == <<drive, on, changes, reads, last, pass, rows, sent>>

\* An empty card reader has no media; a removable drive has no disk row; an
\* excluded one matches -storage-exclude.
Empty == [present |-> FALSE, media |-> FALSE, fixed |-> FALSE, excluded |-> FALSE]
Drive(media, fixed, excluded) ==
  [present |-> TRUE, media |-> media, fixed |-> fixed, excluded |-> excluded]
Kinds == {Empty, Drive(TRUE, TRUE, FALSE), Drive(FALSE, FALSE, FALSE),
          Drive(TRUE, TRUE, TRUE), Drive(TRUE, FALSE, TRUE)}
Keys == Slots \cup Volumes
Idle == [at |-> "idle", listed |-> {}, sized |-> {}, asked |-> {}, failed |-> {}]
NoRows == [set |-> FALSE, seen |-> {}, failed |-> {}, drives |-> {}, counted |-> <<>>]

Init ==
  /\ drive \in [Slots -> Kinds]
  /\ on \in [Volumes -> SUBSET Slots]
  /\ changes = 0
  /\ reads = [k \in Keys |-> 0] /\ last = [k \in Keys |-> "never"]
  /\ pass = Idle /\ rows = NoRows /\ sent = {}

-----------------------------------------------------------------------------
\* What each device answers: a slot its size, a volume its free space.
There(v) == \A s \in on[v] : drive[s].present /\ drive[s].media
Answers(k) == IF k \in Slots THEN drive[k].present /\ drive[k].media ELSE There(k)

\* Something reached the drives these reads are for.
Reached(keys) ==
  sent \cup {s \in Slots : /\ drive[s].excluded
                           /\ \E k \in keys : s = k \/ (k \in Volumes /\ s \in on[k])}

Plug(s, d) ==
  /\ changes < MaxChanges /\ changes' = changes + 1
  /\ drive[s] # d /\ (drive[s].present => ~d.present)
  /\ drive' = [drive EXCEPT ![s] = d]
  /\ UNCHANGED <<on, reads, last, pass, rows, sent>>

\* boundedReads.start: one outstanding read for each key.
Started(keys) == [k \in Keys |-> IF k \in keys /\ reads[k] = 0 THEN 1 ELSE reads[k]]

\* The goroutine of a read comes back, in time or long after; or it never does.
Answer(k) ==
  /\ reads[k] > 0
  /\ reads' = [reads EXCEPT ![k] = @ - 1]
  /\ last' = [last EXCEPT ![k] = IF Answers(k) THEN "ok" ELSE "failed"]
  /\ UNCHANGED <<drive, on, changes, pass, rows, sent>>

\* boundedReads.result: this read's answer, or at the deadline what the device
\* said last; either way the last answer there is.
Result(k) == last[k]

\* Identity comes first, and excluded drives are not asked for their size.
Identify ==
  /\ pass.at = "idle"
  /\ LET listed == {s \in Slots : drive[s].present /\ ~drive[s].excluded}
     IN /\ pass' = [Idle EXCEPT !.at = "sizes", !.listed = listed]
        /\ reads' = Started(listed) /\ sent' = Reached(listed)
  /\ UNCHANGED <<drive, on, changes, last, rows>>

\* Slots without media are left out; volumes of the others are asked next.
\* Waiting ends with the answers or at the deadline.
Sized ==
  /\ pass.at = "sizes"
  /\ LET sized == {s \in pass.listed : Result(s) # "failed"}
         asked == {v \in Volumes : on[v] \cap sized # {} /\ There(v)}
     IN /\ pass' = [pass EXCEPT !.at = "spaces", !.sized = sized, !.asked = asked,
                    !.failed = {s \in pass.listed : last[s] = "failed"}]
        /\ reads' = Started(asked) /\ sent' = Reached(asked)
  /\ UNCHANGED <<drive, on, changes, last, rows>>

\* A volume that spans drives counts on each of them.
Publish ==
  /\ pass.at = "spaces"
  /\ rows' = [set |-> TRUE, seen |-> pass.listed, failed |-> pass.failed,
              drives |-> pass.sized,
              counted |-> [s \in pass.sized |-> [v \in Volumes |->
                IF s \in on[v] /\ v \in pass.asked /\ Result(v) = "ok"
                THEN 1 ELSE 0]]]
  /\ pass' = Idle
  /\ UNCHANGED <<drive, on, changes, reads, last, sent>>

\* The disk rows of every slow pass: the free space of all fixed volumes.
WindowsDisks ==
  /\ sent' = Reached({v \in Volumes : on[v] # {} /\ There(v) /\ \A s \in on[v] : drive[s].fixed})
  /\ UNCHANGED <<drive, on, changes, reads, last, pass, rows>>

Next ==
  \/ \E s \in Slots, d \in Kinds : Plug(s, d)
  \/ \E k \in Keys : Answer(k)
  \/ Identify
  \/ Sized
  \/ Publish
  \/ WindowsDisks

Spec == Init /\ [][Next]_vars

-----------------------------------------------------------------------------
(* Properties.                                                              *)

\* A device that hangs strands one read, however many callers come and give up
\* (bounded_reads.go:15-16), and costs no drive its row: only one that said it
\* holds no media is left out (collector_windows_storage.go:103-110).
SilentDriveStaysListed ==
  /\ \A k \in Keys : reads[k] <= 1
  /\ rows.set => rows.drives = rows.seen \ rows.failed

\* A drive named by -storage-exclude is sent nothing, not even a question for
\* its free space (storage_exclude.go:5-6, collector_windows_storage.go:218-219
\* and the flag's description, main.go:64).
ExcludedLeftAlone == sent = {}
=============================================================================

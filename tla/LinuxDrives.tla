----------------------------- MODULE LinuxDrives -----------------------------
(***************************************************************************)
(* The disk rows and the storage panel on Linux, both made from the mount  *)
(* table at every slow pass (src/collector_linux.go:1070-1536), and which  *)
(* of their gaps are issues and which are notes (src/storage_notes.go,     *)
(* src/metrics.go:673-806).  A file system may be mounted at several       *)
(* places, as a btrfs file system with its subvolumes is, in any order.    *)
(* The table holds what isLocalFilesystemMount lets through: pseudo,       *)
(* remote and container layers are left out, and no place has two mounts.  *)
(***************************************************************************)
EXTENDS Integers, Sequences, FiniteSets, SequencesExt

CONSTANTS Drives,
          Parts,      \* file systems, by their device in /proc/mounts
          Sizes,      \* of a file system
          MaxMounts,  \* bound: entries of the mount table
          MaxFailing  \* bound: mount points statfs fails at

\* What is assumed of the constants.
LinuxDrivesAssumption ==
  /\ IsFiniteSet(Drives) /\ IsFiniteSet(Parts) /\ "mapped" \notin Drives
  /\ Sizes \subseteq Nat \ {0} /\ MaxMounts \in Nat /\ MaxFailing \in Nat

\* Places by how root-most they are: "/" before the shorter path.
Places == {"/", "/srv", "/run/lock", "/run/media/disk"}
Depth == [p \in Places |-> CASE p = "/" -> 0
                            [] p = "/srv" -> 1
                            [] p = "/run/lock" -> 2
                            [] OTHER -> 3]

VARIABLES
  hardware,  \* per drive: how it is attached, its sensor, -storage-exclude
  on,        \* the whole disk of each device; an LVM or LUKS name maps to none
  size,
  table,     \* /proc/mounts
  failing    \* the places statfs fails at

vars == <<hardware, on, size, table, failing>>

Init ==
  /\ hardware \in [Drives -> [attached : {"direct", "usb", "virtual"},
                              sensor : BOOLEAN, excluded : BOOLEAN]]
  /\ on \in [Parts -> Drives \cup {"mapped"}]
  /\ size \in [Parts -> Sizes]
  /\ table = <<>> /\ failing = {}

Mount(part, place) ==
  /\ Len(table) < MaxMounts /\ \A i \in DOMAIN table : table[i].place # place
  /\ table' = Append(table, [part |-> part, place |-> place])
  /\ UNCHANGED <<hardware, on, size, failing>>

Unmount(i) ==
  /\ table' = RemoveAt(table, i)
  /\ UNCHANGED <<hardware, on, size, failing>>

Fail(places) == failing' = places /\ UNCHANGED <<hardware, on, size, table>>

Next ==
  \/ \E part \in Parts, place \in Places : Mount(part, place)
  \/ \E i \in DOMAIN table : Unmount(i)
  \/ \E places \in SUBSET Places : Cardinality(places) <= MaxFailing /\ Fail(places)

Spec == Init /\ [][Next]_vars

-----------------------------------------------------------------------------
\* What a pass makes of the table.

\* Nothing below /run is a disk row; a medium below /run/media counts for its drive.
ShouldIncludeMount(m) == m.place \notin {"/run/lock", "/run/media/disk"}
ShouldIncludeStorageMount(m) == ShouldIncludeMount(m) \/ m.place = "/run/media/disk"

IsMoreRootMountpoint(a, b) == Depth[a] < Depth[b]

\* collapseMountsByDevice: one row for each device, at its root-most place.
CollapseMountsByDevice(mounts) ==
  {m \in mounts : ~\E n \in mounts : n.part = m.part /\ IsMoreRootMountpoint(n.place, m.place)}

DiskRows == CollapseMountsByDevice({m \in ToSet(table) : ShouldIncludeMount(m)})

\* Mutant of SeenAs: file systems of one size are taken for one file system.
SeenAsSize(m) == size[m.part]

\* Two mounts share a file system iff they share a device.
SeenAs(m) == m.part

\* aggregateDeviceCapacity: only the first mount of a device is asked.
Counted(d) ==
  LET mounts == {i \in DOMAIN table : ShouldIncludeStorageMount(table[i]) /\ on[table[i].part] = d}
      IsFirst(i) == \A j \in mounts : SeenAs(table[j]) = SeenAs(table[i]) => i <= j
  IN {table[i].part : i \in {k \in mounts : IsFirst(k) /\ table[k].place \notin failing}}

Total(parts) == SumFunctionOnSet(size, parts)

\* collectStorageFrom: an excluded drive is dropped.
Devices == {d \in Drives : ~hardware[d].excluded}

CapacityGap(d) == IF Counted(d) = {} THEN "no mounted filesystems" ELSE "none"

\* linuxStorageTemperature
TemperatureGap(d) ==
  CASE hardware[d].sensor -> "none"
    [] ~hardware[d].sensor /\ hardware[d].attached = "usb" -> "usb enclosure"
    [] ~hardware[d].sensor /\ hardware[d].attached = "virtual" -> "virtual disk"
    [] OTHER -> "no sensor exposed"

IsExpectedStorageCondition(gap) ==
  gap \in {"no mounted filesystems", "usb enclosure", "virtual disk"}

Gaps == {<<d, "capacity", CapacityGap(d)>> : d \in Devices}
        \cup {<<d, "temperature", TemperatureGap(d)>> : d \in Devices}
StorageGaps == {g \in Gaps : g[3] # "none"}

\* summarizeCollectionErrors and summarizeCollectionNotes
CollectionErrors ==
  {<<"disk", m.place>> : m \in {n \in DiskRows : n.place \in failing}}
  \cup (IF DiskRows = {} THEN {<<"disk", "no local filesystems found">>} ELSE {})
  \cup (IF Devices = {} THEN {<<"storage", "no block devices found">>}
        ELSE {g \in StorageGaps : ~IsExpectedStorageCondition(g[3])})
CollectionNotes == {g \in StorageGaps : IsExpectedStorageCondition(g[3])}

-----------------------------------------------------------------------------
(* Properties.                                                              *)

MountedOn(d) ==
  {p \in Parts : on[p] = d /\ \E i \in DOMAIN table :
     table[i].part = p /\ table[i].place # "/run/lock"}

\* A drive is as full as its file systems together, each counted once however
\* many places it is mounted at and in whichever order, and never more than
\* that when some cannot be asked; no file system has two disk rows
\* (collector_linux.go:1305-1316, 1103-1107).
CapacityCountedOnce ==
  /\ \A d \in Devices :
       /\ Total(Counted(d)) <= Total(MountedOn(d))
       /\ failing = {} => Total(Counted(d)) = Total(MountedOn(d))
  /\ \A m, n \in DiskRows : m.part = n.part => m = n

\* A machine whose only gaps come from how its drives are attached and used has
\* no issue, so that it can say all clear, and a drive that should have a
\* reading and has none is one (storage_notes.go:9-30).
OnlyFaultsAreIssues ==
  /\ (/\ failing = {} /\ DiskRows # {} /\ Devices # {}
      /\ \A d \in Devices : hardware[d].sensor \/ hardware[d].attached # "direct")
     => CollectionErrors = {}
  /\ \A d \in Devices : ~hardware[d].sensor /\ hardware[d].attached = "direct" =>
       \E e \in CollectionErrors : e[1] = d /\ e[2] = "temperature"
=============================================================================

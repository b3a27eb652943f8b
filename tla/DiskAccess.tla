----------------------------- MODULE DiskAccess -----------------------------
(***************************************************************************)
(* How a thread gets a disk for writing: the lease of this process, one    *)
(* per disk (platform/system.rs), and what each platform does to keep the  *)
(* system and its users off the disk: Windows locks and dismounts every    *)
(* volume that has an extent on it (platform/windows.rs), Linux unmounts   *)
(* what is mounted from it, directly or through a stack of holders         *)
(* (platform/linux.rs), macOS leaves it to diskutil (platform/macos.rs).   *)
(*                                                                         *)
(* A volume is anything that can be mounted: a partition (or a file system *)
(* over a whole disk), or a device that lies on others (LVM, dm-crypt, md, *)
(* a spanned volume).  None of the three platforms sees all that may lie   *)
(* on a disk, and each is modelled by what it looks at.  Other processes   *)
(* mount and use volumes at any time, but what lies on what stays as it is *)
(* while a disk is prepared; every system call may fail.                   *)
(***************************************************************************)
EXTENDS FiniteSets, Naturals

CONSTANTS
  Threads,       \* the writers of this process
  Disks,         \* disk indices
  Volumes,       \* what can be mounted
  Root,          \* the volume the system runs from
  Stacks,        \* the ways volumes may lie on disks and on one another
  MaxSkipped,    \* bound: failing reads that a walk passes over
  Nobody,        \* no thread, no disk
  MaxLeases,     \* bound: leases asked for
  MaxMounts      \* bound: mounts by others

ASSUME VolumesAssumption == IsFiniteSet(Volumes)
ASSUME RootAssumption == Root \in Volumes
ASSUME NobodyAssumption == Nobody \notin Threads \union Disks
ASSUME DisksAssumption == Disks \intersect Volumes = {}
\* A stack tells what each volume directly lies on, disks and other volumes;
\* which volumes are partitions; and which are pooled: file systems with their
\* own account of their devices (btrfs, ZFS, APFS).
ASSUME StacksAssumption ==
  \A s \in Stacks : /\ s.on \in [Volumes -> SUBSET (Disks \union Volumes)]
                    /\ s.partitions \subseteq Volumes /\ s.pooled \subseteq Volumes

VARIABLES
  host,       \* "windows", "linux" or "macos"
  stack,      \* how the volumes lie
  mounted,    \* the volumes mounted now
  lockedBy,   \* Windows: the thread whose handle locks the volume
  leases,     \* WRITE_LEASES
  at,         \* where each thread stands
  disk,       \* the disk it asks for
  todo,       \* the volumes its preparation has still to look at
  skipped,    \* Linux: the failing reads that its walk passed over
  asked, mounts   \* the bounds' counters

accessVars == <<host, stack, mounted, lockedBy, leases, at, disk, todo, skipped, asked, mounts>>

Active(t) == at[t] # "Idle"

\* A mutant: holders of holders are not looked at.
CarriesDirectly(leads, d) == {v \in Volumes : d \in leads[v]}

\* A step from one set of volumes to the next, once for every volume there is.
Repeat(step, first) ==
  LET f[n \in 0..Cardinality(Volumes)] == IF n = 0 THEN first ELSE step[f[n - 1]]
  IN f[Cardinality(Volumes)]

\* The volumes a walk from a disk comes to, when it is led to each by others.
Carries(leads, d) ==
  Repeat([below \in SUBSET Volumes |->
            below \union {v \in Volumes : leads[v] \intersect below # {}}],
         {v \in Volumes : d \in leads[v]})

(* disk_device_numbers: to a partition leads the disk whose directory it is *)
(* in, unless its path cannot be resolved; to any other device lead those   *)
(* that list it as a holder, unless their list cannot be read.  Partitions  *)
(* of a holder are in no such list.                                        *)
HolderLeads(s, d, missed) ==
  [v \in Volumes |->
     IF v \in s.partitions
     THEN IF <<"path", v>> \in missed THEN {} ELSE s.on[v] \intersect {d}
     ELSE {w \in s.on[v] : <<"holders", w>> \notin missed}]

\* The reads of a walk whose failure hides something.
Reads(s, d) ==
  LET listed == UNION {s.on[v] : v \in Volumes \ s.partitions}
  IN ({"path"} \X {v \in s.partitions : d \in s.on[v]}) \union
     ({"holders"} \X (listed \intersect ({d} \union Volumes)))

\* mounted_points_from_text: a pooled file system is mounted under a number of
\* its own, which is no device's.
Found(s, d, missed) == Carries(HolderLeads(s, d, missed), d) \ s.pooled

\* volume_extents: the disks that a volume itself has extents on.
Extents(s, v) == s.on[v] \intersect Disks

\* ParentWholeDisk of a volume, or the whole disks of an APFS volume's stores
\* (system_disk_numbers); a virtual disk is not one of ours.
WholeDisk(s, v) ==
  IF v \in Disks THEN {v} ELSE IF v \in s.partitions THEN Extents(s, v) ELSE {}
WholeDisks(s, v) ==
  IF v \in s.pooled THEN UNION {WholeDisk(s, w) : w \in s.on[v]} ELSE WholeDisk(s, v)

AccessInit ==
  /\ host \in {"windows", "linux", "macos"}
  /\ stack \in Stacks
  /\ mounted \in {m \in SUBSET Volumes : Root \in m}
  /\ lockedBy = [v \in Volumes |-> Nobody] /\ leases = {}
  /\ at = [t \in Threads |-> "Idle"] /\ disk = [t \in Threads |-> Nobody]
  /\ todo = [t \in Threads |-> {}] /\ skipped = [t \in Threads |-> {}]
  /\ asked = 0 /\ mounts = 0
-----------------------------------------------------------------------------
(***************************************************************************)
(* acquire_write_lease.                                                    *)
(***************************************************************************)
Move(t, from, to) == at[t] = from /\ at' = [at EXCEPT ![t] = to]

\* SystemWriteLease::reserve: a second writer of a disk is turned away.
Reserve(t, d) ==
  /\ asked < MaxLeases /\ asked' = asked + 1
  /\ d \notin leases
  /\ Move(t, "Idle", "Guard")
  /\ leases' = leases \union {d} /\ disk' = [disk EXCEPT ![t] = d]
  /\ UNCHANGED <<host, stack, mounted, lockedBy, todo, skipped, mounts>>

\* Any refusal or failure, a volume in use among them, drops what was locked so
\* far, then the lease.
Fail(t) ==
  /\ at[t] \in {"Guard", "Volumes", "Verify"}
  /\ at' = [at EXCEPT ![t] = "Drop"] /\ todo' = [todo EXCEPT ![t] = {}]
  /\ UNCHANGED <<host, stack, mounted, lockedBy, leases, disk, skipped, asked, mounts>>

\* is_system_disk: a disk that carries the root is refused, and so is every disk
\* when that cannot be told (Fail).  Then the volumes to look at are listed: all
\* there are on Windows, the mounted ones of the disk on Linux, none on macOS.
List(t, volumes, missed, next) ==
  /\ Move(t, "Guard", next)
  /\ todo' = [todo EXCEPT ![t] = volumes] /\ skipped' = [skipped EXCEPT ![t] = missed]
  /\ UNCHANGED <<host, stack, mounted, lockedBy, leases, disk, asked, mounts>>

AdmitOnWindows(t) ==
  /\ host = "windows" /\ disk[t] \notin Extents(stack, Root)
  /\ List(t, Volumes, {}, "Volumes")

MountPoints(d, missed) == Found(stack, d, missed) \intersect mounted

\* One walk, whose devices serve until the disk is granted.
AdmitOnLinux(t) ==
  /\ host = "linux"
  /\ \E missed \in SUBSET Reads(stack, disk[t]) :
       /\ Cardinality(missed) <= MaxSkipped
       /\ Root \notin MountPoints(disk[t], missed)
       /\ List(t, MountPoints(disk[t], missed), missed, "Volumes")

AdmitOnMac(t) ==
  /\ host = "macos" /\ disk[t] \notin WholeDisks(stack, Root) /\ List(t, {}, {}, "Verify")

\* prepare_write_disk, for one volume: asked for its extents first, and only
\* passed over when none of them is on the disk.
LockVolume(t, v) ==
  /\ host = "windows" /\ at[t] = "Volumes" /\ v \in todo[t]
  /\ todo' = [todo EXCEPT ![t] = @ \ {v}]
  /\ IF disk[t] \in Extents(stack, v)
       THEN /\ lockedBy[v] = Nobody
            /\ lockedBy' = [lockedBy EXCEPT ![v] = t] /\ mounted' = mounted \ {v}
       ELSE UNCHANGED <<lockedBy, mounted>>
  /\ UNCHANGED <<host, stack, leases, at, disk, skipped, asked, mounts>>

\* prepare_write_for_block_name, for one mount point.
Unmount(t, v) ==
  /\ host = "linux" /\ at[t] = "Volumes" /\ v \in todo[t]
  /\ v \in mounted
  /\ todo' = [todo EXCEPT ![t] = @ \ {v}] /\ mounted' = mounted \ {v}
  /\ UNCHANGED <<host, stack, lockedBy, leases, at, disk, skipped, asked, mounts>>

AllSeen(t) ==
  /\ todo[t] = {}
  /\ Move(t, "Volumes", IF host = "windows" THEN "Holds" ELSE "Verify")
  /\ UNCHANGED <<host, stack, mounted, lockedBy, leases, disk, todo, skipped, asked, mounts>>

\* Linux reads the mount table again and grants when nothing remains of the
\* devices it found; macOS when diskutil says that it has unmounted the disk, of
\* which only what it names with this disk is relied on.
GrantOnLinux(t) ==
  /\ host = "linux" /\ MountPoints(disk[t], skipped[t]) = {}
  /\ Move(t, "Verify", "Holds")
  /\ UNCHANGED <<host, stack, mounted, lockedBy, leases, disk, todo, skipped, asked, mounts>>

UnmountDisk(t) ==
  /\ host = "macos" /\ mounted' = mounted \ {v \in Volumes : disk[t] \in WholeDisks(stack, v)}
  /\ Move(t, "Verify", "Holds")
  /\ UNCHANGED <<host, stack, lockedBy, leases, disk, todo, skipped, asked, mounts>>

\* The writer is done and drops its lease.
GiveBack(t) ==
  /\ Move(t, "Holds", "Drop")
  /\ UNCHANGED <<host, stack, mounted, lockedBy, leases, disk, todo, skipped, asked, mounts>>

\* A mutant: the locks of a preparation that failed stay.
UnlockForgotten(t) ==
  /\ Move(t, "Drop", "Release")
  /\ UNCHANGED <<host, stack, mounted, lockedBy, leases, disk, todo, skipped, asked, mounts>>

\* SystemWriteLease::drop: the platform's locks first, then the lease.
Unlock(t) ==
  /\ Move(t, "Drop", "Release")
  /\ lockedBy' = [v \in Volumes |-> IF lockedBy[v] = t THEN Nobody ELSE lockedBy[v]]
  /\ UNCHANGED <<host, stack, mounted, leases, disk, todo, skipped, asked, mounts>>

Release(t) ==
  /\ Move(t, "Release", "Idle")
  /\ leases' = leases \ {disk[t]} /\ disk' = [disk EXCEPT ![t] = Nobody]
  /\ skipped' = [skipped EXCEPT ![t] = {}]
  /\ UNCHANGED <<host, stack, mounted, lockedBy, todo, asked, mounts>>

\* Someone else mounts a volume that is not locked, or starts or stops using it.
Mount(v) ==
  /\ mounts < MaxMounts /\ mounts' = mounts + 1
  /\ v \notin mounted /\ lockedBy[v] = Nobody
  /\ mounted' = mounted \union {v}
  /\ UNCHANGED <<host, stack, lockedBy, leases, at, disk, todo, skipped, asked>>

AccessNext ==
  \/ \E t \in Threads :
       \/ \E d \in Disks : Reserve(t, d)
       \/ AdmitOnWindows(t) \/ AdmitOnLinux(t) \/ AdmitOnMac(t)
       \/ AllSeen(t) \/ GrantOnLinux(t) \/ UnmountDisk(t)
       \/ Fail(t) \/ GiveBack(t) \/ Unlock(t) \/ Release(t)
       \/ \E v \in Volumes : LockVolume(t, v) \/ Unmount(t, v)
  \/ \E v \in Volumes : Mount(v)

AccessSpec == AccessInit /\ [][AccessNext]_accessVars
-----------------------------------------------------------------------------
(***************************************************************************)
(* Properties.                                                             *)
(***************************************************************************)
\* What lies on a disk when leads tells what leads to what: the members of every
\* set that holds what the disk leads to and whatever one of its members leads to.
OnDisk(leads, d) ==
  {v \in Volumes : \A on \in SUBSET Volumes :
     (\A w \in Volumes : leads[w] \intersect ({d} \union on) # {} => w \in on) => v \in on}

\* What leads from a disk to a volume for the platform that prepares the disk.
Sight(t) ==
  CASE host = "windows" -> [v \in Volumes |-> Extents(stack, v)]
    [] host = "linux"   -> HolderLeads(stack, disk[t], skipped[t])
    [] host = "macos"   -> [v \in Volumes |-> WholeDisks(stack, v)]

\* Less than OnDisk(stack.on, disk[t]), all that lies on the disk.  Linux does not
\* see the partitions of a holder and what lies on them, nor a file system that is
\* mounted under a number of its own, nor what is behind a path or a list that it
\* could not read; Windows no volume of a virtual disk that a file on the disk
\* backs; macOS no virtual disk but the container of an APFS volume.
Visible(t) ==
  {v \in OnDisk(Sight(t), disk[t]) : host = "linux" => v \notin stack.pooled}

\* A disk is granted for writing only while no volume that the platform sees on
\* it is mounted, through however many holders it looks and whatever was mounted
\* again meanwhile; on Windows none can be mounted as long as the lease is held.
GrantedDisksAreIdle ==
  [][\A t \in Threads :
       at'[t] = "Holds" /\ (host = "windows" \/ at[t] # "Holds")
         => Visible(t)' \intersect mounted' = {}]_accessVars

\* The system's own volume stays mounted, and no disk that the platform sees it on
\* is held for writing: through a stack of holders on Linux, on any of the disks
\* it spans on Windows.  Of one disk there is one writer, and a lock on a volume
\* never outlives its writer's lease, whichever step of the preparation failed: the
\* next writer would otherwise be refused by the locks of the one before.
LeasesHold ==
  /\ Root \in mounted
  /\ \A t \in Threads : at[t] = "Holds" => Root \notin Visible(t)
  /\ leases = {disk[t] : t \in {u \in Threads : Active(u)}}
  /\ \A t, u \in Threads : Active(t) /\ Active(u) /\ t # u => disk[t] # disk[u]
  /\ \A v \in Volumes : lockedBy[v] # Nobody => Active(lockedBy[v])
=============================================================================

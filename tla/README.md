# edpcli: a verification project

TLA+ modules about `edpcli`, a Rust program (command line and terminal
interface) that lists, inspects, backs up, restores and provisions EDP
("cems") USB disks on macOS, Linux and Windows. Paths below are written as in
PROJECT.json: `src/` is the checkout, so `src/src/tui/task.rs` is the program's
`src/tui/task.rs`.

What can go wrong in this program is expensive: it overwrites partition tables
and key sectors of somebody's disk, from a background thread, under a terminal
interface that may lose its terminal or be told to quit, after a backup that
had better be the right one. The modules are about that core: the transactions
on the medium, the plans they are given, the media they reach, the backups made
before them, and the interface that starts, watches and must not abandon them.

## 1. Inventory

| Part | State | Operations | Speaks to |
|---|---|---|---|
| Sector transaction, `diskio/transaction.rs` | plan, mirror, pass, rollback attempts | preflight sync, mirror, write, sync, read back, roll back (3 times) | the device; callers through the verdict |
| Its entry points, same file | none | metadata, official, plain, format and key-rebuilding plans | build the executor's two orders |
| Native-block transaction, `diskio/native_transaction.rs` | snapshot, position | validate, snapshot, write and read each block, barrier, verify, undo | a `NativeBlockDevice` |
| Device access, `diskio/device.rs`, `platform/` | leases, locked volumes, file descriptor | lease, lock, unmount, read, write, sync, reopen | the operating system |
| Child processes, `infrastructure/process.rs` | a child, its pipes and its tree | run with a deadline and output limits, put down | operating systems |
| Target session, `application/target_session.rs` | read-only / prepared / locked | open, prepare, reopen and verify, transact | leases, device, identity pins |
| Media identity, `media_identity*.rs`, `identify.rs`, `application/evidence.rs` | none | compare, pin, authorise, observe | every operation on a medium |
| Restore, `application/write*` | plan, phases | plan, back up, lock, write, verify | target session, backup store |
| Provisioning commit, `application/provision*` | prepared plan, receipt | prepare, back up, commit, format, verify | target session, backup store, protocol |
| Post-restore, `application/post_restore*` | assessment | format a partition, rebuild keys | executor, file systems |
| Layout and plans, `provision/`, `application/provision/prepare.rs` | none | prefill, edit, plan, key material | provisioning |
| Provisioning form, `tui/provision/`, `preflight.rs` | fields, probe, verifications, stage | edit, verify, forecast, submit, review | planner, task hub |
| Backup store, `infrastructure/backup_store`, `backup_catalog*` | directory, display cache | publish, list, verify, delete, prune | file system |
| EDPB container, `edpb/`, `backup_*.rs` | none | capture, write, validate, read, preview | backup store, restore |
| Inspection, `inspect*`, `partition_table.rs`, `disk_layout.rs` | none | parse tables, draw layouts, decode, compare | evidence |
| Protocol, `protocol/`, `provision/generate.rs` | none | encode, decode, detect profiles of LBA0..12 | everything |
| File systems, `filesystem/` | none | FAT12/16/32, exFAT plans, NTFS and others' probes | formats, inspection |
| Disk scan, `disk_scan.rs`, `application.rs` | none | enumerate, classify, match backups | platform, catalog snapshot |
| Task hub, `tui/task*.rs` | operation slot, task slots, channel, snapshot slot | request, poll, finish, wait | worker threads, the loop |
| Interface state, `tui/state.rs` and features | workspace, dialogs, stages, critical flag, deferred exit | keys, completions, device lists | task hub |
| Rendering, inspection workspace | presentation | drawing, browsing | interface state |
| Command line, `cli*` | none | the same services, sequentially | application |

How they interact: a key becomes a request to the task hub, which starts a
worker thread; the worker runs an application service, which opens a target
session (a lease, unmounted volumes, a pinned identity) and calls a transaction
executor with a plan; progress and the result come back through a channel (and a
one-place slot for ordinary snapshots) that the interface's loop polls; the
result changes the interface's state and asks for scans, which run on threads
of their own and are delivered the same way. Only the loop's thread touches the
state and the hub; the shared data are the channel, the snapshot slot's mutex,
the leases and the catalog snapshots. Several processes share the backup
directory, with each other and with the user's other programs.

What makes the parts correct, and is hard to test:

* the verdict of a transaction tells the truth about the medium on every
  combination of failing, torn and silently lost writes, in the forward pass
  and in each rollback; the partition table is the last sector of each pass;
* every plan an entry point accepts can be rolled back and stays in its bounds;
* a plan for an EDP disk loses no key, is what the form showed, and is never
  refused half-way;
* a write reaches the medium it was authorised for, although disks are
  exchanged behind the same index, and nothing is written over damage;
* a backup is never lost to a crash, a concurrent deletion or a swapped file,
  and a verified one shows and restores what the disk was;
* what is written (registrations, file systems) is read back as what it is;
* progress is neither lost silently nor shown out of order, and joining a
  worker under the lock its last flush takes does not deadlock;
* one scan at a time per list, none lost, and no stale scan taken for a fresh
  one, although scans share, cancel and outlive each other;
* no key, dialog or late completion hides or abandons an operation that writes.

The hazards, each at its line, are in PROJECT.json, as is each part's status.

## 2. How the modules compose

```
MediaContract <== SectorTransaction, NativeTransaction      (refinement)

MediaIdentity <- TargetSession <- RestoreFlow, ProvisionFlow <- MediaFlow
BackupFiles <- BackupDeletion <- BackupStore
WritePlan, ProvisionLayout <- TargetPlan <- ProvisionPreflight <- ProvisionForm
DiskLayout <- BackupCapture <- BackupContainer <- DiskInspection <- BackupReading
ProtocolSectors <- ProtocolReaders <- ProtocolImage
FormatPlans <- Volumes
OperationGate   ScanSlots   ProgressTransport   ChildProcess   DiskAccess
```

An arrow is `EXTENDS`. The MC modules put parts that do not know of each other
side by side, with a variable `part` that picks the one a behaviour follows:
`MCInterface` the gate, the scans and the transport, `MCDeviceAccess` the native
transaction, commands and leases, `MCMediaFormats` volumes, registrations and
backups. `MCSectorTransaction`, `MCProvisionForm`, `MCMediaFlow` and
`MCBackupStore` instantiate one chain each. The `...Proofs` modules extend what
they are about.

Left for later: the inspection workspace's own task slots, which are instances
of `ScanSlots`, and the generation of new EDP images in files.

## 3. Modules

Each module's state and actions against the code. Every definition's lines are
in PROJECT.json under `map`. Words after "left out" are what a module abstracts.

### Writing to a medium

**MediaContract.** What a mirrored writer promises. The planned sectors may
change in any way until a verdict; `Ok` is given only with every planned sector
on the medium, `Refused` and `RolledBack` only with the medium as it was; no
other sector ever changes; after these verdicts nothing changes any more, and
after `Intermediate` the planned sectors may hold anything.

**SectorTransaction** is `execute_sector_transaction_observed` and
`write_and_verify` (`diskio/transaction.rs`). `pc` is the phase, `pass` the
rollback flag, `attempt` the loop counter of the three rollbacks, `index` the
position of the running loop, `mirror` the old bytes parallel to the readback
order, `acked` what has been published as written. One action per batch
(`contiguous_run`, at most `MaxBatch` sectors), per sync and per loop exit. The
device is a cache `view` over the `medium`; a sync pushes all of it, `Evict` any
one dirty sector at any time. A write leaves each of its sectors old, new or
torn whatever it reports; a read may fail; `PowerLoss` drops the cache and
nothing resumes. Left out: the bytes, the observer (its panics are caught), the
500 ms pause, the check of a short buffer. It assumes that plans are well formed
(`IsPlan`), which is what `WritePlan` is proved to deliver.

**WritePlan** is the five entry points of the executor as operators from a
request to "Rejected", "Nothing" or the two orders: `atomic_write_sectors`,
`atomic_write_official_provision_sectors`, the plain provision through
`execute_write_transaction`, the borrowed format and the borrowed key
rebuilding. `MaxTotal` is `u32::MAX`, `MaxU64` bounds `start + sectors`.

**NativeTransaction** (`diskio/native_transaction.rs`) goes block by block: `pc`
is the phase, `index` the block, `undo` whether the rollback has met damage. A
sync that reports success may still lose dirty blocks. No production device
implements the trait yet; the module is about the executor its tests exercise.

**DiskAccess.** `leases` is the process's registry of leased disks, `at` the
step a thread has reached in getting its `disk`, `lockedBy` and `mounted` the
operating system's side, `todo` the volumes its preparation has left. `stack` says
what each volume lies on (`on`), which are `partitions`, and which are `pooled`:
file systems with their own account of devices. Each platform is modelled by what
it looks at, which is less than what lies on a disk:

* Windows locks and dismounts every volume with an extent of its own on the disk
  (`Extents`, `platform/windows.rs`); a volume of a virtual disk has none on the
  disk that holds its file.
* Linux (`platform/linux.rs`) goes from the disk and its partitions to their
  holders and on (`HolderLeads`, `Carries`) and unmounts what is mounted under
  the numbers found (`Found`). It never comes to the partitions of a holder
  (`md126p1`), does not find file systems mounted under a number of their own
  (btrfs), and passes over a path or a list that it cannot read (`skipped`).
* macOS asks `diskutil` for a root's physical stores or its `ParentWholeDisk`
  (`WholeDisks`) and leaves the unmounting to it.

`Visible` is what the platform can see of a disk. Others mount volumes at any
time; every call may fail, a volume in use among the reasons (`Fail`).

**ChildProcess** is `infrastructure/process.rs`: one thread that drains both
pipes, watches the deadline and waits for the child, then puts down the group or
job. `process` and `holders` are the tree and who may still write to a pipe,
`written`, `taken`, `eof` the pipes, `completion` what the caller gets. The
child writes, forks, closes and exits when it likes, and its helper may leave
the group. Left out: `kill(-pid)` after the leader was reaped by somebody else.

### Reaching the right medium

**MediaIdentity** holds the decisions as operators: how two pieces of hardware
or protocol evidence compare, what a pin accepts, when a restore is authorised,
when a backup is offered.

**TargetSession** is the way in (`application/target_session.rs`): `image`,
`parts` and `port` are the media and which of them is plugged in; `op`, `step`
and `handle` the running operation; `lease` is Free, Held or Lost; `geometry`,
`job`, `probe`, `pin`, `seen` and `expect` what the operation knows; `status`,
`damage` and `outcome` what it reports. Every opening, reading, locking,
reopening and writing is a step; users exchange the medium and others write to it
(`Meddle`) between any two.

**ProvisionFlow** adds the read-only preparation, the mandatory backup with both
its verifications, the commit with its readback and the formats that stop at
the first failure (`application/provision*`). **RestoreFlow** adds the restore of
a backup's metadata and the follow-up screen's formatting and key rebuilding
(`application/write*`, `application/post_restore*`). **MediaFlow** puts them in
sequence. An EDP disk that lost only its LBA4 label is left out:
`verify_expected_identity` would then compare the LBA7 device identity alone,
and accept a disk without any.

### Planning

**ProvisionLayout**: prefill, geometry edits and the check of the outcome.
**TargetPlan** (`application/provision/prepare.rs`): `prepared` is the plan of a
request, `left` the stages still to write; which partition is kept, rewrapped
or rebuilt, which key it gets, and every sector the commit and the formats
write, through `WritePlan`. **ProvisionPreflight** is the form's own forecast
(`preflight.rs`, `password.rs`), from what the form knows instead of from the
disk. **ProvisionForm** (`tui/provision/`): `stage` None, Form, Away, Planning,
Refused or Review; `editing` the field in hand; `probing` and `checking` the
background probe and verifications under way; `inputs` the edits so far. Left
out: label fields, MBR types, USB serial and budget refusals, the Fill keys and
unit toggles, plain-disk plans of the form, the preview on 4Kn disks, and
writing from the form (that is MediaFlow's).

### Backups

**BackupFiles** is the directory: `file` is Absent, Part, Written, Whole or
Changed; `dir` is what processes see (names, and hidden entries of deletions),
`disk` what a power loss leaves; `created` are the backups reported as made.
**BackupDeletion** is planning and executing a deletion or pruning
(`application/backup.rs`, `backup_catalog/delete.rs`): `list`, `pins`, `scan`,
`unread` are the displayed list, what the user pinned in it, the session's fresh
scan; `plan`, `at`, `parcel` the fixed plan, the entry in hand and the file
isolated; `confirmed` the contents somebody confirmed; `disturbed` the disks
that lost a backup to others since the session's scan. **BackupStore** adds makers of backups
(`backup_store/create.rs`, `atomic_file.rs`: `draft`, `goal`), the display and
its cache (`display_catalog.rs`: `cache`, `shelf`, `unlisted`, `probe`), copies,
changes, the death of any process and power loss. `cast` are the processes of a
behaviour. Assumed of the file system: a rename between directories is atomic, the
changes of one directory reach the disk in order, those of several in any order.
Left out: a writer that keeps a backup open past the digest check, the user's
own renames during a scan, entry and weight budgets.

**BackupCapture, BackupContainer, DiskInspection, BackupReading**: what is
captured of a disk, the container's units, manifest and digests
(`edpb/`), what the inspector shows of a disk or a backup, and one container's
way: captured, written, changed or copied over by others, read unit by unit
through one open handle, verified, restored. A digest is what it is the digest
of; every write is taken to change the modification time. Left out:
containers of another level than metadata, budgets in bytes, codec wording.

`DiskInspection` follows `inspect_target.rs`, `application/inspect/` and
`inspect_tree/`: `Context` is InspectDiskContext, `DecoderOf` the decoder registry,
`InspectIn` one sector with its regions, content and what is told of it, `Answered` a
request for several (a backup that lacks some of the first sectors is asked for
those it has), `Tree` the tree that is browsed and `Located` the way to a sector.
`SourceReplay`, `ReplayWithFormats` and `NewImage` are the offline replay of a source
into a new file (`native_geometry.rs`, `native_image.rs`), `OrdinaryWrites` and
`NewOrdinary` a disk or a new file made ordinary (`provision/plain.rs`,
`native_virtual.rs`). A volume is its first sector there, and LBA3, which an ordinary
disk keeps, is not among the model's protocol sectors. Left out: texts, search,
export to files, new EDP images and regenerated LCEs.

### Formats

**DiskLayout**: MBR with extended chains, GPT with mirror
(`partition_table.rs`), and the map of a whole disk (`disk_layout.rs`).
**FormatPlans, Volumes**: the solvers and generators of FAT12/16/32 and exFAT,
and the drivers' and the analysis' readers, over formats of the same partition
in sequence. A label is none, the drivers' own "NO NAME", one that fits both, one whose
characters fit exFAT's field but whose bytes do not fit FAT's, or one that fits none.
**ProtocolSectors, ProtocolReaders, ProtocolImage**: LBA0..12 as
records enciphered under an identity, what generation writes, what the
observer, the strict parser and the profile detector make of an image, and a
disk's registrations one after another, possibly interrupted. `SectorView` is what
the inspector makes of each protocol sector: parsed, raw for want of an identity,
or refused. Ciphers are abstracted to "right identity or noise".

### The interface

**ProgressTransport** (`task.rs`, `task_progress.rs`,
`progress_transport.rs`): `slot` is ProgressSlot, `channel` the channel, `sent`
and `spilled` are ProgressRetention (by number of events; its byte budget works
likewise, and a failing log file changes only the wording), `taken` and `batch` the
running poll, `seen` what `apply_task_updates` got. Direct-style operations
bypass slot and budget. A poll holds the slot's lock to its end, the join
included. `OtherAnswer` stands for the other workers' answers.

**ScanSlots** is TaskSlot for the device and the backup list with the
CatalogSnapshot they share: the n-th request creates snapshot n, and dates are
request numbers, so that the content of an answer is the date of the oldest
thing read for it.

**OperationGate** (`state.rs`, `runtime_input.rs`, the features' states):
`focus`, `picker`, `stage` and three dialogs; `critical` and `exitPending`;
`active`, `planning`, `exporting`, `scanning` for the hub. Guards follow the order
`handle_key` asks its handlers in; `Request` is the confirmation pattern,
`DevicesScanned` is `replace_devices` with the target unchanged, exchanged or
absent; `ElevateRestore` ends the loop. Left out: the inspection workspace, help
and notice overlays, panes and field editing; the wizard's dialogs are one.

## 4. Runs

A model checker visits every state of a small instance; the bounds below are
the whole of what keeps the instances finite, and each is a guard named in its
module. `part` in a combined instance picks the component a behaviour follows.
Deadlock checking is off everywhere, because every system here may really stop:
the call returns, the user quits, the last request is answered.

**sector_transaction** (5 sectors, 4 plans of the entry points' shapes, batches of
2). `ContractSpec`: the executor implements MediaContract. `MbrLast`: LBA0 is
written last in every pass. `Terminates`: the call returns or the power goes.
Five sectors give single writes, a run of two, LBA0 and a sector outside the
plan; three rollback attempts are the code's own number.

**provisioning** (the entry points over every list of up to two LBAs and some of
three around LBA3, the metadata, the reserve and the end; 33600 target requests
on a disk of 110 sectors with the LCE at 100; forms with at most `MaxInputs` = 3
inputs). `MaxTotal` = 120 and `MaxU64` = 255 stand for the types' limits, so
that the overflow guards are met. `ExecutorCanRollBack`: every plan of an entry
point is well formed, and both passes end with the partition table.
`ScopeRespected`: it stays in the sectors its caller may touch.
`DataOpensAsAsked`: what a plan keeps, rewraps and rebuilds opens with the
password asked for, and no step of a plan that was accepted is refused later.
`PlanIsAsShown`: what the form forecasts is what the planner does, and the planner
refuses only for what the form cannot see (an unread file system, a legacy
record of another password, an older wrap). One exception is part of the property:
where the form holds for verified a password that the disk does not have (section
7), it may show a rewrap and the planner leave the key alone. That state takes
four inputs, so this run does not reach it; the proof met it, and runs with five
and eight inputs agree.
`AnswersMatchTheText`: a verification is only believed for the text it was made of.

**device_access** (a transaction of up to 3 of 4 blocks on a device that may lose
blocks at a sync, with 9 plans of which six are to be refused; one command
with `Timeout` 2, `PipeCapacity` 2, `OutputLimit` 3; two threads, two disks,
three volumes in seven stacks, one failing read passed over, two leases and two
mounts each). `ContractSpec` and
`MbrCommitsDurableData`: LBA0 is not written before the rest is durable.
`CommandsSettle`: an answer is whole and nothing is left running in the group.
`CallReturns`: with a child that never ends, too. `LeasesHold`: one lease per disk, no lock
outlives it, and no disk is held on which the platform sees the root.
`GrantedDisksAreIdle`: nothing that the platform sees on a granted disk is mounted.
Three volumes give partitions, one that spans disks, holders on holders, a partition
of a holder and a pooled root over two disks. What a platform does not see is left
out of both properties: said of all that lies on the disk (`OnDisk(stack.on, d)`)
they fail in this run, also without a failing read (section 7).

**interface** (the gate without bound; three scan requests of either list or
both; two operations with polls of four messages for 512 and a budget of three
events for 256, scripts that go past both). `ShownWriteIsGuarded`,
`DialogsBelongToOperations`, `GuardHasAWorker`: no key hides or abandons what
writes while its screen is open, and the guard comes down.
`DeferredExitHappens`, `EveryRequestAnswered`, `OperationEnds`: liveness.
`AnswersAreFresh`: an answer was read after the last request.
`NothingLostSilently`: every event is on the screen, under way, in the log, or
replaced by a later snapshot. It accounts for events one by one because a
snapshot that took the last budget place can be replaced in a poll's batch by a
later one although a diagnostic lay between: that diagnostic is in the log, and
the notice says so. `NeverBackwards`: what is shown never goes back.
`TerminalLossWaits`: where the terminal fails, a worker is waited for. The exit by a
key is the gate's: `media_write_not_abandoned` below shows it leave a worker.

**media_flow** (three media that start as copies of each other, two with serials;
two partitions, two files, 2 exchanges, 1 change by others, 2 operations;
symmetric in the files and the media with serials). `WritesHitTheirMedium`,
`BackupPrecedesProvisioning`, `SuccessMeansComplete`, `DamageIsReported`,
`NothingIsWrittenOverDamage`. Two exchanges bring a third medium in or the first one
back; two operations give a damage and what follows it.

**backup_store** (two names, backups 1 and 2 of one disk, 3 of a disk that
cannot be identified, 4 a copy; casts of two deletions, a deletion with a
maker, a deletion with the display, two makers; `MaxMeddling` 1, `MaxCrashes` 1,
`MaxSessions` 2). `NoBackupIsLost`: a backup reported as made is there, on the disk too,
until somebody who confirmed its content removes it. `OnlyConfirmedContentIsRemoved`.
`FloorHoldsUnlessDisturbed`: a deletion leaves its disk a backup unless another
session took one meanwhile. `DisplayShowsWhatTheStampMeans`: the displayed
digest is of the file with the displayed stamp. The last is checked with *one*
deletion beside the display: with two it fails for the model's stamp (f is isolated by
the first, g is put under its name and read, the second isolates g, the first
links f back, and the recheck sees f's stamp with g's digest). On Unix the
real fingerprint holds the change time, which link and rename advance; on
Windows (`display_catalog.rs:37-45`) it does not.

**formats** (partitions of every size at which a solver changes its answer, for
512 and 4096 bytes, at most two formats of each; disks of 80 and 96 sectors with
nine text triples and two identities that share a fold; backups of 19 disks, 2
copied over, and manifests with one field edited, protocol sectors scaled to
four). `FormattedVolumesReadBack`, `RegistrationsReadBack`,
`LastOwnerRecognised`, `ContainersReadBack`, `RestoresWhatWasShown`,
`LayoutsTile`, `BackupsShowTheDisk`: what is written is read as what it is, by
each of the readers that reads it. In particular, `RegistrationsReadBack` covers the
summary and the inspector's view of every protocol sector; `LayoutsTile` asks the
drawn layout, the regions, the decoders, the tree and a form's draft of a disk to
agree on every sector, a plan for an ordinary disk to be fillable to its
neighbour and no further, and the disk made so, or a new file, to read back as
planned with nothing left of an LCE; `BackupsShowTheDisk` asks the same answer to
the same request of a disk and of its backup, and that the source replayed into a
new file, with formats, is that disk with those volumes. Bounds: `MaxCompared` 12 and
`MaxInspected` 16 sectors in a comparison or request, `MaxEbrChain` 4 records,
`ArraySectors` 2, the code's limits scaled to disks of 16 to 30 sectors.

Each property has a wrong variant next to the definition it breaks ("Wrong
variant, to test ..."): put in the definition's place it makes that property
fail, which shows that the run reaches the case.

Five runs expect a violation; section 7 says of what.

## 5. Fairness

* Transactions: weak fairness of the executor's own `Step`: one thread, and the
  device's calls return. Evictions and power loss are not fair.
* Commands: weak fairness of `RunCommand` and of the clock's `Tick`, never of the
  child, which may hang.
* Transport: weak fairness of the interface's loop, strong fairness of the
  worker, which needs the slot's lock only between polls and so is enabled again
  and again without staying enabled. Starting an operation and losing the
  terminal are not fair.
* Scans: weak fairness of the scanning threads and of the poll, none of requests.
* Gate: weak fairness of the operation's and the export's end, which their worker
  threads bring about; none of keys.
* Everything else is safety only.

## 6. Proofs

Eight modules, checked by TLAPS from nothing. The theorems to know of are under
`theorems` in PROJECT.json; each is for every value of the constants that the
named assumptions admit.

**SectorTransactionProofs** (`TransactionAssumption`, of which `IsPlan` is what
`PlansCanBeRolledBack` below proves of the entry points). `IInv` says that the
mirror holds the old bytes of what was read (MirrorInv), that view and medium
agree where no write is outstanding (CleanInv), that what a loop has verified
holds (VerifiedInv), that nothing outside the plan changed (UntouchedInv), that
`acked` are the sectors already passed (AckedInv), and what a verdict means
(VerdictInv). Alone, VerdictInv is not inductive: that a comparison's success
implies the medium is right needs all the others. The refinement maps the last
comparison, the refusals and the last failed rollback to `Report`, every other
step to a change of planned sectors or a stutter. `MbrLast` follows because a batch
that holds LBA0 begins with it, and LBA0 ends the order.

**NativeTransactionProofs** (`NativeAssumption`). The same by phases, on a device
that may lose blocks at a sync: a block is durable only from the barrier's
readback on, and until then it may be lost. `MbrIsCommitRecord` is about the
forward commit: once a rollback begins the MBR may be new while other blocks are
being put back.

**DeviceAccessProofs** (`VolumesAssumption`, `RootAssumption`,
`NobodyAssumption`, `DisksAssumption`, `StacksAssumption`, `CommandAssumption`). The walk up the
holders ends after as many rounds as there are volumes and comes to all that it
is led to, by cardinality and induction on subsets (stated for one set, since the
library's schemes are out of reach). A granted disk is idle, as far as the platform
sees, because what could be mounted from it is locked or seen unmounted after the
lease. `LinuxSeesPlainStacks` gives the conditions under which Linux sees all of
it: no partition of a holder, no pooled file system, no read passed over. For commands: a stream
seen to its end gains no writer, and on Windows whatever runs is in the job.
Taken from the systems: SIGKILL works, a pid is not reused under a wait, no volume
appears on Windows between enumeration and locking, `diskutil`'s success means
unmounted.

**InterfaceProofs** (`RequestsAssumption`). For the gate, which screen a key
meets decides what can begin; the guard's invariant ties `critical` to the
dialogs and the hub. For the scans, each snapshot's answer is dated no earlier
than its request, a running worker is its list's, and what waits is the latest.

**ProgressTransportProofs** (`TransportAssumption`). The four places of a message
(slot, channel, batch, screen) are one pipe in order, and every published event
is in it, on the log's list, or older than a snapshot that replaced it
(AccountInv).

**MediaFlowProofs** (`ImagesAssumption`). A live handle is the port; a lease
still Held means the image is what was read under it; an exchange takes both
away; a backup's identity gives its kind away. Each flow adds what its steps have
checked so far.

**BackupStoreProofs** (`ProcessesDiffer`, `ShelvesAssumption`: a file has one
name; `UnidentifiedIsNoGroup`, `NoneIsNoFile`, `FilesAreNumbered`). A file has one
firm place: its name, the hidden directory of a deletion that has not linked it
back, or a left one; a deletion that linked it back holds only an echo. A file
that must not be lost is firm in the directory and has a place on the disk that
no deletion is about to release. Every step is of one of seven kinds (quiet, a
sync, an appearance, an isolation, a drop, a change aside, a power loss), and
the invariant is kept kind by kind. For the floor, a file keeps one name for
life, so a scan is one-to-one, the plan spares a whole backup of each disk, and
that one stays unless `disturbed` says so.

`CachedIsWhatWasStamped`, in the same module, is about the display. A digest
read of another file than the one stamped means that the stamped file left its
name or was changed; it comes back under its name only if one deletion holds it
and another clears the name for it. So with one deletion beside the display
(`OneDeletionBesideTheDisplay`, a premise on `Casts`: the interface runs one
operation at a time, a command line beside it is another) a stamp that is still
there at the recheck vouches for what was read. Its invariant adds to the
floor's who takes part (`CastInv`) and what a probe has under way (`ProbeInv`).

**ProvisioningProofs** (`RequestsAssumption`, `SizesArePositive`,
`NoneIsNothing`, `TargetsAssumption`: registered partitions of a readable
source are valid and apart, `provision/reprovision/parsing.rs:176-300`;
`FormsAssumption`). A member's rank is how many lie below it, so sorting
enumerates (an injection of 0..n-1 into itself is onto); stage orders and entry
points follow. Layouts: every role of a mode has an extent, the accepted ones lie
behind sector 63, before the LCE and apart from each other; so `Consistent`
holds of every plan that is not refused, the commit and every format are
accepted, and what is kept lies outside what is written. A kept partition has
its own key because registered partitions are apart. A verification under way is
of the text in its field. The invariant is `FormInv`. The stage order goes by a
sector's owner and not by its LBA: a plain disk's file system may start at LBA4
and cover old metadata sectors.

`FormsArePlannedAsShown`, in the same module, sets the form's rules against the
planner's. First, the request spells out the form's whole layout, so the planner's
edits lead to the same one. Then partition by partition, formatted or kept, with
or without a key: which verdict `MaySubmit` lets through, what the request
carries for it, and what the planner makes of that. Last, if nothing is hidden,
none of the planner's refusals applies: the image fits because the LCE's sectors
do (`protocol/lba7_compat.rs`, in `FormsAssumption`). It needs SettledInv beside
`FormInv`: a source field left empty has failed its verification, so no password
that counts as verified is missing from the request.

Only model-checked:

* `FormattedVolumesReadBack`, `RegistrationsReadBack`, `LastOwnerRecognised`,
  `ContainersReadBack`, `RestoresWhatWasShown`, `LayoutsTile`,
  `BackupsShowTheDisk`: what folds over sequences and sets compute of data, which
  needs induction schemes the provers cannot instantiate.
* `Terminates`, `CallReturns`, `DeferredExitHappens`, `EveryRequestAnswered`,
  `OperationEnds`: liveness under fairness.

## 7. Where code and its documents disagree

Found by a run (`findings` in PROJECT.json has the quotes and the counterexamples):

* `media_write_not_abandoned`: a refresh that misses the target resets a running
  provisioning (`tui/state.rs:453`), after which `q` may end the process under it.
* `plan_belongs_to_form`: a plan's result is applied to whatever form is open
  (`tui/provision/runtime_updates.rs:28`).
* `plain_restore_clears`: a restore after an interrupted provisioning of an
  ordinary disk leaves remains (`application/write/restore_plan.rs:190`).
* `retention_floor`: the floor is not rechecked at execution
  (`application/backup.rs:222`).
* `unverified_reuse`: a rebuild may use the unverified source field
  (`application/provision/preflight.rs:333`).

Met while modelling, kept in the modules as the code has them:

* Linux may grant a disk on which something is mounted, or the root lies: under a
  partition of a holder, under btrfs, whose mounts carry a number that no device has
  (`platform/linux.rs:192`), or behind a path or a list of holders that could not be
  read and is passed over (`:117`, `:135`). The comment at `:128` wants holders
  taken in so that the root's disk is not taken for another, and `README.md:151` that
  an unknown system disk stops the program. macOS knows of a root that is not APFS
  only its `ParentWholeDisk` (`platform/macos.rs:280`).
* A boot partition registered at LBA2048 or later is seen as an ordinary disk's.
* The observer shows a mode for a copy on a smaller disk that the strict parser
  refuses; rekeying one partition of a disk with AES or legacy wraps leaves
  mixed wraps that no LBA12 profile accepts.
* The form's spinner stays after leaving the form; the form is not reset after a
  successful write; `provision_finish_plan` stores that the planner knows a
  password, although the text in the form may be another than the one it tried, so
  the form may then show a rewrap where the plan keeps the key.
* The native 4Kn probe uses `opaque_profile` in the opposite sense of the 512-byte one.
* The FAT16 label "NO NAME" is accepted and can never be verified
  (`docs/user/USAGE.md:348`); the FAT16 solver oscillates at some sizes (4160
  sectors) and refuses them.
* Texts with a GBK trail byte 0x7C, or that start with "*^$@", are refused.
* Linux's `linux_block_names` is cached for the life of the process
  (`docs/user/USAGE.md:129`).
* The inspector's regions show the tail mirror from 1024 sectors on, the layout
  needs 1033; a GPT entry may overlap its own table, and then there is no layout.
* A v3 manifest's partition list is not compared with its LBA12; the coverage
  counts sectors of extents outside their region; a core-level plain container
  of an older version would restore LBA0-12.

## 8. Not modelled

* Command line: the same services, one after another, without state of its own.
* Terminal rendering: presentation. Inspection workspace: browsing; its task
  slots are further instances of the slot ScanSlots models.
* Ciphers, digests, compression and text codecs: abstracted to what their
  outcome tells apart.
* Parts of modelled components are listed as "Left out" in section 3 and in the
  components' notes.

---------------------------- MODULE ProvisionFlow ----------------------------
(***************************************************************************)
(* Provisioning a medium, from the plan to the receipt: the read-only      *)
(* preparation (application/provision/prepare.rs), the mandatory backup    *)
(* and its two verifications (provision.rs, write/backup.rs), the commit   *)
(* under the write lease with its readback, and the formats of the new     *)
(* partitions, which stop at the first failure (provision/commit.rs).      *)
(* Every reading of the medium, the index and the backup directory is a    *)
(* step of its own.                                                        *)
(***************************************************************************)
EXTENDS TargetSession

CONSTANT Targets   \* the protocol images the user's plans lead to

Provisioning == op = "Provision"

Edp(i) == i.kind = "Edp"

\* The first of the partitions still to be formatted.
First(ps) == CHOOSE p \in ps : \A q \in ps : p <= q

\* What the commit compares besides the pin: HardwareProbe and the capacity.
ProbeOf(h) == <<h.vid, h.pid, h.sectors>>

\* An error without a media state ends the operation.
GiveUp ==
  /\ Provisioning
  /\ step \in {"Read", "Pin", "Backup", "Store", "Verify", "Commit", "Session",
               "Prepare", "Reopen", "Snapshot", "Reverify", "Write", "Readback"}
  /\ Finish("Error")
  /\ UNCHANGED <<media, environment, files, operations, damage, outcome>>
-----------------------------------------------------------------------------
(***************************************************************************)
(* prepare_provision.  The index is probed, the image is read through the  *)
(* handle, the index is probed again for the pin.  An official plan ends   *)
(* by reading LBA3 through the handle; an ordinary one does not.           *)
(***************************************************************************)
StartProvision ==
  /\ op = "None" /\ operations < MaxOperations /\ port # None
  /\ \E target \in Targets, formats \in SUBSET Partitions :
       /\ formats # {} => Edp(target)
       /\ job' = [target |-> target, formats |-> formats, left |-> formats, backup |-> None]
  /\ op' = "Provision" /\ step' = "Read"
  /\ operations' = operations + 1
  /\ handle' = port
  /\ probe' = ProbeOf(Hardware[port])
  /\ status' = "None" /\ damage' = {} /\ outcome' = None
  /\ UNCHANGED <<media, environment, files, lease, geometry, pin, seen, expect>>

ReadSource ==
  /\ Provisioning /\ Go("Read", "Pin")
  /\ Alive
  /\ seen' = image[handle]
  /\ UNCHANGED <<media, environment, files, operations, op, handle, lease,
                 geometry, job, probe, pin, expect, status, damage, outcome>>

PinSource ==
  /\ Provisioning /\ Go("Pin", "Backup")
  /\ port # None
  /\ seen.kind # "Torn"
  /\ job.formats # {} => Usable(Hardware[port])
  /\ Edp(job.target) => Alive
  /\ pin' = [hw |-> Hardware[port], image |-> seen]
  /\ handle' = None
  /\ UNCHANGED <<media, environment, files, operations, op, lease, geometry,
                 job, probe, seen, expect, status, damage, outcome>>
-----------------------------------------------------------------------------
(***************************************************************************)
(* backup_create_on_disk: a new handle, checked for the identity the plan  *)
(* was made for; the observation; and the readings that go into the file,  *)
(* after the index was probed.  An EDP backup keeps the image, an ordinary *)
(* one keeps the partition table only.                                     *)
(***************************************************************************)
ReadForBackup ==
  /\ Provisioning /\ Go("Backup", "Store")
  /\ port # None
  /\ handle' = port
  /\ Edp(pin.image) => image[port].label = pin.image.label
  /\ seen' = image[port]
  /\ UNCHANGED <<media, environment, files, operations, op, lease, geometry,
                 job, probe, pin, expect, status, damage, outcome>>

Backup(h, i, table) == [hw |-> h, image |-> [i EXCEPT !.table = table]]

StoreBackup ==
  /\ Provisioning /\ Go("Store", "Verify")
  /\ port # None /\ Alive
  /\ seen.kind # "Torn"
  /\ \E f \in Files :
       /\ files[f] = None
       /\ files' = [files EXCEPT ![f] =
            Backup(Hardware[port], seen,
                   IF Edp(seen) THEN seen.table ELSE image[handle].table)]
       /\ job' = [job EXCEPT !.backup = f]
  /\ handle' = None
  /\ UNCHANGED <<media, environment, operations, op, lease, geometry, probe,
                 pin, seen, expect, status, damage, outcome>>

\* Wrong variant, to test BackupPrecedesProvisioning: the identity in the file
\* is not compared with the plan's.
BackupIsOfAnyHardware(b) ==
  /\ b.image.kind = seen.kind
  /\ IF Edp(seen) THEN b.image = pin.image ELSE b.image.table = pin.image.table

(***************************************************************************)
(* verify_mandatory_backup_pin: the file's identity satisfies the pin, and *)
(* its raw sectors are the plan's, as far as that kind of file keeps them. *)
(* seen is still the image the backup was made from: its kind decides      *)
(* which raw sectors are looked for.                                       *)
(***************************************************************************)
BackupIsOfPin(b) ==
  /\ PinAcceptsHardware(pin, b.hw)
  /\ b.image.kind = seen.kind
  /\ IF Edp(seen) THEN b.image = pin.image ELSE b.image.table = pin.image.table

VerifyBackup ==
  /\ Provisioning /\ Go("Verify", "Commit")
  /\ files[job.backup] # None /\ BackupIsOfPin(files[job.backup])
  /\ expect' = files[job.backup]
  /\ UNCHANGED <<media, environment, files, operations, op, handle, lease,
                 geometry, job, probe, pin, seen, status, damage, outcome>>

\* commit_provision_on_disk: the file is verified again, and is the same.
OpenForCommit ==
  /\ Provisioning /\ Go("Commit", "Session")
  /\ files[job.backup] # None /\ BackupIsOfPin(files[job.backup])
  /\ files[job.backup] = expect
  /\ port # None
  /\ handle' = port
  /\ UNCHANGED <<media, environment, files, operations, op, lease, geometry,
                 job, probe, pin, seen, expect, status, damage, outcome>>
-----------------------------------------------------------------------------
OpenProvision    == Provisioning /\ Open("Session", "Prepare")
PrepareProvision == Provisioning /\ Prepare("Prepare", "Reopen")
ReopenProvision  == Provisioning /\ Reopen("Reopen", "Snapshot")

\* Wrong variant, to test WritesHitTheirMedium: the reopened medium
\* is not compared with the plan's source.
SnapshotUnread == Provisioning /\ Check("Snapshot", "Reverify", Alive)

\* verify_reopened_snapshot, and the image half of the pin.
VerifySnapshot ==
  Provisioning /\ Check("Snapshot", "Reverify", Alive /\ image[handle] = pin.image)

(***************************************************************************)
(* The hardware half of the pin, the probe, the capacity and the digest of *)
(* the serial, all asked of the index; LBA3, read through the handle.      *)
(***************************************************************************)
VerifyHardware ==
  Provisioning /\ Check("Reverify", "Write",
    /\ port # None
    /\ PinAcceptsHardware(pin, Hardware[port])
    /\ ProbeOf(Hardware[port]) = probe
    /\ job.formats # {} => Hardware[port].serial = pin.hw.serial
    /\ Edp(job.target) => Alive)

(***************************************************************************)
(* The protocol transaction.  An ordinary plan formats its partitions in   *)
(* the same transaction.                                                   *)
(***************************************************************************)
WriteProvision ==
  /\ Provisioning /\ step = "Write" /\ Alive
  /\ \/ /\ image' = [image EXCEPT ![handle] = job.target]
        /\ parts' = IF Edp(job.target) THEN parts
                    ELSE [parts EXCEPT ![handle] =
                            [p \in Partitions |-> Layout(job.target, p)]]
        /\ step' = "Readback"
        /\ UNCHANGED <<op, handle, lease, geometry, job, probe, pin, seen,
                       expect, status, damage>>
     \/ /\ Finish("RolledBack")
        /\ UNCHANGED <<media, damage>>
     \/ /\ \E i \in Torn(image[handle], job.target) : image' = [image EXCEPT ![handle] = i]
        /\ damage' = damage \cup {<<handle, ProtocolArea>>}
        /\ Finish("Intermediate")
        /\ UNCHANGED parts
  /\ UNCHANGED <<environment, files, operations, outcome>>

\* verify_protocol_readback, verify_lce_readback, the ordinary plan's readback.
ReadbackProvision ==
  Provisioning /\ Check("Readback", IF job.left = {} THEN "Release" ELSE "FormatCheck",
                        Alive /\ image[handle] = job.target)
-----------------------------------------------------------------------------
(***************************************************************************)
(* execute_selected_formats.  A format checks the hardware and the         *)
(* protocol, writes one partition, checks them again; its first failure is *)
(* the receipt's, and the remaining formats are skipped.                   *)
(***************************************************************************)
FormatsOnReviewedMedium ==
  /\ port # None
  /\ ProbeOf(Hardware[port]) = probe
  /\ Known(pin.hw.serial) /\ Hardware[port].serial = pin.hw.serial
  /\ Alive /\ image[handle] = job.target

CheckFormat == Provisioning /\ Check("FormatCheck", "FormatWrite", FormatsOnReviewedMedium)

\* Wrong variant, to test NothingIsWrittenOverDamage: a format that left its
\* partition in between is one failure among others.
WriteFormatAndGoOn ==
  /\ Provisioning /\ step = "FormatWrite" /\ Alive
  /\ \E l \in {Layout(job.target, First(job.left)), Ruined} :
       /\ parts' = [parts EXCEPT ![handle][First(job.left)] = l]
       /\ damage' = IF l = Ruined THEN damage \cup {<<handle, First(job.left)>>} ELSE damage
  /\ step' = "FormatVerify"
  /\ UNCHANGED <<environment, files, operations, outcome, image, op, handle,
                 lease, geometry, job, probe, pin, seen, expect, status>>

WriteFormat ==
  /\ Provisioning /\ step = "FormatWrite" /\ Alive
  /\ \/ /\ parts' = [parts EXCEPT ![handle][First(job.left)] = Layout(job.target, First(job.left))]
        /\ step' = "FormatVerify"
        /\ UNCHANGED <<op, handle, lease, geometry, job, probe, pin, seen,
                       expect, status, damage>>
     \/ /\ Finish("FormatRolledBack")
        /\ UNCHANGED <<parts, damage>>
     \/ /\ parts' = [parts EXCEPT ![handle][First(job.left)] = Ruined]
        /\ damage' = damage \cup {<<handle, First(job.left)>>}
        /\ Finish("Intermediate")
  /\ UNCHANGED <<image, environment, files, operations, outcome>>

VerifyFormat ==
  /\ Provisioning /\ step = "FormatVerify" /\ FormatsOnReviewedMedium
  /\ job' = [job EXCEPT !.left = @ \ {First(@)}]
  /\ step' = IF job'.left = {} THEN "Release" ELSE "FormatCheck"
  /\ UNCHANGED <<media, environment, files, operations, op, handle, lease,
                 geometry, probe, pin, seen, expect, status, damage, outcome>>

\* Wrong variant, to test SuccessMeansComplete: a format that was not made is
\* only a warning.
FormatFailureIsAWarning ==
  /\ Provisioning /\ step = "FormatWrite"
  /\ step' = "Release"
  /\ UNCHANGED <<media, environment, files, operations, op, handle, lease,
                 geometry, job, probe, pin, seen, expect, status, damage, outcome>>

\* A failure before the write leaves the partition, one after it is unknown.
FailFormat ==
  /\ Provisioning
  /\ \/ step \in {"FormatCheck", "FormatWrite"} /\ Finish("PartialFormat")
     \/ step = "FormatVerify" /\ Finish("Unknown")
  /\ UNCHANGED <<media, environment, files, operations, damage, outcome>>
-----------------------------------------------------------------------------
\* The commit returns: the lease is dropped with its session.
ReleaseProvision ==
  /\ Provisioning /\ Go("Release", "Lineage")
  /\ handle' = None /\ lease' = "Free"
  /\ UNCHANGED <<media, environment, files, operations, op, geometry, job,
                 probe, pin, seen, expect, status, damage, outcome>>

\* record_lineage_after_commit observes the index once more; it only warns.
RecordLineage ==
  /\ Provisioning /\ step = "Lineage"
  /\ \/ port # None /\ Finish("Success")
     \/ Finish("CompletedWithWarnings")
  /\ UNCHANGED <<media, environment, files, operations, damage, outcome>>

ProvisionNext ==
  \/ StartProvision \/ ReadSource \/ PinSource
  \/ ReadForBackup \/ StoreBackup \/ VerifyBackup \/ OpenForCommit
  \/ OpenProvision \/ PrepareProvision \/ ReopenProvision
  \/ VerifySnapshot \/ VerifyHardware \/ WriteProvision \/ ReadbackProvision
  \/ CheckFormat \/ WriteFormat \/ VerifyFormat \/ FailFormat
  \/ ReleaseProvision \/ RecordLineage \/ GiveUp
=============================================================================

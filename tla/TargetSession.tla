---------------------------- MODULE TargetSession ----------------------------
(***************************************************************************)
(* The way every operation reaches a storage medium: the disk index the    *)
(* user chose, what is plugged in behind it, the handle that was opened    *)
(* through it, the typed session that leads from reading to writing        *)
(* (src/src/application/target_session.rs: ReadOnly, PreparedWrite,        *)
(* WriteLocked), and the others who share the medium: a user who exchanges *)
(* it, programs that write to it or to the backup directory.               *)
(*                                                                         *)
(* A handle reaches the medium it was opened on for as long as that medium *)
(* stays plugged in; a probe asks for whatever is behind the index now.    *)
(* The flows (ProvisionFlow, RestoreFlow) supply what each reading checks. *)
(***************************************************************************)
EXTENDS MediaIdentity

CONSTANTS
  Media,          \* the storage media a user may plug in
  Hardware,       \* Hardware[m]: the evidence a probe finds on medium m
  Partitions,     \* the partitions of a layout
  Files,          \* the names of backup files
  None,           \* no medium, no file, no pin
  FirstImages,    \* the protocol images other programs put on a medium
  FirstMedia,     \* what the media may carry before the program runs
  MaxExchanges,   \* how often the medium behind the index is exchanged
  MaxMeddles,     \* how often another program writes to a medium or a backup
  MaxOperations   \* how many operations the user starts

ASSUME MediaAssumption == None \notin Media
ASSUME FirstMediaAssumption == FirstMedia \subseteq [Media -> FirstImages]
ASSUME PartitionsAssumption == Partitions \subseteq Nat \ {0}
ASSUME LimitAssumption ==
  MaxExchanges \in Nat /\ MaxMeddles \in Nat /\ MaxOperations \in Nat

(***************************************************************************)
(* What a medium carries.  Its protocol image (LBA0-12 and what they point *)
(* at) is [kind, label, table, key]: an ordinary disk, an EDP disk, or the *)
(* remains of an interrupted write; the identity in LBA4; the partition    *)
(* table; each partition's key record.  parts[m][p] says for which layout  *)
(* partition p's file system was written.                                  *)
(***************************************************************************)
VARIABLES
  image,      \* the protocol image of each medium
  parts,      \* the file systems of each medium
  port,       \* the medium behind the disk index, or None
  files,      \* the backup directory: a backup by its name, or None
  exchanges, meddles, operations   \* the bounds' counters

VARIABLES
  op,         \* the running operation, or "None"
  step,       \* where it stands; "Idle" between operations
  handle,     \* the medium the open handle reaches; None: closed, or dead
  lease,      \* the write lease: "Free", "Held", or "Lost" with its medium
  geometry,   \* the geometry the session recorded when it was opened
  job,        \* what was asked for
  probe,      \* the hardware the preparation probed
  pin,        \* the identity the operation is bound to: [hw, image], or None
  seen,       \* the image last read for a plan
  expect,     \* the backup whose digest the operation remembers
  status,     \* how the last operation ended
  damage,     \* what writes left neither old nor new: image or partitions
  outcome     \* the finished restore the follow-up screen works on

environment == <<port, exchanges, meddles>>
media       == <<image, parts>>
vars == <<image, parts, port, files, exchanges, meddles, operations, op, step,
          handle, lease, geometry, job, probe, pin, seen, expect, status,
          damage, outcome>>

GeometryOf(m) == <<Hardware[m].sectors, Hardware[m].sectorSize>>

\* The layout a file system in partition p of a medium with image i belongs to.
Layout(i, p) == <<i.kind, i.table, i.key[p]>>

NoLayout == <<"None">>
Ruined   == <<"Ruined">>     \* a write into the partition was interrupted

\* What an interrupted write of new over old leaves: no valid protocol, with
\* the identity sector already new or still old.
Torn(old, new) == {[new EXCEPT !.kind = "Torn", !.label = l] : l \in {old.label, new.label}}

ProtocolArea == 0            \* the part of a medium that is not a partition

Alive == handle # None
-----------------------------------------------------------------------------
(***************************************************************************)
(* The others.  Pulling a medium out kills the handle on it and, unseen,   *)
(* ends what the lease did for it: the medium was unmounted and locked,    *)
(* the one plugged in now is not.  Other programs are kept off a medium by *)
(* the lease and by nothing else.                                          *)
(***************************************************************************)
Exchange ==
  /\ exchanges < MaxExchanges
  /\ \E m \in (Media \cup {None}) \ {port} : port' = m
  /\ exchanges' = exchanges + 1
  /\ handle' = None
  /\ lease' = IF lease = "Held" THEN "Lost" ELSE lease
  /\ UNCHANGED <<media, files, meddles, operations, op, step, geometry,
                 job, probe, pin, seen, expect, status, damage, outcome>>

MeddleWithMedium ==
  /\ meddles < MaxMeddles /\ lease # "Held" /\ port # None
  /\ \E i \in FirstImages \ {image[port]} : image' = [image EXCEPT ![port] = i]
  /\ meddles' = meddles + 1
  /\ UNCHANGED <<parts, port, files, exchanges, operations, op, step, handle,
                 lease, geometry, job, probe, pin, seen, expect, status,
                 damage, outcome>>

\* Another process removes a backup, or puts another one in its place.
MeddleWithBackup ==
  /\ meddles < MaxMeddles
  /\ \E f, g \in Files :
       /\ files[f] # None /\ f # g
       /\ files' = [files EXCEPT ![f] = files[g]]
  /\ meddles' = meddles + 1
  /\ UNCHANGED <<media, port, exchanges, operations, op, step, handle, lease,
                 geometry, job, probe, pin, seen, expect, status, damage,
                 outcome>>
-----------------------------------------------------------------------------
(***************************************************************************)
(* The session's transitions, for the flows to take with their own steps.  *)
(***************************************************************************)
Go(from, to) == step = from /\ step' = to

\* open_usb: guards the disk and records its geometry.
Open(from, to) ==
  /\ Go(from, to)
  /\ port # None
  /\ geometry' = GeometryOf(port)
  /\ UNCHANGED <<media, environment, files, operations, op, handle, lease, job,
                 probe, pin, seen, expect, status, damage, outcome>>

\* prepare_write: the geometry is still the recorded one; unmounts and locks.
Prepare(from, to) ==
  /\ Go(from, to)
  /\ port # None /\ GeometryOf(port) = geometry
  /\ lease' = "Held"
  /\ UNCHANGED <<media, environment, files, operations, op, handle, geometry,
                 job, probe, pin, seen, expect, status, damage, outcome>>

\* reopen_and_verify, up to the caller's verification.
Reopen(from, to) ==
  /\ Go(from, to)
  /\ port # None /\ GeometryOf(port) = geometry
  /\ handle' = port
  /\ UNCHANGED <<media, environment, files, operations, op, lease, geometry,
                 job, probe, pin, seen, expect, status, damage, outcome>>

\* A reading through the handle, or of the index, that passed its checks.
Check(from, to, passed) ==
  /\ Go(from, to)
  /\ passed
  /\ UNCHANGED <<media, environment, files, operations, op, handle, lease,
                 geometry, job, probe, pin, seen, expect, status, damage, outcome>>

\* An operation ends: its session and its handle are dropped.
Finish(result) ==
  /\ op' = "None" /\ step' = "Idle"
  /\ handle' = None /\ lease' = "Free" /\ geometry' = None
  /\ job' = None /\ probe' = None /\ pin' = None /\ seen' = None /\ expect' = None
  /\ status' = result
=============================================================================

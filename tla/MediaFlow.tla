------------------------------ MODULE MediaFlow ------------------------------
(***************************************************************************)
(* Everything that writes to a medium through a disk index, one operation  *)
(* after another, while media are exchanged and other programs write: the  *)
(* provisioning and the restore flows over the common session.             *)
(***************************************************************************)
EXTENDS ProvisionFlow, RestoreFlow

(***************************************************************************)
(* An ordinary disk has no identity in LBA4 and an EDP disk has one, as    *)
(* every disk that was registered has; an EDP disk that others robbed of   *)
(* its LBA4 alone is left out.                                             *)
(***************************************************************************)
WellFormed(i) ==
  /\ DOMAIN i = {"kind", "label", "table", "key"}
  /\ i.kind \in {"Plain", "Edp", "Torn"}
  /\ i.kind = "Plain" => i.label = Missing
  /\ i.kind = "Edp" => i.label # Missing

ASSUME ImagesAssumption == \A i \in FirstImages \cup Targets : WellFormed(i)

Init ==
  /\ image \in FirstMedia
  /\ parts = [m \in Media |-> [p \in Partitions |-> NoLayout]]
  /\ port \in Media
  /\ \E f \in Files, m \in Media, i \in FirstImages :
       files = [g \in Files |-> IF g = f THEN Backup(Hardware[m], i, i.table) ELSE None]
  /\ exchanges = 0 /\ meddles = 0 /\ operations = 0
  /\ op = "None" /\ step = "Idle" /\ handle = None /\ lease = "Free"
  /\ geometry = None /\ job = None /\ probe = None /\ pin = None
  /\ seen = None /\ expect = None
  /\ status = "None" /\ damage = {} /\ outcome = None

Next == Exchange \/ MeddleWithMedium \/ MeddleWithBackup
        \/ ProvisionNext \/ RestoreNext \/ FollowUpNext

Spec == Init /\ [][Next]_vars
-----------------------------------------------------------------------------
\* The program changed medium m in this step.
Writes(m) ==
  /\ meddles' = meddles
  /\ image'[m] # image[m] \/ parts'[m] # parts[m]

(***************************************************************************)
(* Whatever is exchanged and whenever, a write reaches the medium plugged  *)
(* in now, and only the one it was authorised for.  Provisioning writes to *)
(* hardware its pin accepts; a restore to the very medium its backup was   *)
(* made of, as told by a usable serial; a partition is formatted, or its   *)
(* keys rebuilt, only on the medium that was restored.  Under a lease that *)
(* was not lost with a medium pulled out meanwhile, that medium still      *)
(* carries the protocol that was reviewed, authorised or just written.     *)
(***************************************************************************)
WritesHitTheirMedium ==
  [][\A m \in Media : op # "None" /\ Writes(m) =>
       /\ lease # "Free" /\ port = m
       /\ CASE Provisioning -> PinAcceptsHardware(pin, Hardware[m])
            [] Restoring    -> /\ CompareUsableSerials(expect.hw, Hardware[m]) = "Match"
                               /\ expect.hw.sectors = Hardware[m].sectors
            [] FollowingUp  -> PinAcceptsHardware(outcome.pin, Hardware[m])
       /\ lease = "Held" =>
            image[m] = CASE Provisioning -> IF step = "Write" THEN pin.image ELSE job.target
                         [] Restoring    -> seen
                         [] FollowingUp  -> outcome.pin.image]_vars

(***************************************************************************)
(* When provisioning first changes a medium, under a lease that was not    *)
(* lost, the backup it verified is of that hardware and of what the medium *)
(* holds at that moment: the whole protocol of an EDP disk, the partition  *)
(* table of an ordinary one.                                               *)
(***************************************************************************)
BackupPrecedesProvisioning ==
  [][\A m \in Media : Provisioning /\ step = "Write" /\ lease = "Held" /\ Writes(m) =>
       /\ PinAcceptsHardware([hw |-> expect.hw], Hardware[m]) \/ ~Usable(pin.hw)
       /\ expect.image.kind = image[m].kind
       /\ expect.image.table = image[m].table
       /\ Edp(image[m]) => expect.image = image[m]]_vars

(***************************************************************************)
(* A commit that reports success leaves its whole plan on the medium: the  *)
(* protocol, and every partition that was to be formatted.                 *)
(***************************************************************************)
SuccessMeansComplete ==
  [][Provisioning /\ step = "Release" /\ Alive /\ lease = "Held" /\ step' = "Lineage" =>
       /\ image[handle] = job.target
       /\ \A p \in job.formats : parts[handle][p] = Layout(job.target, p)]_vars

(***************************************************************************)
(* Once a write was interrupted, the operation, and the screen after it,   *)
(* write nothing more: only a new restore or a new plan does.              *)
(***************************************************************************)
NothingIsWrittenOverDamage ==
  [][\A m \in Media : Writes(m) => damage = {}]_vars

\* An interrupted write is never reported as an ordinary failure, and the
\* screen after it has lost its authority over the medium.
DamageIsReported ==
  op = "None" /\ damage # {} =>
    status = "Intermediate" /\ (outcome # None => outcome.pin = None)

(***************************************************************************)
(* A restore of an ordinary disk's backup that reports success leaves no   *)
(* remains of an EDP protocol on the medium.                               *)
(***************************************************************************)
PlainRestoreClearsProtocol ==
  [][Restoring /\ step = "Write" /\ step' = "Observe" /\ expect.image.kind = "Plain" =>
       image'[handle].kind = "Plain"]_vars
=============================================================================

---------------------------- MODULE MediaIdentity ----------------------------
(***************************************************************************)
(* Who a storage medium is: the evidence the program collects about it     *)
(* (src/src/media_identity.rs), how two pieces of evidence are compared,   *)
(* and the three decisions that rest on the comparison: whether a backup   *)
(* is offered for a medium, whether it may be restored to it, and whether  *)
(* a medium seen again is the one a plan was made for.                     *)
(*                                                                         *)
(* Hardware evidence is a record [serial, quality, vid, pid, sectors,      *)
(* sectorSize], protocol evidence a record [device, onlyid]; a field that  *)
(* was not observed is Missing.  A digest stands for the value it is of.   *)
(***************************************************************************)
EXTENDS Naturals

CONSTANT Missing  \* a field nobody could observe

Qualities == {"Usable", "Suspicious", "Missing"}

Known(v)     == v # Missing
Same(a, b)   == Known(a) /\ a = b                \* option_equal, same_nonempty
Differ(a, b) == Known(a) /\ Known(b) /\ a # b    \* different_if_both
-----------------------------------------------------------------------------
(***************************************************************************)
(* serial_digest_evidence: a serial is usable unless it is absent, or one  *)
(* of the fillers (all zero, a placeholder word, too short).               *)
(***************************************************************************)
SerialQuality(serial, fillers) ==
  CASE serial = Missing   -> "Missing"
    [] serial \in fillers -> "Suspicious"
    [] OTHER              -> "Usable"

Usable(h) == h.quality = "Usable"

CompareUsableSerials(a, b) ==
  IF ~Usable(a) \/ ~Usable(b) THEN "Missing"
  ELSE IF ~Known(a.serial) \/ ~Known(b.serial) THEN "Missing"
  ELSE IF a.serial = b.serial THEN "Match"
  ELSE "Mismatch"

ModelDiffers(a, b)    == Differ(a.vid, b.vid) \/ Differ(a.pid, b.pid)
GeometryDiffers(a, b) == \/ Differ(a.sectors, b.sectors)
                         \/ Differ(a.sectorSize, b.sectorSize)

\* hardware_profile_matches, without the vendor's texts.
ProfileMatches(a, b) ==
  /\ Same(a.vid, b.vid) /\ Same(a.pid, b.pid)
  /\ Same(a.sectors, b.sectors) /\ Same(a.sectorSize, b.sectorSize)

\* The kinds of IdentityConflict that match_media_identity can report.
Conflicts(a, b) ==
     (IF CompareUsableSerials(a, b) = "Mismatch" THEN {"Serial"} ELSE {})
  \cup (IF ModelDiffers(a, b) THEN {"Model"} ELSE {})
  \cup (IF GeometryDiffers(a, b) THEN {"Geometry"} ELSE {})

(***************************************************************************)
(* match_media_identity: a and b are the hardware evidence, p and q the    *)
(* protocol evidence of the two sides; linked is what the host's lineage   *)
(* records say.                                                            *)
(***************************************************************************)
Relationship(a, p, b, q, linked) ==
  IF "Serial" \in Conflicts(a, b) \/ "Model" \in Conflicts(a, b) THEN "DifferentMedia"
  ELSE IF CompareUsableSerials(a, b) = "Match" /\ GeometryDiffers(a, b) THEN "Ambiguous"
  ELSE IF CompareUsableSerials(a, b) = "Match" THEN "SamePhysicalMedia"
  ELSE IF Same(p.device, q.device) /\ Same(p.onlyid, q.onlyid) THEN "SameEdpInstance"
  ELSE IF linked THEN "SameControlledLineage"
  ELSE IF ProfileMatches(a, b) THEN "ModelOnlyMatch"
  ELSE IF Same(p.device, q.device) THEN "ProbableSameMedia"
  ELSE "Ambiguous"

\* BackupAffinityPolicy::classify, on the relationship the match found.
Affinity(relationship) ==
  CASE relationship \in {"SamePhysicalMedia", "SameEdpInstance", "SameControlledLineage"}
                                          -> "Confirmed"
    [] relationship = "ModelOnlyMatch"    -> "Possible"
    [] OTHER                              -> "Unrelated"

(***************************************************************************)
(* RestoreAuthorizationPolicy::evaluate: a backup b (protocol q) may be    *)
(* restored to a target t (protocol r) whose session measured the geometry *)
(* g = [sectors, sectorSize].                                              *)
(***************************************************************************)
FitsGeometry(h, g) == h.sectors = g.sectors /\ h.sectorSize = g.sectorSize

Authorize(b, q, t, r, g) ==
  LET conflicts == Conflicts(b, t)
      off(h)    == \/ Known(h.sectors) /\ h.sectors # g.sectors
                   \/ Known(h.sectorSize) /\ h.sectorSize # g.sectorSize
      relation  == Relationship(b, q, t, r, FALSE)
      weak      == \/ ~Same(b.vid, t.vid) \/ ~Known(b.pid) \/ b.pid # t.pid
                   \/ CompareUsableSerials(b, t) = "Missing"
  IN IF "Serial" \in conflicts THEN "UsableSerialMismatch"
     ELSE IF "Model" \in conflicts THEN "VidPidMismatch"
     ELSE IF off(b) \/ off(t) \/ "Geometry" \in conflicts THEN "GeometryMismatch"
     ELSE IF ~FitsGeometry(b, g) \/ ~FitsGeometry(t, g) THEN "GeometryUnavailable"
     ELSE IF relation = "DifferentMedia" THEN "DifferentMedia"
     ELSE IF weak THEN "WeakHardwareBinding"
     ELSE IF relation # "SamePhysicalMedia" THEN "InsufficientPhysicalEvidence"
     ELSE "Authorized"

(***************************************************************************)
(* MediaIdentityPin::verify and MediaIdentityResumePin::verify: a pin is   *)
(* [hw, image].  A pin with a usable serial demands it; a pin without one  *)
(* is content with the model, the geometry and the image.                  *)
(***************************************************************************)
PinAcceptsHardware(pin, h) ==
  /\ Usable(pin.hw) => Usable(h) /\ h.serial = pin.hw.serial
  /\ h.vid = pin.hw.vid /\ h.pid = pin.hw.pid
  /\ h.sectors = pin.hw.sectors /\ h.sectorSize = pin.hw.sectorSize

PinVerify(pin, h, image) == PinAcceptsHardware(pin, h) /\ image = pin.image

(***************************************************************************)
(* strong_backup_group_key: backups with the same key are one medium's in  *)
(* the backup list; without a key a backup stands alone.                   *)
(***************************************************************************)
GroupKey(h, p) ==
  LET geometry == <<h.vid, h.pid, h.sectors, h.sectorSize>>
  IN IF \E i \in 1..4 : ~Known(geometry[i]) THEN <<>>
     ELSE IF Usable(h) /\ Known(h.serial) THEN <<"serial", h.serial, geometry>>
     ELSE IF Known(p.device) /\ Known(p.onlyid) THEN <<"edp", p.device, p.onlyid, geometry>>
     ELSE <<>>
=============================================================================

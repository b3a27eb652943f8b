--------------------------- MODULE ProtocolSectors ---------------------------
(***************************************************************************)
(* The thirteen protocol sectors of an EDP disk and what this program      *)
(* writes into them (src/src/provision/generate.rs, spec.rs, profile.rs).  *)
(*                                                                         *)
(* An image is a function from LBA 0..12 to sectors, a sector a record     *)
(* that says with which device identity it was enciphered: LBA7 with a     *)
(* 16-bit fold of the identity's checksum, LBA8, LBA9, LBA10 and LBA12     *)
(* with all of it, LBA11 with the USB identity and the capacity.  Under    *)
(* any other identity a sector is noise.                                   *)
(***************************************************************************)
EXTENDS Integers, Sequences, SequencesExt

CONSTANTS
  Absent,      \* where there is nothing
  Fold,        \* the device identities with the fold of each
  Candidates,  \* the identities this disk's hardware suggests, in order;
               \* the first is the one that is written
  Usb,         \* the USB identity of this disk
  First,       \* OFFICIAL_PARTITION_START_SECTOR
  Chs          \* the sectors of a cylinder, CHS_UNIT

ASSUME CandidatesAssumption ==
  /\ Len(Candidates) > 0
  /\ \A i \in DOMAIN Candidates : Candidates[i] \in DOMAIN Fold
  /\ \A i, j \in DOMAIN Candidates :
       i # j => Fold[Candidates[i]] # Fold[Candidates[j]]

Zero  == [what |-> "Zero"]
Torn  == [what |-> "Torn"]    \* what an interrupted write leaves
Blank == [lba \in 0..12 |-> Zero]

WriteId == Head(Candidates)

PartitionTypes ==
  [DefaultThreePartition         |-> <<"Boot", "Share", "Encrypt">>,
   BootShareCombined             |-> <<"Share", "Encrypt">>,
   WholeDiskEncrypted            |-> <<"Boot", "Encrypt">>,
   IntranetExtranetDualPartition |-> <<"Boot", "Share">>]

NeedEncrypt(type) == type # "Boot"
-----------------------------------------------------------------------------
(***************************************************************************)
(* Texts.  A text has its length in bytes and, if it is odd, the reason: it *)
(* starts with the marker of a continued text, or one of its bytes is the  *)
(* separator of the label.  A text that does not fit its slot of LBA6 is    *)
(* cut there, and its rest is in LBA9.                                      *)
(***************************************************************************)
DeptSlot == [room |-> 64, inline |-> 60, rest |-> 127]
UserSlot == [room |-> 32, inline |-> 28, rest |-> 127]

FitsSlot(text, slot) == text.bytes < slot.room

InSlot(text, slot, inline) ==
  IF FitsSlot(text, slot) THEN [marked |-> FALSE, text |-> text, inline |-> 0]
  ELSE [marked |-> TRUE, text |-> text, inline |-> inline]

Rest(text, slot, inline) ==
  IF FitsSlot(text, slot) THEN Zero ELSE [what |-> "Rest", text |-> text, from |-> inline]

ElabelFixed == 137
ElabelBytes(spec) == ElabelFixed + spec.dept.bytes + spec.user.bytes + spec.label.bytes

\* ProvisionMetadata::new, ProvisionSpec::new, TargetIdentity::from_probe
SpecAccepted(spec) ==
  /\ spec.dept.bytes \in 1..187 /\ spec.user.bytes \in 1..155 /\ spec.label.bytes \in 1..31
  /\ ElabelBytes(spec) <= 383
-----------------------------------------------------------------------------
(***************************************************************************)
(* This program's writer.  A spec is [mode, parts, onlyid, dept, user,     *)
(* label, policy, keys]: parts the start and count of each partition, keys *)
(* the wrapped key of each.                                                 *)
(***************************************************************************)
Entry(spec, i, part) ==
  [count |-> Len(spec.parts), type |-> PartitionTypes[spec.mode][i],
   need |-> NeedEncrypt(PartitionTypes[spec.mode][i]), start |-> part.start, size |-> part.count,
   key |-> IF NeedEncrypt(PartitionTypes[spec.mode][i]) THEN spec.keys[i] ELSE Absent]

\* The word of the certified profile; no older tool's is zero by chance.
HostWord == 4660

\* build_official_lba0: the first partition is the only one a system sees.
Visible(part) == [type |-> "Visible", start |-> part.start, count |-> part.count]

Mbr(parts) == [what |-> "Mbr", bootstrap |-> "zero", overlay |-> "absent", parts |-> parts]

BuildLba4(spec) ==
  [what |-> "Tag", onlyid |-> spec.onlyid, secondKey |-> spec.onlyid, hserial |-> 0, host |-> HostWord]

BuildLba6(spec, id, inline) ==
  [what |-> "Safe6", id |-> id, underlay |-> Absent,
   dept |-> InSlot(spec.dept, DeptSlot, inline),
   user |-> InSlot(spec.user, UserSlot, UserSlot.inline)]

BuildLba9(spec, inline) ==
  LET nine == [what |-> "Nine", eetu |-> Absent,
               dept |-> Rest(spec.dept, DeptSlot, inline),
               upper |-> Rest(spec.user, UserSlot, UserSlot.inline)]
  IN IF nine.dept = Zero /\ nine.upper = Zero THEN Zero ELSE nine

\* Entries after the first point at the compatibility extent in LBA7 only.
BuildLba7(spec, id, lce) ==
  [what |-> "Table7", fold |-> Fold[id],
   entries |-> [i \in DOMAIN spec.parts |-> Entry(spec, i, IF i = 1 THEN spec.parts[1] ELSE lce)],
   pass |-> [version |-> 100, policy |-> spec.policy]]

BuildLba8(spec, id) ==
  [what |-> "Label", id |-> id, host |-> HostWord, usb |-> Absent,
   dept |-> spec.dept, user |-> spec.user, label |-> spec.label]

BuildLba11(id, capacity) ==
  [what |-> "Pdkb", usb |-> Usb, capacity |-> capacity, id |-> id]

BuildLba12(spec, id) ==
  [what |-> "Table12", id |-> id,
   entries |-> [i \in DOMAIN spec.parts |-> Entry(spec, i, spec.parts[i])],
   wrap |-> [i \in DOMAIN spec.parts |-> IF NeedEncrypt(PartitionTypes[spec.mode][i]) THEN 2 ELSE 0],
   pass |-> [version |-> 518, policy |-> spec.policy]]

\* validate_official_geometry and build_official_provision_protocol_image
GeometryAccepted(spec, total, lce) ==
  /\ Len(spec.parts) = Len(PartitionTypes[spec.mode]) /\ Len(spec.parts) \in 2..3
  /\ lce.start + lce.count <= total
  /\ \A i \in DOMAIN spec.parts :
       LET end == spec.parts[i].start + spec.parts[i].count
       IN end <= total /\ (end <= lce.start \/ lce.start + lce.count <= spec.parts[i].start)

\* generate_official_image
Generate(spec, total, lce) ==
  [lba \in 0..12 |->
     CASE lba = 0  -> Mbr(<<Visible(spec.parts[1])>>)
       [] lba = 4  -> BuildLba4(spec)
       [] lba = 6  -> BuildLba6(spec, WriteId, DeptSlot.inline)
       [] lba = 7  -> BuildLba7(spec, WriteId, lce)
       [] lba = 8  -> BuildLba8(spec, WriteId)
       [] lba = 9  -> BuildLba9(spec, DeptSlot.inline)
       [] lba = 11 -> BuildLba11(WriteId, total)
       [] lba = 12 -> BuildLba12(spec, WriteId)
       [] OTHER    -> Zero]
=============================================================================

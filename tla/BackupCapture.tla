---------------------------- MODULE BackupCapture ----------------------------
(***************************************************************************)
(* What a backup takes from a disk (backup_metadata.rs, domain/geometry.rs, *)
(* application/write/backup.rs and native_backup.rs): who the disk is, where *)
(* its partitions and its LCE lie, and the raw sectors that are kept with    *)
(* what a restore may do with them.                                         *)
(*                                                                         *)
(* A disk is [sectors, total, bytes]: a sector that cannot be read is not   *)
(* among `sectors`.  The protocol image is its first ProtocolSectors ones,  *)
(* of which the table, LBA4, LBA7 and LBA12 matter here.                    *)
(***************************************************************************)
EXTENDS DiskLayout

CONSTANTS
  LceSectors,       \* the length of the LCE, by the size of a sector
  Track, Backoff,   \* where old tools put the LCE: whole tracks, minus Backoff
  Suggested,        \* the device_ids the hardware suggests, in order
  OrdinaryStart,       \* the first partition of an ordinary disk starts here or behind
  Missing           \* no value

ASSUME LceHasLengths == \A bytes \in DOMAIN LceSectors : LceSectors[bytes] > 0

\* The sectors of the image that are looked at.
Lba4At  == 2
Lba7At  == 3
Lba12At == 4

Image(disk) == Run(disk.sectors, Stretch(0, ProtocolSectors))
Readable(disk, e) == Sectors(e) \subseteq DOMAIN disk.sectors
NoExtent == Stretch(0, 0)
-----------------------------------------------------------------------------
\* parse_partition_geometry_with_sector_bytes; nothing if LBA12 is refused.
ParsePartitions(image, id, total, bytes) ==
  LET s == image[Lba12At]
  IN IF /\ s.what = "Lba12" /\ s.sealed = id /\ Len(s.entries) \in 1..3
        /\ \A i \in DOMAIN s.entries : s.entries[i].bytes = bytes /\ Inside(s.entries[i], total)
     THEN s.entries
     ELSE <<>>

\* parse_lba7_compatibility_geometry_with_sector_bytes
ParseLce(image, id, total, bytes) ==
  LET s      == image[Lba7At]
      points == {i \in 2..Len(s.entries) :
                   s.entries[i].bytes = bytes /\ s.entries[i].count = LceSectors[bytes]}
      starts == {s.entries[i].start : i \in points}
      lce    == Stretch(CHOOSE lba \in starts : TRUE, LceSectors[bytes])
  IN IF /\ s.what = "Lba7" /\ s.sealed = id /\ Len(s.entries) > 1
        /\ Cardinality(starts) = 1 /\ Inside(lce, total)
     THEN lce
     ELSE NoExtent

\* Where the LCE of a disk with 512-byte sectors should be.
Expected(total) == (total \div Track) * Track - Backoff

\* The mode whose partitions have these types, and the roles they have in it.
ModeTypes == [Mode0 |-> <<1, 2, 4>>, Mode1 |-> <<2, 4>>, Mode2 |-> <<1, 4>>, Mode3 |-> <<1, 2>>]
TypesOf(entries) == [i \in DOMAIN entries |-> entries[i].type]
ModeOf(entries) ==
  IF \E m \in DOMAIN ModeTypes : ModeTypes[m] = TypesOf(entries)
  THEN CHOOSE m \in DOMAIN ModeTypes : ModeTypes[m] = TypesOf(entries) ELSE Missing

Role(mode, i, type) ==
  IF type = 1 /\ mode = "Mode2" /\ i = 1 THEN "Reserve"
  ELSE IF type = 2 /\ mode = "Mode1" /\ i = 1 THEN "Combined"
  ELSE IF type = 1 THEN "Boot"
  ELSE IF type = 2 THEN "Share"
  ELSE "Encrypt"

\* physical_partition_encryption_semantics
Ciphered(mode, i, type) == Role(mode, i, type) \in {"Share", "Encrypt"}

\* DiskProvisionKind::from_sectors_with_logical_size
ProvisionKind(image, id, bytes) ==
  LET table == image[Lba12At]  old == image[Lba7At]
  IN IF /\ table.what = "Lba12" /\ old.what = "Lba7" /\ id \in {table.sealed} \intersect {old.sealed}
        /\ Len(table.entries) \in 2..3 /\ Len(old.entries) = Len(table.entries)
        /\ TypesOf(old.entries) = TypesOf(table.entries)
        /\ \A i \in DOMAIN table.entries :
             table.entries[i].bytes = bytes /\ table.entries[i].count > 0 /\ old.entries[i].bytes = bytes
        /\ old.entries[1].start = table.entries[1].start
        /\ old.entries[1].count = table.entries[1].count
     THEN ModeOf(table.entries)
     ELSE Missing
-----------------------------------------------------------------------------
(* Who a disk is: media_identity_from_protocol_image, and                   *)
(* apply_runtime_plain_override for a disk that was formatted afterwards.   *)
FilesystemAt(disk, e) ==
  LET s == Sector(disk.sectors, e.start)
  IN IF s.what = "Boot" /\ s.cipher = "Plain" THEN s.fs ELSE Missing

\* confirmed_plain_protocol_prefix: a file system over the whole disk, or a table
\* with a partition, of which all lie on the disk unless a GPT stands behind it.
PlainPrefix(disk) ==
  LET s     == Sector(disk.sectors, 0)
      slots == IF IsTable(s) THEN Range(Slots(s)) ELSE {}
      used  == {p \in slots : Used(p)}
  IN /\ disk.total > 0
     /\ \/ FilesystemAt(disk, Stretch(0, disk.total)) # Missing
        \/ /\ used # {}
           /\ IF \E p \in slots : p.type = "Protective"
              THEN HeaderAt(disk.sectors, 1)
              ELSE \A p \in used : Inside(p, disk.total)

FormattedOver(disk) ==
  LET s == Sector(disk.sectors, 0)
      used == {i \in DOMAIN s.parts : Used(s.parts[i])}
  IN s.what = "Mbr" /\ used # {}
     /\ \A i \in used :
          /\ s.parts[i].type = "Data" /\ s.parts[i].start >= OrdinaryStart
          /\ Inside(s.parts[i], disk.total) /\ FilesystemAt(disk, s.parts[i]) # Missing

Who(device, onlyid, kind) == [device |-> device, onlyid |-> onlyid, kind |-> kind]

Identify(disk) ==
  LET image  == Image(disk)
      ids    == {id \in Range(Suggested) : image[Lba7At].what = "Lba7" /\ image[Lba7At].sealed = id}
      id     == CHOOSE x \in ids : TRUE
      onlyid == IF image[Lba4At].what = "Lba4" THEN image[Lba4At].onlyid ELSE Missing
      kind   == ProvisionKind(image, id, disk.bytes)
  IN IF ids # {} /\ kind # Missing /\ FormattedOver(disk) THEN Who(Missing, Missing, "Plain")
     ELSE IF ids # {} THEN Who(id, onlyid, kind)
     ELSE IF onlyid = Missing /\ PlainPrefix(disk) THEN Who(Missing, Missing, "Plain")
     ELSE Who(Missing, onlyid, Missing)
-----------------------------------------------------------------------------
(* Acquisition: the partitions, the regions of the disk, the extents of     *)
(* them that were read, and the artifacts: those extents' bytes, or notes   *)
(* derived from them.                                                       *)
Partition(role, e) == [role |-> role, start |-> e.start, count |-> e.count]

Region(id, role, e) ==
  [id |-> id, role |-> role, placed |-> e # NoExtent, start |-> e.start, count |-> e.count,
   identified |-> TRUE]

ExtentOf(id, region, purpose, e) ==
  [id |-> id, region |-> region, purpose |-> purpose, start |-> e.start, count |-> e.count]

Artifact(id, kind, extents, sources, policy, data) ==
  [id |-> id, kind |-> kind, extents |-> extents, sources |-> sources, policy |-> policy,
   complete |-> TRUE, data |-> data]

Raw(id, extent, policy, data) == Artifact(id, "raw_sectors", <<extent>>, {}, policy, data)

Note(of) == <<[what |-> "Derived", of |-> of]>>
\* What a note is derived from has the names of the extents it comes from.
Derived(id, extents) == Artifact(id, id, extents, Range(extents), "DerivedOnly", Note(id))

Acquisition(parts, regions, extents, artifacts) ==
  [parts |-> parts, regions |-> regions, extents |-> extents, artifacts |-> artifacts]
NoAcquisition == Acquisition(<<>>, <<>>, <<>>, <<>>)

\* What is kept of an EDP disk's own areas: the LCE, the mirror and the node.
Area(name, role, purpose, e) == [name |-> name, role |-> role, purpose |-> purpose, at |-> e]

Areas(total, lce) ==
  When(lce # NoExtent, Area("lce", "Lce", "lce", lce))
  \o When(total >= MirrorOffset + MirrorSectors,
          Area("mirror", "Mirror", "mirror", Stretch(total - MirrorOffset, MirrorSectors)))
  \o When(total > NodeOffset, Area("node", "Node", "node", Stretch(total - NodeOffset, 1)))

\* acquire_metadata.  An area that cannot be read is left out, and noted.
AcquireEdp(disk, id) ==
  LET image   == Image(disk)
      parts   == ParsePartitions(image, id, disk.total, disk.bytes)
      mode    == ModeOf(parts)
      lce     == ParseLce(image, id, disk.total, disk.bytes)
      areas   == Areas(disk.total, lce)
      got     == SelectSeq(areas, LAMBDA a : Readable(disk, a.at))
      issue   == lce = NoExtent \/ Len(got) < Len(areas) \/ lce.start # Expected(disk.total)
      regions == [i \in DOMAIN parts |-> Region(Named("part", i), "Partition", Stretch(parts[i].start, parts[i].count))]
                 \o [i \in DOMAIN areas |-> Region(areas[i].name, areas[i].role, areas[i].at)]
  IN IF disk.total < ProtocolSectors \/ parts = <<>> THEN NoAcquisition
     ELSE Acquisition(
            [i \in DOMAIN parts |-> Partition(Role(mode, i, parts[i].type), parts[i])],
            regions,
            [i \in DOMAIN got |-> ExtentOf(got[i].name, got[i].name, got[i].purpose, got[i].at)],
            <<Derived("topology", <<"protocol">>)>>
            \o [i \in DOMAIN got |-> Raw(got[i].name, got[i].name, "Restorable", Run(disk.sectors, got[i].at))]
            \o When(lce # NoExtent /\ Readable(disk, lce), Derived("lce_layout", <<"lce">>))
            \o When(issue, Derived("issues", <<>>)))

\* acquire_plain_metadata
AcquirePlain(disk) ==
  LET table == ReadTable(disk.sectors, disk.total, TRUE)
      name(i) == Named("table", i)
  IN IF table = NoTable THEN NoAcquisition
     ELSE Acquisition(
            [i \in DOMAIN table.parts |-> Partition("Plain", table.parts[i])],
            <<Region("table", "Table", NoExtent)>>,
            [i \in DOMAIN table.extents |-> ExtentOf(name(i), "table", "table", table.extents[i])],
            [i \in DOMAIN table.extents |->
               Raw(name(i), name(i), "Restorable", Run(disk.sectors, table.extents[i]))])

\* create_native_evidence_on_disk: everything must be read, nothing may be restored.
AcquireNative(disk, who) ==
  LET image == Image(disk)
      parts == ParsePartitions(image, who.device, disk.total, disk.bytes)
      lce   == ParseLce(image, who.device, disk.total, disk.bytes)
      heads == [i \in DOMAIN parts |-> Area(Named("head", i), "Head", "head", Stretch(parts[i].start, 1))]
      areas == <<Area("lce", "Lce", "lce", lce)>> \o heads
  IN IF \/ who.device = Missing \/ who.kind \in {Missing, "Plain"}
        \/ parts = <<>> \/ lce = NoExtent
        \/ \E i \in DOMAIN areas : ~ Readable(disk, areas[i].at)
     THEN NoAcquisition
     ELSE Acquisition(
            [i \in DOMAIN parts |-> Partition(Role(who.kind, i, parts[i].type), parts[i])],
            [i \in DOMAIN areas |-> Region(areas[i].name, areas[i].role, areas[i].at)],
            [i \in DOMAIN areas |-> ExtentOf(areas[i].name, areas[i].name, areas[i].purpose, areas[i].at)],
            [i \in DOMAIN areas |-> Raw(areas[i].name, areas[i].name, "EvidenceOnly",
                                        Run(disk.sectors, areas[i].at))])

\* backup_create_flow: nothing is kept of a disk that is neither.
Acquire(disk, who) ==
  IF ~ Readable(disk, Stretch(0, ProtocolSectors)) THEN NoAcquisition
  ELSE IF disk.bytes = 4096 THEN AcquireNative(disk, who)
  ELSE IF who.device # Missing /\ who.kind # Missing THEN AcquireEdp(disk, who.device)
  ELSE IF who.device = Missing /\ who.kind = "Plain" THEN AcquirePlain(disk)
  ELSE NoAcquisition
=============================================================================

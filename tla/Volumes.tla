------------------------------- MODULE Volumes -------------------------------
(***************************************************************************)
(* Formatting partitions of a disk and reading them back: the drivers'     *)
(* detection and verification, and the independent parsers of the analysis *)
(* (src/src/filesystem, filesystem/analysis).  A partition may be          *)
(* encrypted; it may be formatted over whatever was there before, which a  *)
(* format overwrites in part only.                                         *)
(***************************************************************************)
EXTENDS FormatPlans

CONSTANTS
  Disks,       \* disks, each the set of volumes it is partitioned into in turn
  Keys,        \* the keys of a partition's transform, with "None"
  Labels,      \* the labels asked for
  MaxFormats   \* a bound on the formats of a behaviour

VARIABLES
  disk,
  medium,    \* the extents written so far, the latest last, under their keys
  volume,    \* the volume formatted last,
  key,       \* its key,
  claim,     \* what was asked, its file system and label, and the geometry chosen
  formats

vars == <<disk, medium, volume, key, claim, formats>>

None == "None"

\* A volume of another system, as it was found.
NtfsVolume(v) ==
  LET boot == [NoBoot EXCEPT !.oem = "NTFS", !.bps = v.bytes, !.spc = 8, !.total = v.total - 1]
  IN << Extent(0, 1, boot), Extent(v.total - 1, 1, boot) >>

Written(v, k, plan) ==
  [i \in DOMAIN plan |-> [lba |-> v.start + plan[i].lba, count |-> plan[i].count,
                          what |-> plan[i].what, key |-> k]]

\* A reader sees what one write left in all the sectors it asks for, with the
\* key that write used; anything else is noise.
Noise == [what |-> "Noise"]

Topmost(m, lba, count) ==
  {i \in DOMAIN m : m[i].lba < lba + count /\ lba < m[i].lba + m[i].count}

Read(m, v, k, at, count) ==
  LET lba == v.start + at
      hit == Topmost(m, lba, count)
      top == m[Max(hit)]
  IN IF hit # {} /\ at + count <= v.total /\ top.key = k
        /\ top.lba <= lba /\ lba + count <= top.lba + top.count
     THEN top.what ELSE Noise
-----------------------------------------------------------------------------
(***************************************************************************)
(* Detection: every driver looks at the boot sector.                       *)
(***************************************************************************)
PowersOfTwo == {2^s : s \in Shifts}

FatBoot(b, v) ==
  /\ b.what = "Boot" /\ b.bps = v.bytes /\ b.spc \in PowersOfTwo
  /\ b.reserved > 0 /\ b.copies \in {1, 2} /\ b.total \in 1..v.total

FatSize(b)   == IF b.fat16 # 0 THEN b.fat16 ELSE b.fat32
RootArea(b)  == CeilDiv(b.rootEntries * 32, b.bps)
DataStart(b) == b.reserved + b.copies * FatSize(b) + RootArea(b)
Data(b)      == b.total - DataStart(b)
Count(b)     == Data(b) \div b.spc

TableHolds(b, bits) == TableBytes(bits, Count(b)) <= FatSize(b) * b.bps

\* fat16_geometry, matches_fat12
FixedRoot(b, v) ==
  FatBoot(b, v) /\ b.fat16 # 0 /\ b.rootEntries # 0 /\ Data(b) >= 0

\* fat32_geometry
Fat32Boot(b, v) ==
  /\ FatBoot(b, v) /\ b.rootEntries = 0 /\ b.fat16 = 0 /\ b.fat32 # 0
  /\ b.fsinfo < b.reserved /\ b.backup < b.reserved
  /\ Data(b) >= 0 /\ Count(b) \in 65525..268435444
  /\ b.rootCluster \in 2..Count(b) + 1
  /\ TableHolds(b, 32)

\* parse_geometry
ExFatBoot(b, v) ==
  /\ b.what = "Boot" /\ b.oem = "EXFAT" /\ b.sector = v.bytes /\ b.shift < 26
  /\ b.fats \in {1, 2} /\ b.total \in 1..v.total
  /\ b.fatOffset >= 24 /\ b.fat32 # 0 /\ b.heap >= b.fatOffset + b.fats * b.fat32
  /\ b.clusters # 0 /\ b.rootCluster \in 2..b.clusters + 1
  /\ b.heap + b.clusters * 2^b.shift <= b.total

NtfsBoot(b, v) ==
  /\ b.what = "Boot" /\ b.oem = "NTFS" /\ b.bps = v.bytes /\ b.spc \in PowersOfTwo
  /\ b.total \in 1..v.total /\ b.reserved = 0

\* matches_fat12 and fat16_geometry tell one from the other by the clusters.
Fat12Boot(b, v) == FixedRoot(b, v) /\ Count(b) < 4085
Fat16Boot(b, v) == FixedRoot(b, v) /\ Count(b) \in 4085..65524

Matching(b, v) ==
  {fs \in {"Fat12", "Fat16", "Fat32", "ExFat", "Ntfs"} :
     CASE fs = "Fat12" -> Fat12Boot(b, v)
       [] fs = "Fat16" -> Fat16Boot(b, v)
       [] fs = "Fat32" -> Fat32Boot(b, v)
       [] fs = "ExFat" -> ExFatBoot(b, v)
       [] fs = "Ntfs"  -> NtfsBoot(b, v)}

\* detect_native_boot_sector, on larger sectors: by the name, then by the BPB.
NativeKind(b, v) ==
  IF ExFatBoot(b, v) THEN "ExFat"
  ELSE IF NtfsBoot(b, v) THEN "Ntfs"
  ELSE IF b.what = "Boot" /\ b.oem \notin {"EXFAT", "NTFS"} /\ FatBoot(b, v) /\ FatSize(b) # 0
          /\ Data(b) >= 0
  THEN CASE b.rootEntries = 0 /\ b.fat16 = 0 /\ Count(b) \in 65525..268435439
              /\ TableHolds(b, 32) -> "Fat32"
         [] b.rootEntries # 0 /\ Count(b) < 4085 /\ TableHolds(b, 12) -> "Fat12"
         [] b.rootEntries # 0 /\ Count(b) \in 4085..65524 /\ TableHolds(b, 16) -> "Fat16"
         [] OTHER -> None
  ELSE None

\* DriverRegistry.detect: every match is exact, so two are an ambiguity.
Detected(m, v, k) ==
  LET b        == Read(m, v, k, 0, 1)
      matching == Matching(b, v)
  IN IF v.bytes # 512 THEN NativeKind(b, v)
     ELSE IF Cardinality(matching) = 1 THEN CHOOSE fs \in matching : TRUE
     ELSE IF matching = {} THEN None ELSE "Ambiguous"

\* detect_boot_sector_with_geometry: FAT12 and NTFS have no geometry to match.
DetectedHere(m, v, k) ==
  LET b  == Read(m, v, k, 0, 1)
      fs == Detected(m, v, k)
  IN IF fs \in {"Fat16", "Fat32", "ExFat"} /\ (b.total # v.total \/ b.hidden # v.start)
     THEN None ELSE fs
-----------------------------------------------------------------------------
(***************************************************************************)
(* The drivers' read-back of a format (verify_format).                     *)
(***************************************************************************)
ExpectedLabel(fs, label) == IF fs = "ExFat" THEN label ELSE DecodeLabel(FatField(label))

VerifyFat16(m, v, k, label) ==
  LET b    == Read(m, v, k, 0, 1)
      root == Read(m, v, k, b.reserved + b.copies * b.fat16, 1)
  IN IF label = None
     THEN b.label = "NoName" /\ ~ (root.what = "Directory" /\ root.label # None)
     ELSE root.what = "Directory" /\ root.label = b.label /\ b.label = label

\* valid_fsinfo
ValidFsInfo(info, clusters) == info.what = "FsInfo" /\ info.free <= clusters

\* root_volume_label
RootLabel(m, v, k, b) ==
  LET root == Read(m, v, k, DataStart(b) + (b.rootCluster - 2) * b.spc, b.spc)
  IN IF root.what = "Directory" THEN DecodeLabel(root.label) ELSE "Noise"

VerifyFat32(m, v, k, label) ==
  LET b      == Read(m, v, k, 0, 1)
      fsinfo == Read(m, v, k, 1, 1)
      table  == Read(m, v, k, b.reserved, 1)
      shown  == IF DecodeLabel(b.label) # None THEN DecodeLabel(b.label) ELSE RootLabel(m, v, k, b)
  IN /\ b.fsinfo = 1 /\ b.backup = 6 /\ b.reserved = 32 /\ b.copies = 2 /\ b.rootCluster = 2
     /\ Count(b) <= MaxFat32Clusters
     /\ Read(m, v, k, 6, 1) = b /\ Read(m, v, k, 7, 1) = fsinfo
     /\ ValidFsInfo(fsinfo, Count(b))
     /\ table.what = "Table" /\ table.used = {2}
     /\ Read(m, v, k, b.reserved + b.fat32, 1) = table
     /\ shown = label

\* Cluster c and those after it.
HeapRead(m, v, k, b, c, clusters) ==
  Read(m, v, k, b.heap + (c - 2) * 2^b.shift, clusters * 2^b.shift)

\* read_label: the label's entry is looked for along the root directory.
ExFatLabel(m, v, k, b) ==
  LET root == HeapRead(m, v, k, b, b.rootCluster, 1)
  IN IF root.what = "Directory" THEN root.label ELSE "Noise"

VerifyExFat(m, v, k, label) == ExFatLabel(m, v, k, Read(m, v, k, 0, 1)) = label

Verified(m, v, k, fs, label) ==
  /\ DetectedHere(m, v, k) = fs
  /\ CASE fs = "Fat16" -> VerifyFat16(m, v, k, ExpectedLabel(fs, label))
       [] fs = "Fat32" -> VerifyFat32(m, v, k, ExpectedLabel(fs, label))
       [] fs = "ExFat" -> VerifyExFat(m, v, k, ExpectedLabel(fs, label))
-----------------------------------------------------------------------------
(***************************************************************************)
(* The analysis: a full traversal by other parsers than the drivers'.      *)
(***************************************************************************)
Inventory(fs, v, free) == [fs |-> fs, total |-> v.total, free |-> free]
Failed == [fs |-> "Failed"]

\* analysis/fat.rs: the class follows from the number of clusters.
AnalyseFat(m, v, k, b) ==
  LET bits   == CASE Count(b) < 4085 -> 12 [] Count(b) >= 65525 -> 32 [] OTHER -> 16
      needed == TableSectors(bits, 512, Count(b))
      table  == Read(m, v, k, b.reserved, needed)
      root   == IF bits = 32
                THEN Read(m, v, k, DataStart(b) + (b.rootCluster - 2) * b.spc, b.spc)
                ELSE Read(m, v, k, DataStart(b) - RootArea(b), RootArea(b))
  IN IF /\ FatBoot(b, v) /\ FatSize(b) # 0 /\ Data(b) > 0
        /\ Count(b) \in 1..4194304
        /\ IF bits = 32 THEN b.fat16 = 0 /\ b.rootEntries = 0
           ELSE b.fat16 # 0 /\ b.rootEntries # 0 /\ b.rootEntries % 16 = 0
        /\ TableHolds(b, bits)
        /\ table.what = "Table"
        /\ \A i \in 1..b.copies - 1 : Read(m, v, k, b.reserved + i * FatSize(b), needed) = table
        /\ bits = 32 => b.rootCluster \in table.used
        /\ root.what = "Directory"
     THEN Inventory(CASE bits = 12 -> "Fat12" [] bits = 16 -> "Fat16" [] bits = 32 -> "Fat32",
                    v, (Count(b) - Cardinality(table.used)) * b.spc)
     ELSE Failed

\* analysis/exfat.rs, parse: the geometry, on top of the driver's
ExFatAnalysable(b) ==
  /\ b.shift <= 16 /\ b.clusters <= MaxExFatClusters
  /\ (b.clusters + 2) * 4 <= b.fat32 * 512

\* The clusters of a stream, and whether they are a chain in the table.
StreamRange(b, first, bytes) == first .. first + CeilDiv(bytes, 2^b.shift * 512) - 1
IsChain(table, b, clusters)  == clusters \subseteq (2..b.clusters + 1) \intersect table.used

\* stream_bytes
StreamRead(m, v, k, b, first, bytes) ==
  HeapRead(m, v, k, b, first, CeilDiv(bytes, 2^b.shift * 512))

\* Every cluster that is referenced is claimed once and marked in the bitmap.
AnalyseExFat(m, v, k, b) ==
  LET table   == Read(m, v, k, b.fatOffset, CeilDiv((b.clusters + 2) * 4, 512))
      root    == HeapRead(m, v, k, b, b.rootCluster, 1)
      bitmap  == StreamRead(m, v, k, b, root.bitmap, root.bitmapBytes)
      streams == << {b.rootCluster}, StreamRange(b, root.bitmap, root.bitmapBytes),
                    StreamRange(b, root.upcase, UpcaseBytes) >>
  IN IF /\ ExFatAnalysable(b)
        /\ Read(m, v, k, 1, 11) = BootRegion(b)
        /\ table.what = "Table"
        /\ root.what = "Directory"
        /\ root.bitmapBytes >= CeilDiv(b.clusters, 8)
        /\ bitmap.what = "Bitmap"
        /\ StreamRead(m, v, k, b, root.upcase, UpcaseBytes).what = "Upcase"
        /\ \A i, j \in DOMAIN streams : i # j => streams[i] \intersect streams[j] = {}
        /\ \A i \in DOMAIN streams :
             IsChain(table, b, streams[i]) /\ streams[i] \subseteq bitmap.used
     THEN Inventory("ExFat", v, (b.clusters - Cardinality(bitmap.used)) * 2^b.shift)
     ELSE Failed

\* analyze_partition
Analysed(m, v, k) ==
  LET b == Read(m, v, k, 0, 1)
  IN IF b.what # "Boot" THEN Failed
     ELSE IF ExFatBoot(b, v) THEN AnalyseExFat(m, v, k, b)
     ELSE IF b.oem \in {"EXFAT", "NTFS"} THEN Failed
     ELSE AnalyseFat(m, v, k, b)
-----------------------------------------------------------------------------
Found == [fs |-> "Ntfs", label |-> None]

Init ==
  /\ disk \in Disks /\ volume \in disk
  /\ key = None /\ claim = Found
  /\ medium = Written(volume, None, NtfsVolume(volume))
  /\ formats = 0

\* The generators' plan, written sector by sector under the partition's key.
Format(v, k, fs, label) ==
  /\ formats < MaxFormats /\ formats' = formats + 1
  /\ UNCHANGED disk
  /\ LET g == Geometry(fs, v)
     IN IF Formattable(fs, v, g, label)
        THEN /\ medium' = medium \o Written(v, k, Plan(fs, v, g, label))
             /\ volume' = v /\ key' = k
             /\ claim' = [fs |-> fs, label |-> label, geometry |-> g]
        ELSE claim' = Refused /\ UNCHANGED <<medium, volume, key>>

Next ==
  \E v \in disk, k \in Keys, label \in Labels,
     fs \in {"Fat12", "Fat16", "Fat32", "ExFat"} : Format(v, k, fs, label)

Spec == Init /\ [][Next]_vars
-----------------------------------------------------------------------------
Formatted == claim \notin {Refused, Found}

\* The estimate by which provisioning decides whether it can hold a plan in
\* memory is what the plan holds: its extents lie in the volume, do not meet, and
\* are as many sectors as was estimated.
PlanIsAsEstimated ==
  LET plan  == Plan(claim.fs, volume, claim.geometry, claim.label)
      count == FoldLeft(LAMBDA n, e : n + e.count, 0, plan)
  IN /\ \A i, j \in DOMAIN plan :
          i < j => \/ plan[i].lba + plan[i].count <= plan[j].lba
                   \/ plan[j].lba + plan[j].count <= plan[i].lba
     /\ \A i \in DOMAIN plan : plan[i].lba + plan[i].count <= volume.total
     /\ count <= Materialized(claim.fs, volume, claim.geometry)
     /\ LegacyWriter(claim.fs, volume) => count = Estimate(claim.fs, claim.geometry)

(***************************************************************************)
(* Whatever the size, the key and what the partition was before: a format  *)
(* that is not refused is found again as what was asked for, by detection, *)
(* by the driver's read-back and by the analysis, which share no code with *)
(* the generator, and the analysis finds an empty directory and counts     *)
(* nothing that was written as free; nothing of the contents before it     *)
(* shows through.  The one exception is the label NO NAME on FAT16, which  *)
(* the generator accepts and its own read-back takes for no label.  And    *)
(* what is held in memory for it is what was estimated beforehand.         *)
(***************************************************************************)
FormattedVolumesReadBack ==
  Formatted =>
    /\ Detected(medium, volume, key) = claim.fs
    /\ LegacyWriter(claim.fs, volume) =>
         /\ (claim.fs # "Fat16" \/ claim.label # "NoName") =>
              Verified(medium, volume, key, claim.fs, claim.label)
         /\ LET seen == Analysed(medium, volume, key)
            IN /\ seen.fs = claim.fs /\ seen.total = volume.total
               /\ seen.free + Estimate(claim.fs, claim.geometry) <= volume.total
    /\ PlanIsAsEstimated
=============================================================================

----------------------------- MODULE FormatPlans -----------------------------
(***************************************************************************)
(* What formatting a volume writes (src/src/filesystem): the solvers that  *)
(* pick a cluster size and the size of the allocation table, and the plans *)
(* the four generators build.                                              *)
(*                                                                         *)
(* A volume is [start, total, bytes]: its first sector, its sectors and    *)
(* their size.  A plan is a sequence of extents, each some sectors with    *)
(* one kind of contents; a boot sector's contents are its fields, those a  *)
(* file system does not have being 0 and those FAT32 and exFAT both have   *)
(* sharing a name.  Serial numbers and the bytes of labels are left out: a *)
(* label is "None", "Label", "NoName", one that is spelt like the FAT      *)
(* field of a volume without a label, "Wide", one whose characters fit an  *)
(* exFAT label and whose bytes do not fit FAT's, or "Long", that fits none. *)
(***************************************************************************)
EXTENDS Integers, Sequences, SequencesExt, FiniteSetsExt

CONSTANTS
  MaxFat32Clusters,  \* MAX_VALIDATED_CLUSTERS of the FAT32 driver
  MaxExFatClusters,  \* EXFAT_MAX_VALIDATED_CLUSTERS
  ImageBudget        \* max_image_payload_bytes, in units of 512 bytes

CeilDiv(n, d) == (n + d - 1) \div d
AlignUp(n, a) == CeilDiv(n, a) * a

Refused == [fs |-> "Refused"]

Shifts == 0..7
-----------------------------------------------------------------------------
(***************************************************************************)
(* The FAT solvers: from one sector on, the table grows to what the        *)
(* clusters it leaves room for need, for a bounded number of rounds.       *)
(***************************************************************************)
RootEntries == 512
RootSectors(bytes) == CeilDiv(RootEntries * 32, bytes)
Reserved(bits)     == IF bits = 32 THEN 32 ELSE 1
Overhead(bits, bytes, fat) ==
  Reserved(bits) + 2 * fat + IF bits = 32 THEN 0 ELSE RootSectors(bytes)

Clusters(bits, v, spc, fat) == (v.total - Overhead(bits, v.bytes, fat)) \div spc

TableBytes(bits, clusters) ==
  IF bits = 12 THEN CeilDiv((clusters + 2) * 3, 2) ELSE (clusters + 2) * (bits \div 8)

TableSectors(bits, bytes, clusters) == CeilDiv(TableBytes(bits, clusters), bytes)

\* Where a solver stops: FAT16 at a fixed point only, the others also when
\* the table is larger than needed.
Settled(bits, needed, fat) == IF bits = 16 THEN needed = fat ELSE needed <= fat

Rounds(bits) == IF bits = 16 THEN 16 ELSE 32

Table(bits, v, spc) ==
  LET grow[n \in 1..Rounds(bits)] ==
        IF n = 1 THEN 1
        ELSE LET fat    == grow[n - 1]
                 needed == TableSectors(bits, v.bytes, Clusters(bits, v, spc, fat))
             IN IF v.total <= Overhead(bits, v.bytes, fat) \/ Settled(bits, needed, fat)
                THEN fat ELSE needed
  IN grow[Rounds(bits)]

InClass(bits, clusters) ==
  CASE bits = 12 -> clusters \in 1..4084
    [] bits = 16 -> clusters \in 4085..65524
    [] bits = 32 -> clusters \in 65525..MaxFat32Clusters

Attempt(bits, v, spc) ==
  LET fat == Table(bits, v, spc)
  IN [fs |-> "Fat", spc |-> spc, fat |-> fat, clusters |-> Clusters(bits, v, spc, fat)]

Fits(bits, v, g) ==
  /\ g.spc * v.bytes <= 65536
  /\ v.total > Overhead(bits, v.bytes, g.fat)
  /\ Settled(bits, TableSectors(bits, v.bytes, g.clusters), g.fat)
  /\ InClass(bits, g.clusters)

\* choose_format_geometry and its variants: the smallest cluster that fits.
ChooseFat(bits, v) ==
  LET attempt == [s \in Shifts |-> Attempt(bits, v, 2^s)]
      fitting == {s \in Shifts : Fits(bits, v, attempt[s])}
  IN IF fitting = {} THEN Refused ELSE attempt[Min(fitting)]
-----------------------------------------------------------------------------
(***************************************************************************)
(* The exFAT solver: the heap shrinks for the table its clusters need.     *)
(***************************************************************************)
FatOffset == 24
ExFatShifts == 0..16
UpcaseBytes == 60  \* the identity runs and the 26 letters, as 16-bit words

Preferred(v) ==
  LET kib == (v.total * (v.bytes \div 512)) \div 2
  IN IF kib >= 64 * 1048576 THEN 7
     ELSE IF kib >= 1048576 THEN 6
     ELSE IF kib >= 64 * 1024 THEN 4
     ELSE 3

ExFatTable(v, count) == CeilDiv((count + 2) * 4, v.bytes)
Heap(v, spc, count)  == AlignUp(FatOffset + ExFatTable(v, count), spc)

Layout(v, shift) ==
  LET spc == 2^shift
      Room(count) == (v.total - Heap(v, spc, count)) \div spc
      Dead(count) == count <= 0 \/ Heap(v, spc, count) >= v.total
      shrink[n \in 1..16] ==
        IF n = 1 THEN (v.total - FatOffset) \div spc
        ELSE LET before == shrink[n - 1] IN IF Dead(before) THEN 0 ELSE Room(before)
      count == shrink[16]
  IN IF v.total <= FatOffset \/ Dead(count) \/ Room(count) # count THEN Refused
     ELSE [fs |-> "ExFat", spc |-> spc, shift |-> shift, fat |-> ExFatTable(v, count),
           heap |-> Heap(v, spc, count), clusters |-> count]

\* choose_shift_native: from the preferred cluster size upwards.
ChooseExFat(v) ==
  LET layout  == [s \in ExFatShifts |-> Layout(v, s)]
      fitting == {s \in ExFatShifts :
                    /\ s >= Preferred(v)
                    /\ layout[s] # Refused
                    /\ layout[s].clusters <= MaxExFatClusters}
  IN IF fitting = {} THEN Refused ELSE layout[Min(fitting)]

BitmapClusters(v, g) == CeilDiv(CeilDiv(g.clusters, 8), g.spc * v.bytes)
UpcaseClusters(v, g) == CeilDiv(UpcaseBytes, g.spc * v.bytes)
Allocated(v, g) == 1 + BitmapClusters(v, g) + UpcaseClusters(v, g)
-----------------------------------------------------------------------------
Extent(lba, count, what) == [lba |-> lba, count |-> count, what |-> what]

NoBoot ==
  [what |-> "Boot", oem |-> "None", bps |-> 0, spc |-> 0, reserved |-> 0, copies |-> 0,
   rootEntries |-> 0, total |-> 0, fat16 |-> 0, fat32 |-> 0, hidden |-> 0,
   rootCluster |-> 0, fsinfo |-> 0, backup |-> 0, label |-> "None",
   fatOffset |-> 0, fats |-> 0, heap |-> 0, clusters |-> 0, sector |-> 0, shift |-> 0]

\* What the drivers take for a label.
FatLabels   == {"None", "Label", "NoName"}
ExFatLabels == FatLabels \union {"Wide"}

\* encode_label: a volume without a label and one labelled NO NAME read alike.
FatField(label) == IF label = "Label" THEN "Label" ELSE "NoName"
DecodeLabel(field) == IF field = "Label" THEN "Label" ELSE "None"

\* Wrong variant, to test FormattedVolumesReadBack: the first sector of the
\* root directory is only written for a label.
RootOnlyForLabel(lba, sectors, label) ==
  IF label = "None" THEN << >>
  ELSE << Extent(lba, sectors, [what |-> "Directory", label |-> FatField(label)]) >>

\* The root directory: empty, or with the entry of the label.
RootDirectory(lba, sectors, label) ==
  << Extent(lba, sectors,
       [what |-> "Directory", label |-> IF label = "None" THEN "None" ELSE FatField(label)]) >>

\* Two copies of the table, with the entries of the clusters in use.
Tables(at, fat, used) ==
  << Extent(at, fat, [what |-> "Table", used |-> used]),
     Extent(at + fat, fat, [what |-> "Table", used |-> used]) >>

\* The boot sector of FAT12 and FAT16.
FixedRootSector(v, g, label) ==
  [NoBoot EXCEPT !.oem = "MSDOS5.0", !.bps = v.bytes, !.spc = g.spc, !.reserved = 1,
                 !.copies = 2, !.rootEntries = RootEntries, !.total = v.total,
                 !.fat16 = g.fat, !.hidden = v.start, !.label = FatField(label)]

\* build_native_format_plan of FAT12 and FAT16
FatPlan(v, g, label) ==
  << Extent(0, 1, FixedRootSector(v, g, label)) >> \o Tables(1, g.fat, {})
    \o RootDirectory(1 + 2 * g.fat, RootSectors(v.bytes), label)

\* build_fsinfo: the root directory's cluster is in use.
FsInfo(g) == [what |-> "FsInfo", free |-> g.clusters - 1]

\* build_native_format_plan of FAT32
Fat32Plan(v, g, label) ==
  LET boot == [NoBoot EXCEPT
                 !.oem = "MSDOS5.0", !.bps = v.bytes, !.spc = g.spc, !.reserved = 32,
                 !.copies = 2, !.total = v.total, !.fat32 = g.fat, !.hidden = v.start,
                 !.rootCluster = 2, !.fsinfo = 1, !.backup = 6, !.label = FatField(label)]
  IN << Extent(0, 1, boot), Extent(1, 1, FsInfo(g)), Extent(6, 1, boot), Extent(7, 1, FsInfo(g)) >>
       \o Tables(32, g.fat, {2})
       \o RootDirectory(32 + 2 * g.fat, g.spc, label)

\* put_native_stream: whole clusters from the first on.
Stream(g, first, clusters, what) == Extent(g.heap + (first - 2) * g.spc, clusters * g.spc, what)

\* The rest of a boot region: it ends in the checksum of what is before it.
BootRegion(boot) == [what |-> "BootRegion", of |-> boot]

\* build_native_format_plan of exFAT: root directory, bitmap and upcase table
\* are the first clusters, chained in the table and marked in the bitmap.
ExFatPlan(v, g, label) ==
  LET upcase == 3 + BitmapClusters(v, g)
      used   == 2 .. 1 + Allocated(v, g)
      boot == [NoBoot EXCEPT
                 !.oem = "EXFAT", !.hidden = v.start, !.total = v.total,
                 !.fatOffset = FatOffset, !.fat32 = g.fat, !.heap = g.heap,
                 !.clusters = g.clusters, !.rootCluster = 2, !.sector = v.bytes,
                 !.shift = g.shift, !.fats = 1]
  IN << Extent(0, 1, boot), Extent(1, 11, BootRegion(boot)),
        Extent(12, 1, boot), Extent(13, 11, BootRegion(boot)),
        Extent(FatOffset, g.fat, [what |-> "Table", used |-> used]),
        Stream(g, 2, 1, [what |-> "Directory", label |-> label,
                         bitmap |-> 3, bitmapBytes |-> CeilDiv(g.clusters, 8), upcase |-> upcase]),
        Stream(g, 3, BitmapClusters(v, g), [what |-> "Bitmap", used |-> used]),
        Stream(g, upcase, UpcaseClusters(v, g), [what |-> "Upcase"]) >>

\* The sectors the generators check against the budget before they build: the
\* whole reserved area of FAT32, which it does not write.
Materialized(fs, v, g) ==
  CASE fs \in {"Fat12", "Fat16"} -> 1 + 2 * g.fat + RootSectors(v.bytes)
    [] fs = "Fat32" -> 32 + 2 * g.fat + g.spc + 4
    [] fs = "ExFat" -> FatOffset + g.fat + Allocated(v, g) * g.spc

Geometry(fs, v) ==
  IF fs = "ExFat" THEN ChooseExFat(v)
  ELSE ChooseFat(CASE fs = "Fat12" -> 12 [] fs = "Fat16" -> 16 [] fs = "Fat32" -> 32, v)

\* FormatResourceBudget.check
Affordable(fs, v, g) == Materialized(fs, v, g) * (v.bytes \div 512) <= ImageBudget

\* What the generators check before they build.
AdmitsFat12(v, g, label) ==
  /\ label \in FatLabels /\ g # Refused
  /\ 1 + 2 * g.fat + RootSectors(v.bytes) < v.total
  /\ Affordable("Fat12", v, g)

AdmitsFat16(v, g, label) ==
  /\ label \in FatLabels /\ g # Refused
  /\ 1 + 2 * g.fat + RootSectors(v.bytes) <= v.total
  /\ Affordable("Fat16", v, g)

AdmitsFat32(v, g, label) ==
  /\ label \in FatLabels /\ g # Refused
  /\ 32 + 2 * g.fat + g.spc <= v.total
  /\ Affordable("Fat32", v, g)

AdmitsExFat(v, g, label) ==
  /\ label \in ExFatLabels /\ g # Refused
  /\ Allocated(v, g) <= g.clusters
  /\ Affordable("ExFat", v, g)

\* What the drivers' writer of 512-byte sectors takes: its FAT12 is disabled.
LegacyWriter(fs, v) == v.bytes = 512 /\ fs # "Fat12"

Formattable(fs, v, g, label) ==
  /\ LegacyWriter(fs, v) \/ v.bytes # 512
  /\ CASE fs = "Fat12" -> AdmitsFat12(v, g, label)
       [] fs = "Fat16" -> AdmitsFat16(v, g, label)
       [] fs = "Fat32" -> AdmitsFat32(v, g, label)
       [] fs = "ExFat" -> AdmitsExFat(v, g, label)

Plan(fs, v, g, label) ==
  CASE fs \in {"Fat12", "Fat16"} -> FatPlan(v, g, label)
    [] fs = "Fat32" -> Fat32Plan(v, g, label)
    [] fs = "ExFat" -> ExFatPlan(v, g, label)

\* Wrong variant, to test FormattedVolumesReadBack: without the backups of FAT32's
\* first two sectors.
EstimateWithoutBackups(fs, g) ==
  CASE fs = "Fat16" -> 1 + 2 * g.fat + 32
    [] fs = "Fat32" -> 2 + 2 * g.fat + g.spc
    [] fs = "ExFat" -> 24 + g.fat + (1 + CeilDiv(CeilDiv(g.clusters, 8), g.spc * 512)
                                       + CeilDiv(UpcaseBytes, g.spc * 512)) * g.spc

\* format_sector_count, by which provisioning adds up what it will hold.
Estimate(fs, g) ==
  CASE fs = "Fat16" -> 1 + 2 * g.fat + 32
    [] fs = "Fat32" -> 4 + 2 * g.fat + g.spc
    [] fs = "ExFat" -> 24 + g.fat + (1 + CeilDiv(CeilDiv(g.clusters, 8), g.spc * 512)
                                       + CeilDiv(UpcaseBytes, g.spc * 512)) * g.spc
=============================================================================

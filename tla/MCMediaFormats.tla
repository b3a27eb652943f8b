--------------------------- MODULE MCMediaFormats ---------------------------
(* What is written to a medium or a file and read back: the file systems of  *)
(* the partitions, the protocol sectors in front of them, and the backup of *)
(* a disk.  A behaviour follows one of the three.                           *)
EXTENDS Volumes, ProtocolImage, BackupReading

VARIABLE part

(* Sizes at the edges of the file systems' classes and cluster sizes, for   *)
(* sectors of 512 and of 4096 bytes, at two places of the disk.             *)
Sizes512 ==
  {58, 64, 4117, 4150, 4160, 4161, 4162, 65535, 65536, 66605, 67000,
   131071, 131072, 2097151, 2097152, 4193000, 134217727, 134217728}
Sizes4096 == {50, 4091, 4160, 16384, 65535, 65663, 65700, 262144, 16777216}

Volume(start, count, bytes) == [start |-> start, total |-> count, bytes |-> bytes]

\* One partition that stays, or one that is moved and resized.
MCDisks ==
  {{Volume(63, t, 512)} : t \in Sizes512}
  \union {{Volume(63, 66605, 512), Volume(70, 4150, 512)}, {Volume(63, 131072, 512), Volume(87, 66605, 512)}}
  \union {{Volume(64, t, 4096)} : t \in Sizes4096}
-----------------------------------------------------------------------------
(* Two identities suggested by the hardware and one that is not, which the  *)
(* fold of LBA7 does not tell from the second; layouts that start at once    *)
(* and behind PlainStart; texts at the edges of their slots, and odd ones.   *)
Text(bytes) == [bytes |-> bytes, odd |-> Absent]
Odd(bytes, why) == [bytes |-> bytes, odd |-> why]
Owner(dept, user, label) == [dept |-> dept, user |-> user, label |-> label]

MCFold == ("Product" :> 7) @@ ("Full" :> 9) @@ ("Stranger" :> 9)
MCCandidates == <<"Product", "Full">>

Part(start, count) == [start |-> start, count |-> count]
MCLce == Part(90, 5)

MCLayouts ==
  [m \in DOMAIN PartitionTypes |->
     IF m = "DefaultThreePartition"
     THEN {<<Part(15, 10), Part(25, 30), Part(55, 35)>>,
           <<Part(45, 10), Part(55, 15), Part(70, 20)>>}
     ELSE {<<Part(15, 20), Part(40, 50)>>, <<Part(45, 15), Part(60, 30)>>}]

MCOldTexts == {Owner(Text(4), Text(4), Text(4)), Owner(Text(64), Text(32), Text(31))}

MCTexts ==
  MCOldTexts \union
  {Owner(Text(63), Text(31), Text(4)), Owner(Text(187), Text(31), Text(4)),
   Owner(Text(187), Text(155), Text(31)), Owner(Text(60), Text(155), Text(31)),
   Owner(Odd(63, "Marker"), Text(4), Text(4)), Owner(Text(64), Odd(32, "Pipe"), Text(4)),
   Owner(Text(4), Text(4), Odd(31, "Pipe"))}
-----------------------------------------------------------------------------
(* Small disks of every kind, and containers made by other tools.           *)
MCLceSectors == (512 :> 2) @@ (4096 :> 1)
MCSuggested  == <<"idA", "idB">>

TableSlot(type, start, count) == [type |-> type, start |-> start, count |-> count]
NoSlot      == TableSlot("Empty", 0, 0)
Record(slots)  == [what |-> "Mbr", parts |-> slots]
Boot(fs, cipher) == [what |-> "Boot", fs |-> fs, cipher |-> cipher]
Content(n, cipher)  == [what |-> "Data", n |-> n, cipher |-> cipher]

Lba12Entry(type, e, bytes) ==
  [type |-> type, start |-> e.start, count |-> e.count, bytes |-> bytes,
   need |-> type # 1, mode |-> IF bytes = 4096 THEN 3 ELSE 2, keyed |-> TRUE]
Lba7Entry(type, e, bytes) == [type |-> type, start |-> e.start, count |-> e.count, bytes |-> bytes]

Cipher(mode, i, type, bytes) ==
  IF ~ Ciphered(mode, i, type) THEN "Plain" ELSE IF bytes = 4096 THEN "Aes" ELSE "Sm4"

\* An EDP disk of a mode, with partitions behind one another and an LCE.
Edp(mode, ends, size, bytes, lce, onlyid) ==
  LET types  == ModeTypes[mode]
      e(i)   == LET from == IF i = 1 THEN FirstPartition ELSE ends[i - 1] IN Stretch(from, ends[i] - from)
      owner(l) == {i \in DOMAIN types : l \in Sectors(e(i))}
      content(l) ==
        LET i == CHOOSE x \in owner(l) : TRUE
            cipher == Cipher(mode, i, types[i], bytes)
        IN IF l = e(i).start THEN Boot("FAT", cipher) ELSE Content(l, cipher)
      front == <<Record(<<TableSlot("Data", e(1).start, e(1).count), NoSlot>>),
                 [what |-> "Lba4", onlyid |-> onlyid],
                 [what |-> "Lba7", sealed |-> "idB", entries |->
                   [i \in DOMAIN types |-> Lba7Entry(types[i], IF i = 1 THEN e(1) ELSE lce, bytes)]],
                 [what |-> "Lba12", sealed |-> "idB", entries |->
                   [i \in DOMAIN types |-> Lba12Entry(types[i], e(i), bytes)]]>>
  IN [total |-> size, bytes |-> bytes,
      sectors |-> [l \in 0..size - 1 |->
        CASE l < ProtocolSectors -> front[l + 1]
          [] owner(l) # {}       -> content(l)
          [] l \in Sectors(lce)  -> Content(l, "Zero")
          [] OTHER               -> Content(l, "Plain")]]

Without(d, lbas) ==
  [d EXCEPT !.sectors = [l \in DOMAIN d.sectors \ lbas |-> d.sectors[l]]]
With(d, l, s) == [d EXCEPT !.sectors[l] = s]

Mode0 == Edp("Mode0", <<9, 12, 15>>, 30, 512, Stretch(15, 2), "N1")
Mode1 == Edp("Mode1", <<10, 15>>, 30, 512, Stretch(17, 2), "N2")
Mode2 == Edp("Mode2", <<8, 14>>, 30, 512, Stretch(15, 2), "N1")
Native3 == Edp("Mode3", <<9, 13>>, 16, 4096, Stretch(14, 1), "N1")
Meeting == Edp("Mode3", <<8, 14>>, 30, 512, Stretch(19, 2), "N1")

\* An ordinary disk of 24 sectors: the named ones, and data.
OrdinaryDisk(named) ==
  [total |-> 24, bytes |-> 512,
   sectors |-> [l \in 0..23 |-> IF l \in DOMAIN named THEN named[l] ELSE Content(l, "Plain")]]

Chained ==
  OrdinaryDisk((0 :> Record(<<TableSlot("Data", 8, 3), TableSlot("Extended", 12, 10), NoSlot, NoSlot>>))
        @@ (1 :> Zeros) @@ (2 :> Zeros) @@ (3 :> Zeros) @@ (8 :> Boot("FAT", "Plain"))
        @@ (12 :> Record(<<TableSlot("Data", 1, 2), TableSlot("Extended", 5, 5)>>))
        @@ (17 :> Record(<<TableSlot("Data", 1, 3), NoSlot>>)))

GptHeader(current, backup, array) ==
  [what |-> "Gpt", current |-> current, backup |-> backup, first |-> 4, last |-> 21, array |-> array,
   count |-> 1, crc |-> <<[what |-> "Entries", entries |-> <<Stretch(8, 4), Stretch(14, 5)>>]>>, guid |-> "g"]
GptArray == [what |-> "Entries", entries |-> <<Stretch(8, 4), Stretch(14, 5)>>]
Gpt ==
  OrdinaryDisk((0 :> Record(<<TableSlot("Protective", 1, 23), NoSlot>>)) @@ (1 :> GptHeader(1, 23, 2))
        @@ (2 :> GptArray) @@ (3 :> Zeros) @@ (8 :> Boot("NTFS", "Plain"))
        @@ (22 :> GptArray) @@ (23 :> GptHeader(23, 1, 22)))

\* A file system without a table, and a table whose partition leaves the disk.
Superfloppy == OrdinaryDisk((0 :> Boot("FAT", "Plain")) @@ (1 :> Zeros) @@ (2 :> Zeros) @@ (3 :> Zeros))
Overlong ==
  OrdinaryDisk((0 :> Record(<<TableSlot("Data", 8, 30), NoSlot>>)) @@ (1 :> Zeros) @@ (2 :> Zeros)
        @@ (3 :> Zeros) @@ (8 :> Boot("FAT", "Plain")))

FormattedLater ==
  With(With(Mode0, 0, Record(<<TableSlot("Data", 10, 6), NoSlot>>)), 10, Boot("FAT", "Plain"))

\* A key of Native3 the opening of whose partitions does not depend on.
OtherKey == [Native3 EXCEPT !.sectors[3].entries[1].keyed = FALSE]

MCCaptured ==
  {Mode0, Mode1, Mode2, Meeting, Native3, Chained, Gpt, FormattedLater, Superfloppy, Overlong,
   Without(Mode0, {21}), Without(Mode1, {18}), Without(Mode2, {2}), Without(Native3, {14}),
   With(Native3, 9, Boot("FAT", "Plain")), With(Native3, 10, Content(99, "Aes")), OtherKey,
   With(Gpt, 23, Zeros), With(Mode2, 3, Zeros)}

MCCopied == {Mode2, Chained}

\* Another tool's manifests: one field of one part is other than edpcli's.
Change(seq, i, entry) == [seq EXCEPT ![i] = entry]
MCEdits(m) ==
  LET artifact(i, a) == [m EXCEPT !.artifacts = Change(@, i, a)]
      extent(i, e)   == [m EXCEPT !.extents = Change(@, i, e)]
      region(i, r)   == [m EXCEPT !.regions = Change(@, i, r)]
      as == m.artifacts  es == m.extents  rs == m.regions
  IN {artifact(i, [as[i] EXCEPT !.policy = p]) : i \in DOMAIN as, p \in {"Restorable", "EvidenceOnly"}}
     \union {artifact(i, [as[i] EXCEPT !.extents = <<es[j].id>>]) : i \in DOMAIN as, j \in DOMAIN es}
     \union {artifact(i, [as[i] EXCEPT !.frame = as[j].frame, !.at = as[j].at, !.digest = as[j].digest,
                                       !.stored = as[j].stored, !.original = as[j].original])
               : i \in DOMAIN as, j \in DOMAIN as}
     \union {artifact(i, [as[i] EXCEPT !.complete = FALSE]) : i \in DOMAIN as}
     \union {extent(i, [es[i] EXCEPT !.start = s]) : i \in DOMAIN es, s \in {0, 7, 20}}
     \union {extent(i, [es[i] EXCEPT !.start = @ + 1]) : i \in DOMAIN es}
     \union {extent(i, [es[i] EXCEPT !.region = rs[j].id, !.purpose = es[k].purpose])
               : i \in DOMAIN es, j \in DOMAIN rs, k \in DOMAIN es}
     \union {region(i, [rs[i] EXCEPT !.role = rs[j].role]) : i \in DOMAIN rs, j \in DOMAIN rs}
     \union {region(i, [rs[i] EXCEPT !.placed = FALSE]) : i \in DOMAIN rs}
     \union {region(i, [rs[i] EXCEPT !.count = @ + 1]) : i \in DOMAIN rs}
     \union {[m EXCEPT !.parts = SubSeq(@, 1, Len(@) - 1)],
             [m EXCEPT !.parts[1].start = @ + 1],
             [m EXCEPT !.artifacts = SubSeq(@, 1, Len(@) - 1)],
             [m EXCEPT !.state = IF @ = "plain" THEN "edp" ELSE "plain"],
             [m EXCEPT !.level = "Core"], [m EXCEPT !.device = "idC"],
             [m EXCEPT !.typed.device = Missing, !.device = "idA"],
             [m EXCEPT !.schema = IF @ = "v3" THEN "v4" ELSE "v3"],
             [m EXCEPT !.contract = Contract(TRUE, FALSE)],
             [m EXCEPT !.total = @ + 2, !.typed.total = @ + 2], [m EXCEPT !.bytes = 512, !.typed.bytes = 512]}
-----------------------------------------------------------------------------
SomeDisk == CHOOSE d \in MCDisks : TRUE

VolumesIdle  == Init /\ disk = SomeDisk
ProtocolIdle ==
  /\ total = 80 /\ changes = 0
  /\ image = Blank /\ boots = {} /\ registered = [what |-> "Plain"]

\* Only the part a behaviour follows starts anywhere.
MediaFormatsInit ==
  /\ ReadingInit
  /\ \/ part = "volumes"  /\ Init /\ ProtocolIdle
     \/ part = "protocol" /\ VolumesIdle /\ ProtocolInit
     \/ part = "backups"  /\ VolumesIdle /\ ProtocolIdle

MediaFormatsNext ==
  /\ UNCHANGED part
  /\ \/ part = "volumes"  /\ Next /\ UNCHANGED <<protocolVars, readingVars>>
     \/ part = "protocol" /\ ProtocolNext /\ UNCHANGED <<vars, readingVars>>
     \/ part = "backups"  /\ ReadingNext /\ UNCHANGED <<vars, protocolVars>>

MediaFormatsSpec ==
  MediaFormatsInit /\ [][MediaFormatsNext]_<<vars, protocolVars, readingVars, part>>
=============================================================================

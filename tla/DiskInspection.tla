---------------------------- MODULE DiskInspection ----------------------------
(***************************************************************************)
(* What the inspector shows of a disk or of a backup of one: the evidence   *)
(* it opens (application/evidence.rs), the regions, the layout and the      *)
(* deciphered content of sectors (inspect_target.rs, application/inspect/), *)
(* and the comparison of a disk with a backup of it.                       *)
(*                                                                         *)
(* A sector of a partition has a cipher; deciphered with another one it is  *)
(* garbage.                                                                *)
(***************************************************************************)
EXTENDS BackupContainer

CONSTANTS
  MaxCompared,      \* the most sectors a comparison looks at
  MaxInspected      \* the most sectors a request names

Zeros   == [what |-> "Blank"]
Garbage == [what |-> "Garbage"]

Opened(protocol, sectors, who, total, bytes) ==
  [protocol |-> protocol, sectors |-> sectors, who |-> who, total |-> total, bytes |-> bytes]
NoEvidence == Opened(<<>>, <<>>, Who(Missing, Missing, Missing), 0, 0)
-----------------------------------------------------------------------------
\* open_disk
OpenDisk(disk) ==
  IF Readable(disk, Stretch(0, ProtocolSectors))
  THEN Opened(Image(disk), disk.sectors, Identify(disk), disk.total, disk.bytes)
  ELSE NoEvidence

(* has_sector, read_sector, read_native_sector: a raw artifact's extents,   *)
(* of which the first that has the sector is read.                          *)
BackedBy(m, lba) ==
  SelectSeq(m.extents, LAMBDA e :
    lba \in Sectors(e) /\ \E a \in Range(RawArtifacts(m)) : e.id \in Range(a.extents))

BackupSectors(m, data) ==
  LET raw(e) == CHOOSE a \in Range(RawArtifacts(m)) : e.id \in Range(a.extents)
      has    == {lba \in UNION {Sectors(e) : e \in Range(m.extents)} : BackedBy(m, lba) # <<>>}
  IN [lba \in has |-> LET e == BackedBy(m, lba)[1] IN data[raw(e).id][lba - e.start + 1]]

\* plain_protocol_context: what the table's extents have of the first sectors.
PlainContext(sectors) ==
  [i \in 1..ProtocolSectors |-> IF i - 1 \in DOMAIN sectors THEN sectors[i - 1] ELSE Zeros]

\* open_backup, of a container that verified.
OpenBackup(m, data) ==
  LET sectors  == BackupSectors(m, data)
      protocol == IF Has(m.artifacts, "protocol") THEN data["protocol"] ELSE PlainContext(sectors)
      device   == IF m.typed.device = Missing /\ ~ PlainState(m) THEN m.device ELSE m.typed.device
      onlyid   == IF m.typed.onlyid = Missing /\ ~ PlainState(m) THEN m.onlyid ELSE m.typed.onlyid
      found    == IF device = Missing THEN Missing ELSE ProvisionKind(protocol, device, m.bytes)
      kind     == IF m.typed.kind # Missing THEN m.typed.kind
                  ELSE IF found # Missing THEN found
                  ELSE IF PlainState(m) /\ PlainPrefix([sectors |-> sectors, total |-> m.total]) THEN "Plain"
                  ELSE Missing
  IN Opened(protocol, sectors, Who(device, onlyid, kind), m.total, m.bytes)

\* What is compared; a mutant leaves the partitions' first sectors out.
WithoutHeads(m) == UNION {Sectors(ExtentOfRaw(m, a)) : a \in
                            {x \in Range(RawArtifacts(m)) : x.id \in {"protocol", "lce"}}}

Compared(m) == UNION {Sectors(ExtentOfRaw(m, a)) : a \in Range(RawArtifacts(m))}

(* verify_native_4kn_backup_against_disk_readonly: the disk is the one of   *)
(* the backup, and still holds what was captured of it.                     *)
MatchesNative(m, data, disk) ==
  LET backup == OpenBackup(m, data)
      live   == OpenDisk(disk)
      lbas   == Compared(m)
  IN /\ Native(m) /\ disk.bytes = 4096
     /\ live # NoEvidence /\ backup.total = live.total /\ backup.who = live.who
     /\ Cardinality(lbas) <= MaxCompared /\ \A lba \in lbas : lba < live.total
     /\ \E a \in Range(RawArtifacts(m)) : a.extents[1] = "lce"
     /\ 0..ProtocolSectors - 1 \subseteq lbas
     /\ \A lba \in lbas : lba \in DOMAIN live.sectors /\ backup.sectors[lba] = live.sectors[lba]
-----------------------------------------------------------------------------
\* InspectDiskContext, from run_evidence_source.
Context(source) ==
  LET who  == source.who
      kind == IF who.kind = Missing /\ who.device # Missing
              THEN ProvisionKind(source.protocol, who.device, source.bytes) ELSE who.kind
      edp  == kind # "Plain" /\ who.device # Missing
  IN [kind  |-> kind, total |-> source.total, bytes |-> source.bytes, device |-> who.device,
      front |-> source.protocol,
      table |-> IF who.kind = "Plain" THEN ReadTable(source.sectors, source.total, FALSE) ELSE NoTable,
      parts |-> IF edp THEN ParsePartitions(source.protocol, who.device, source.total, source.bytes)
                ELSE <<>>,
      lce   |-> IF edp THEN ParseLce(source.protocol, who.device, source.total, source.bytes)
                ELSE NoExtent]

HasProtocol(c) == c.kind \notin {Missing, "Plain"}

PartsOf(c) == IF c.kind = "Plain" THEN c.table.parts ELSE c.parts
At(entries, lba) == SelectSeq(entries, LAMBDA p : lba \in Sectors(p))

\* regions
PlainRegions(c, lba) ==
  LET own == (IF At(c.table.extents, lba) # <<>> THEN {"Metadata"} ELSE {})
             \union (IF At(c.table.parts, lba) # <<>> THEN {"Plain"} ELSE {})
  IN IF own # {} THEN own ELSE IF c.table = NoTable THEN {"Unknown"} ELSE {"Unallocated"}

EdpRegions(c, lba) ==
  LET tail == HasProtocol(c) /\ c.bytes = 512
  IN (IF HasProtocol(c) /\ lba < ProtocolSectors THEN {"Protocol"} ELSE {})
     \union (IF c.lce # NoExtent /\ lba \in Sectors(c.lce) THEN {"Lce"} ELSE {})
     \union (IF At(c.parts, lba) # <<>> THEN {"Partition"} ELSE {})
     \union (IF tail /\ c.total >= MirrorOffset
                /\ lba \in Sectors(Stretch(c.total - MirrorOffset, MirrorSectors))
             THEN {"BackupMirror"} ELSE {})
     \union (IF tail /\ c.total > NodeOffset /\ lba = c.total - NodeOffset
             THEN {"RestoreNode"} ELSE {})

Regions(c, lba) ==
  IF c.kind = "Plain" THEN PlainRegions(c, lba)
  ELSE IF EdpRegions(c, lba) # {} THEN EdpRegions(c, lba)
  ELSE {"Unknown"}

\* canonical_inspect_context
InspectLayout(c) ==
  IF c.kind = "Plain"
  THEN IF c.table = NoTable THEN NoLayout ELSE CanonicalPlain(c.total, c.table)
  ELSE IF c.kind = Missing \/ c.lce = NoExtent \/ TypesOf(c.parts) # ModeTypes[c.kind] THEN NoLayout
  ELSE CanonicalEdp(c.total,
         [i \in DOMAIN c.parts |->
            Segment(Named("P", i), Role(c.kind, i, c.parts[i].type), c.parts[i].start, c.parts[i].count)],
         c.lce, c.bytes)
-----------------------------------------------------------------------------
(***************************************************************************)
(* The content of a partition's sector, deciphered where the partition's    *)
(* first sector shows that it must be.                                     *)
(***************************************************************************)
Plainly(s, cipher) == IF s.what \in {"Boot", "Data"} /\ s.cipher = cipher THEN [s EXCEPT !.cipher = "Plain"] ELSE Garbage
IsFilesystem(s)    == s.what = "Boot" /\ s.cipher = "Plain"

Decoded(s) == [ok |-> TRUE, sector |-> s]
NotDecoded    == [ok |-> FALSE, sector |-> Garbage]

\* partition_semantics
HasSemantics(c, i) ==
  /\ HasProtocol(c) /\ i \in DOMAIN ModeTypes[c.kind] /\ ModeTypes[c.kind][i] = c.parts[i].type
  /\ c.parts[i].need = (c.parts[i].type # 1)

\* partition_physical_state: plain, deciphered, or not known.
PhysicalState(c, i, boot) ==
  LET opened == Plainly(boot, "Sm4")
  IN IF ~ HasSemantics(c, i) THEN "Unknown"
     ELSE IF ~ Ciphered(c.kind, i, c.parts[i].type) THEN "Plaintext"
     ELSE IF IsFilesystem(boot) THEN "Unknown"
     ELSE IF c.parts[i].mode = 2 /\ c.parts[i].keyed /\ IsFilesystem(opened) THEN "Sm4"
     ELSE "Unknown"

\* decode_non_protocol_with_boot
Decode(c, lba, s, boot) ==
  LET owners == {i \in DOMAIN c.parts : lba \in Sectors(c.parts[i])}
      i      == CHOOSE x \in owners : \A y \in owners : x <= y
  IN IF c.kind = "Plain" THEN
            IF At(c.table.parts, lba) # <<>> /\ IsFilesystem(boot) THEN Decoded(s) ELSE NotDecoded
     ELSE IF c.lce # NoExtent /\ lba \in Sectors(c.lce) THEN Decoded(Plainly(s, "Zero"))
     ELSE IF owners = {} THEN NotDecoded
     ELSE IF PhysicalState(c, i, boot) = "Plaintext" THEN Decoded(s)
     ELSE IF PhysicalState(c, i, boot) = "Sm4" THEN Decoded(Plainly(s, "Sm4"))
     ELSE NotDecoded

\* decode_native_mode3_with_boot
DecodeNative(c, lba, s, boot) ==
  LET owners == {i \in DOMAIN c.parts : lba \in Sectors(c.parts[i])}
      i      == CHOOSE x \in owners : \A y \in owners : x <= y
  IN IF /\ owners # {} /\ c.parts[i].mode = 3 /\ HasSemantics(c, i)
        /\ Ciphered(c.kind, i, c.parts[i].type)
        /\ ~ IsFilesystem(boot) /\ c.parts[i].keyed /\ IsFilesystem(Plainly(boot, "Aes"))
     THEN Decoded(Plainly(s, "Aes")) ELSE NotDecoded

-----------------------------------------------------------------------------
(* What is told of a sector beside its content: sector_meta_text.           *)
\* DECODER_REGISTRY: the first decoder that takes a sector.
DecoderTakes(c, decoder, lba) ==
  CASE decoder = "Protocol"  -> HasProtocol(c) /\ lba < ProtocolSectors
    [] decoder = "Lce"       -> c.lce # NoExtent /\ lba \in Sectors(c.lce)
    [] decoder = "Partition" -> At(PartsOf(c), lba) # <<>>

DecoderOf(c, lba) ==
  LET taking == SelectSeq(<<"Protocol", "Lce", "Partition">>, LAMBDA d : DecoderTakes(c, d, lba))
  IN IF taking = <<>> THEN "None" ELSE taking[1]

\* A protocol sector, or an ordinary disk's table, that its own parser reads.
HasView(c, lba) == DecoderTakes(c, "Protocol", lba) \/ (c.kind = "Plain" /\ lba = 0)
ViewParsed(c, s) ==
  \/ IsTable(s) \/ s.what = "Lba4"
  \/ s.what \in {"Lba7", "Lba12"} /\ c.device # Missing /\ s.sealed = c.device

\* partition_mbr_exposure, partition_file_key_crc_status
Exposed(c, p) ==
  LET table == c.front[1]
  IN table.what = "Mbr" /\ \E i \in DOMAIN table.parts :
       Used(table.parts[i]) /\ table.parts[i].start = p.start

KeyStatus(c, p) ==
  CASE ~ p.need                           -> "Unneeded"
    [] p.mode # 2 \/ c.device = Missing   -> "Unverified"
    [] OTHER                              -> IF p.keyed THEN "Pass" ELSE "Refused"

PartitionShown(c, lba, boot) ==
  LET i == CHOOSE x \in DOMAIN c.parts :
             lba \in Sectors(c.parts[x]) /\ \A y \in 1..x - 1 : lba \notin Sectors(c.parts[y])
      p == c.parts[i]
  IN [index |-> i, at |-> lba - p.start, exposed |-> Exposed(c, p), key |-> KeyStatus(c, p),
      role  |-> IF HasSemantics(c, i) THEN Role(c.kind, i, p.type) ELSE "Unconfirmed",
      state |-> IF boot = Unreadable THEN "Unknown" ELSE PhysicalState(c, i, boot)]

MetaShown(c, lba, s, boot) ==
  LET owners == At(PartsOf(c), lba)
  IN [view      |-> HasView(c, lba) /\ ViewParsed(c, s),
      lce       |-> DecoderTakes(c, "Lce", lba),
      partition |-> IF owners = <<>> THEN <<>>
                    ELSE IF c.kind # "Plain" THEN <<PartitionShown(c, lba, boot)>>
                    ELSE <<[at    |-> lba - owners[1].start,
                            state |-> IF IsFilesystem(boot) THEN boot.fs ELSE "Unknown"]>>]
-----------------------------------------------------------------------------
(* run_advanced_source, of one sector: its regions, what is made of it with  *)
(* the first sector of its partition, and what is told of it.               *)
PartitionBoot(c, sectors, lba) ==
  IF At(PartsOf(c), lba) = <<>> THEN Unreadable ELSE Sector(sectors, At(PartsOf(c), lba)[1].start)

\* decode_sector, and what is decoded without it.
DecodeSector(c, lba, s, boot) ==
  CASE s = Unreadable -> NotDecoded
    [] s # Unreadable /\ HasView(c, lba) -> IF ViewParsed(c, s) THEN Decoded(s) ELSE NotDecoded
    [] OTHER ->
         IF c.bytes > 512
         THEN IF boot = Unreadable THEN NotDecoded ELSE DecodeNative(c, lba, s, boot)
         ELSE IF \/ DecoderOf(c, lba) = "None"
                 \/ DecoderOf(c, lba) = "Partition" /\ boot = Unreadable
         THEN NotDecoded ELSE Decode(c, lba, s, boot)

InspectIn(c, sectors, lba) ==
  LET s    == Sector(sectors, lba)
      boot == PartitionBoot(c, sectors, lba)
  IN [regions |-> Regions(c, lba), raw |-> s,
      decoded |-> DecodeSector(c, lba, s, boot), shown |-> MetaShown(c, lba, s, boot)]

Inspect(source, lba) == InspectIn(Context(source), source.sectors, lba)

(* A request names sectors, or none for the first ones; it asks for the raw  *)
(* sectors, their content or what is told of them, and may go on where a     *)
(* sector cannot be decoded.                                                *)
Request(lbas, mode, soft) == [lbas |-> lbas, mode |-> mode, soft |-> soft]
FrontLbas == [i \in 1..ProtocolSectors |-> i - 1]

Workspace(items, layout, tree) == [items |-> items, layout |-> layout, tree |-> tree]
NoWorkspace == Workspace(<<>>, NoLayout, {})

Item(lba, seen, mode) ==
  CASE mode = "Raw"    -> <<lba, seen.regions, seen.raw>>
    [] mode = "Decode" -> <<lba, seen.regions, seen.raw, seen.decoded>>
    [] mode = "Meta"   -> <<lba, seen.regions, seen.raw, seen.shown>>
-----------------------------------------------------------------------------
(* The tree the inspector browses, build_inspect_topology: nodes with their  *)
(* range, their decoder and what they are; a node's sectors are its pages.  *)
Node(id, e, decoder, semantic) ==
  [id |-> id, start |-> e.start, count |-> e.count, decoder |-> decoder,
   semantic |-> semantic, children |-> {}]

UnknownWhole(c) == {Node("Unknown", Stretch(0, c.total), "None", "Unknown")}

\* clip_range, merged_claimed_ranges, unknown_gaps
Clip(e, total) == Stretch(e.start, Smaller(End(e), total) - e.start)

Claim(merged, e) ==
  IF merged # <<>> /\ e.start <= End(Last(merged))
  THEN Append(Front(merged), Stretch(Last(merged).start,
                                     Max({End(Last(merged)), End(e)}) - Last(merged).start))
  ELSE Append(merged, e)
Claimed(ranges) == FoldLeft(Claim, <<>>, SortSeq(ranges, LAMBDA a, b : a.start < b.start))

Unclaimed(from, claimed, total) ==
  LET ends   == <<from>> \o [i \in DOMAIN claimed |-> End(claimed[i])]
      starts == [i \in DOMAIN claimed |-> claimed[i].start] \o <<total>>
  IN SelectSeq([i \in DOMAIN ends |-> Stretch(ends[i], starts[i] - ends[i])], LAMBDA e : e.count > 0)

PlainTree(c) ==
  LET within(es) == {i \in DOMAIN es : es[i].start < c.total /\ es[i].count > 0}
      nodes(es, what, decoder) ==
        {Node(Named(what, i), Clip(es[i], c.total), decoder, what) : i \in within(es)}
      known == nodes(c.table.extents, "Metadata", "None") \union nodes(c.table.parts, "Plain", "Partition")
      free  == Unclaimed(0, Claimed(SetToSeq({Stretch(n.start, n.count) : n \in known})), c.total)
  IN known \union nodes(free, "Unallocated", "None")

\* properties, and the nodes' names.
PartitionKinds == {"Boot", "Share", "Combined", "Encrypt", "Reserve"}

Leaf(c, layout, s) ==
  LET owns(i) == c.parts[i].start = s.start /\ c.parts[i].count = s.count
      before  == {t \in layout.segments : t.kind = "Free" /\ t.start < s.start}
      name    == CASE s.kind \in {"Protocol", "Reserved", "Lce", "BackupMirror", "RestoreNode"} -> s.kind
                   [] s.kind = "Free"            -> Named("Unallocated", Cardinality(before))
                   [] s.kind \in PartitionKinds  -> Named("Partition", CHOOSE i \in DOMAIN c.parts : owns(i))
      decoder == CASE s.kind \in {"Protocol", "Lce"}  -> s.kind
                   [] s.kind \in PartitionKinds -> "Partition"
                   [] OTHER                     -> "None"
  IN Node(name, s, decoder,
          CASE s.kind \in PartitionKinds -> "Partition" [] s.kind = "Free" -> "Unallocated" [] OTHER -> s.kind)

\* From the LCE on, one node that has the rest as its children.
EdpTree(c, layout) ==
  LET leaves == {Leaf(c, layout, s) : s \in layout.segments}
      from   == Min({n.start : n \in {l \in leaves : l.semantic = "Lce"}})
      tail   == {n \in leaves : n.start >= from}
  IN (leaves \ tail)
     \union {[Node("Tail", Stretch(from, c.total - from), "None", "Tail") EXCEPT !.children = tail]}

Tree(c) ==
  IF c.kind = "Plain" THEN IF c.table = NoTable THEN UnknownWhole(c) ELSE PlainTree(c)
  ELSE IF InspectLayout(c) = NoLayout THEN UnknownWhole(c)
  ELSE EdpTree(c, InspectLayout(c))

Leaves(tree) == UNION {IF n.children = {} THEN {n} ELSE n.children : n \in tree}

\* materialize_sector_page: a sector is decoded as its node is.
Page(node, offset, limit) ==
  [i \in 1..(IF offset >= node.count THEN 0 ELSE Smaller(node.count - offset, limit)) |->
     Node(Named("Sector", node.start + offset + i - 1), Stretch(node.start + offset + i - 1, 1),
          node.decoder, node.semantic)]

\* lazy_sector_location: where the browser goes for a sector.
Located(tree, lba) ==
  LET holding(nodes) == {n \in nodes : lba \in Sectors(n)}
      under(n)       == IF n.children = {} THEN {<<n.id>>}
                        ELSE {<<n.id, l.id>> : l \in holding(n.children)}
  IN UNION {under(n) : n \in holding(tree)}

\* run_advanced_source, in a context; run_evidence_source
Answer(c, sectors, lbas, request) ==
  IF \/ Len(lbas) > MaxInspected
     \/ \E lba \in Range(lbas) : lba >= c.total \/ Sector(sectors, lba) = Unreadable
     \/ /\ request.mode = "Decode" /\ ~ request.soft
        /\ \E lba \in Range(lbas) : InspectIn(c, sectors, lba).decoded = NotDecoded
  THEN NoWorkspace
  ELSE Workspace([i \in DOMAIN lbas |-> Item(lbas[i], InspectIn(c, sectors, lbas[i]), request.mode)],
                 InspectLayout(c), Tree(c))

Answered(source, request) ==
  Answer(Context(source), source.sectors,
         IF request.lbas = <<>> THEN FrontLbas ELSE request.lbas, request)

\* load_backup_advanced_inspect: of the first sectors, those that were kept.
AnsweredFromBackup(source, request) ==
  Answered(source,
    IF request.lbas = FrontLbas
    THEN [request EXCEPT !.lbas = SelectSeq(@, LAMBDA lba : lba \in DOMAIN source.sectors)]
    ELSE request)
-----------------------------------------------------------------------------
(***************************************************************************)
(* The replay of a source into a new file (provision/native_geometry.rs,    *)
(* application/provision/native_image.rs): a geometry confirmed elsewhere,  *)
(* the source's protocol and LCE where the source says the same of itself,  *)
(* and file systems for some of its partitions.  No other data is taken.    *)
(***************************************************************************)
SourcePlan(mode, total, bytes, parts, lce) ==
  [mode |-> mode, total |-> total, bytes |-> bytes, parts |-> parts, lce |-> lce]
NoSourcePlan == SourcePlan(Missing, 0, 0, <<>>, NoExtent)

\* NativeEdpLayoutPlan::from_confirmed_geometry
ConfirmedPlan(mode, total, bytes, parts, lce) ==
  LET known == <<Stretch(0, ProtocolSectors), Stretch(ProtocolSectors, FirstPartition - ProtocolSectors), lce>>
               \o parts
  IN IF /\ total > FirstPartition /\ mode \in DOMAIN ModeTypes /\ TypesOf(parts) = ModeTypes[mode]
        /\ \A i \in DOMAIN known : Inside(known[i], total)
        /\ lce.count = LceSectors[bytes] /\ lce.start >= FirstPartition
        /\ \A i \in DOMAIN parts :
             parts[i].start >= FirstPartition /\ \A j \in 1..i + 2 : Disjoint(parts[i], known[j])
     THEN SourcePlan(mode, total, bytes, Extents(parts), lce)
     ELSE NoSourcePlan

\* verify_source_protocol_geometry, verify_source_visible_mbr
SaysTheSame(plan, protocol, device) ==
  LET old == protocol[Lba7At].entries
  IN /\ ProvisionKind(protocol, device, plan.bytes) = plan.mode
     /\ Extents(ParsePartitions(protocol, device, plan.total, plan.bytes)) = plan.parts
     /\ \A i \in 2..Len(old) : old[i].start = plan.lce.start /\ old[i].count = plan.lce.count

VisiblePartition(plan, s) ==
  s.what = "Mbr" /\ s.parts[1].type = "Data"
  /\ s.parts[1].start = plan.parts[1].start /\ s.parts[1].count = plan.parts[1].count

Block(lba, s) == [lba |-> lba, s |-> s]

(* verified_native_source_replay: the protocol is read again, and must be    *)
(* what it was when the source was opened.                                  *)
SameSource(source, plan, again) ==
  /\ plan # NoSourcePlan /\ source.who.device # Missing
  /\ source.bytes = plan.bytes /\ source.total = plan.total
  /\ again = source.protocol

\* verified_source_replay_from_reader: the table is the last block.
SourceReplay(source, plan) ==
  LET lce   == Run(source.sectors, plan.lce)
      again == Run(source.sectors, Stretch(0, ProtocolSectors))
  IN IF /\ SameSource(source, plan, again)
        /\ Unreadable \notin Range(again) \union Range(lce)
        /\ SaysTheSame(plan, again, source.who.device) /\ VisiblePartition(plan, again[1])
     THEN [i \in 1..ProtocolSectors - 1 |-> Block(i, again[i + 1])]
          \o [i \in DOMAIN lce |-> Block(plan.lce.start + i - 1, lce[i])]
          \o <<Block(0, again[1])>>
     ELSE <<>>

Blocks(writes) == {w.lba : w \in Range(writes)}

\* verify_source_replay_readback: the observed blocks come in any order.
ReadBackAs(writes, observed) ==
  Len(observed) = Len(writes) /\ Cardinality(Blocks(observed)) = Len(observed)
  /\ Range(observed) = Range(writes)

\* NativePartitionDataCipher::from_encrypt_mode
CipherOf(mode) ==
  CASE mode = 1 -> "AesOffset" [] mode = 2 -> "Sm4" [] mode = 3 -> "Aes" [] OTHER -> Missing

\* plan_native_edp_source_replay_image
SourceImage(source, plan) ==
  LET writes == SourceReplay(source, plan)
  IN IF Len(writes) = ProtocolSectors + plan.lce.count /\ Last(writes).lba = 0 THEN writes ELSE <<>>

(* plan_native_edp_source_replay_with_formats: of each format the partition, *)
(* the file system and whether the password opens the source's key.  A       *)
(* volume is its first sector here.                                         *)
NewVolume(index, fs, opens) == [index |-> index, fs |-> fs, opens |-> opens]

FormatRefused(source, plan, f) ==
  \/ f.index \notin DOMAIN plan.parts
  \/ LET p == ParsePartitions(source.protocol, source.who.device, plan.total, plan.bytes)[f.index]
     IN \/ Role(plan.mode, f.index, p.type) = "Reserve"
        \/ /\ Ciphered(plan.mode, f.index, p.type)
           /\ ~ (p.need /\ p.keyed /\ f.opens /\ CipherOf(p.mode) # Missing)

VolumeHead(source, plan, f) ==
  LET p == ParsePartitions(source.protocol, source.who.device, plan.total, plan.bytes)[f.index]
  IN Block(plan.parts[f.index].start,
           [what |-> "Boot", fs |-> f.fs,
            cipher |-> IF Ciphered(plan.mode, f.index, p.type) THEN CipherOf(p.mode) ELSE "Plain"])

ReplayWithFormats(source, plan, formats) ==
  LET base  == SourceImage(source, plan)
      heads == [i \in DOMAIN formats |-> VolumeHead(source, plan, formats[i])]
  IN IF \/ base = <<>>
        \/ \E i, j \in DOMAIN formats : i # j /\ formats[i].index = formats[j].index
        \/ \E i \in DOMAIN formats : FormatRefused(source, plan, formats[i])
        \/ Blocks(heads) \intersect Blocks(base) # {}
     THEN <<>>
     ELSE Front(base) \o heads \o <<Last(base)>>

\* validate_virtual_image_plan, and the new file the blocks are written to.
Writable(total, writes) ==
  /\ writes # <<>> /\ Last(writes).lba = 0
  /\ Cardinality(Blocks(writes)) = Len(writes) /\ \A lba \in Blocks(writes) : lba < total

NewImage(plan, writes) ==
  [total |-> plan.total, bytes |-> plan.bytes,
   sectors |-> [lba \in 0..plan.total - 1 |->
     IF lba \in Blocks(writes) THEN (CHOOSE w \in Range(writes) : w.lba = lba).s ELSE Zeros]]
\* verify_native_virtual_image
Holds(image, writes) == \A w \in Range(writes) : image.sectors[w.lba] = w.s
-----------------------------------------------------------------------------
(***************************************************************************)
(* A disk made an ordinary one (provision/plain.rs): its partitions, what is *)
(* free of it, and what is written: the EDP protocol and the old LCE are     *)
(* cleared, the volumes and the table are new.  LBA3, which no partition may *)
(* cover and which is kept, is not among the protocol's sectors here.        *)
(***************************************************************************)
MaxPrimaries == 4
NewSystems   == {"FAT", "exFAT"}
NewPrimary(e, fs) == [start |-> e.start, count |-> e.count, fs |-> fs]

ByStart(parts) == SortSeq(parts, LAMBDA a, b : a.start < b.start)

\* validate_plain_partitions
PrimariesFit(total, parts) ==
  LET sorted == ByStart(parts)
  IN /\ total > 1 /\ Len(parts) \in 1..MaxPrimaries
     /\ \A i \in DOMAIN parts : parts[i].start > 0 /\ Inside(parts[i], total)
     /\ \A i \in 2..Len(parts) : End(sorted[i - 1]) <= sorted[i].start

\* plain_gaps: the table's sector is not free.
PrimaryGaps(total, parts) == Unclaimed(1, ByStart(parts), total)

\* max_plain_sector_count, fill_partition
MostSectors(total, parts, i) ==
  LET behind == {p.start : p \in {q \in Range(parts) : q.start > parts[i].start}}
  IN IF parts[i].start >= total THEN 0
     ELSE (IF behind = {} THEN total ELSE Min(behind)) - parts[i].start

FilledPrimary(total, parts, i) == [parts EXCEPT ![i].count = MostSectors(total, parts, i)]

\* default_for_disk
DefaultPrimaries(total) ==
  IF total <= OrdinaryStart THEN <<>>
  ELSE <<NewPrimary(Stretch(OrdinaryStart, total - OrdinaryStart), "exFAT")>>

\* build_plain_mbr
PrimaryTable(parts) ==
  [what |-> "Mbr", parts |-> [i \in 1..MaxPrimaries |->
     IF i \in DOMAIN parts
     THEN [type |-> "Data", start |-> parts[i].start, count |-> parts[i].count]
     ELSE [type |-> "Empty", start |-> 0, count |-> 0]]]

\* plain_filesystem_image: a volume is its first sector here.
PrimaryHead(p) == Block(p.start, [what |-> "Boot", fs |-> p.fs, cipher |-> "Plain"])

(* build_plain_provision_write_plan: a sector that is written for several     *)
(* reasons has what the last of them writes.                                *)
OrdinaryWrites(total, parts, lce) ==
  LET heads   == [i \in DOMAIN parts |-> PrimaryHead(parts[i])]
      cleared == 1..ProtocolSectors - 1 \union Sectors(lce)
      last(lba) == CHOOSE w \in Range(heads) : w.lba = lba
  IN IF \/ ~ PrimariesFit(total, parts) \/ total < ProtocolSectors \/ End(lce) > total
        \/ \E i \in DOMAIN parts : parts[i].fs \notin NewSystems
     THEN <<>>
     ELSE (0 :> PrimaryTable(parts)) @@ [lba \in Blocks(heads) |-> last(lba).s]
          @@ [lba \in cleared |-> Zeros]

(* NativeVirtualDiskPlan::assemble, plan_native_plain_image: an ordinary disk *)
(* in a new file, of which the table is written last.                       *)
Assembled(total, parts) ==
  IF PrimariesFit(total, parts) /\ \A i \in DOMAIN parts : parts[i].fs \in NewSystems
  THEN Append([i \in DOMAIN parts |-> PrimaryHead(ByStart(parts)[i])], Block(0, PrimaryTable(parts)))
  ELSE <<>>

NewOrdinary(total, asked) ==
  IF total <= OrdinaryStart THEN <<>>
  ELSE Assembled(total, IF asked = <<>> THEN DefaultPrimaries(total) ELSE asked)
=============================================================================

---------------------------- MODULE BackupReading ----------------------------
(***************************************************************************)
(* A backup's way: it is captured from a disk and written to a container    *)
(* (BackupContainer), which is later read and verified, unit after unit,    *)
(* through one open handle (edpb/read.rs).  Meanwhile another program may   *)
(* write to the very file; and the container may be another tool's.        *)
(***************************************************************************)
EXTENDS DiskInspection

CONSTANTS
  Captured,       \* the disks a backup is made of
  Copied,         \* those whose backups another program copies over one
  Edits(_),       \* the manifests another tool makes of one
  MaxMeddling     \* how often a unit of the file is damaged

VARIABLES
  source,   \* the disk the file was captured from, or NoSource
  file,     \* the file's units now
  mtime,    \* its modification time: advances with every write
  foreign,  \* is the file still what edpcli wrote?
  over,     \* how many units another container's have replaced, of which container
  step,     \* what the reader does next
  stat,     \* the length and the modification time at the start
  header, manifest,
  data,     \* the artifacts read so far, by name
  digest    \* the units the digest of the whole file has seen

readingVars == <<source, file, mtime, foreign, over, step, stat, header, manifest, data, digest>>
fileVars    == <<source, file, mtime, foreign, over>>

NoSource == [sectors |-> <<>>, total |-> 0, bytes |-> 0]
NotOver  == [units |-> 0, of |-> NoFile]
NoStat   == [length |-> 0, mtime |-> 0]
Empty    == [x \in {} |-> <<>>]

ReadingInit ==
  /\ source = NoSource /\ file = NoFile /\ mtime = 0 /\ foreign = "Own" /\ over = NotOver
  /\ step = "Capture" /\ stat = NoStat
  /\ header = Missing /\ manifest = Missing /\ data = Empty /\ digest = <<>>

\* A unit of the file as it is now, or nothing behind its end.
Unit(at) == IF at + 1 \in DOMAIN file THEN file[at + 1] ELSE Unreadable
Span(units, first, last) == SubSeq(units, first, Smaller(last, Len(units)))
Slice(at, n) == [i \in 1..n |-> Unit(at + i - 1)]

Advance(condition, next) == step' = IF condition THEN next ELSE "Refused"
-----------------------------------------------------------------------------
Containers == {WrittenFile(disk, Identify(disk)) : disk \in Copied}

\* backup_create_flow: written whole and published, or nothing is.
Capture ==
  /\ step = "Capture"
  /\ \E disk \in Captured :
       /\ source' = disk /\ file' = WrittenFile(disk, Identify(disk))
       /\ step' = IF file' = NoFile THEN "NotWritten" ELSE "Stat"
  /\ UNCHANGED <<mtime, foreign, over, stat, header, manifest, data, digest>>

\* Another tool's container: another manifest for the same artifacts.
Reseal ==
  /\ step = "Stat" /\ foreign = "Own"
  /\ LET m     == file[Len(file) - 1].manifest
         bytes == [i \in DOMAIN m.artifacts |-> m.artifacts[i].digest]
     IN \E n \in Edits(m) : file' = Sealed(n, SubSeq(bytes, 1, Len(n.artifacts)))
  /\ foreign' = "Resealed"
  /\ UNCHANGED <<source, mtime, over, step, stat, header, manifest, data, digest>>

Reading == step \notin {"Capture", "NotWritten", "Refused", "Accepted"}

\* A unit of the file is damaged in place, or the file is cut behind it.
Damage ==
  /\ Reading /\ foreign \in {"Own", "Damaged"} /\ mtime < MaxMeddling
  /\ \E at \in DOMAIN file : \/ file' = [file EXCEPT ![at] = Zeros]
                             \/ file' = SubSeq(file, 1, at)
  /\ mtime' = mtime + 1 /\ foreign' = "Damaged"
  /\ UNCHANGED <<source, over, step, stat, header, manifest, data, digest>>

\* Another container is copied over this one, from its beginning on.
CopyOver ==
  /\ Reading /\ foreign \in {"Own", "Copied"}
  /\ \E other \in Containers \ {file} :
       /\ over.of \in {NoFile, other} /\ over.units < Len(other)
       /\ over' = [units |-> over.units + 1, of |-> other]
  /\ file' = SubSeq(over'.of, 1, over'.units) \o SubSeq(file, over'.units + 1, Len(file))
  /\ mtime' = mtime + 1 /\ foreign' = "Copied"
  /\ UNCHANGED <<source, step, stat, header, manifest, data, digest>>
-----------------------------------------------------------------------------
(* verify_snapshot, a read at a time.                                       *)
ReadStat ==
  /\ step = "Stat"
  /\ stat' = [length |-> Len(file), mtime |-> mtime]
  /\ Advance(Len(file) \in 2..MaxUnits, "Header")
  /\ UNCHANGED <<fileVars, header, manifest, data, digest>>

ReadHeader ==
  /\ step = "Header"
  /\ header' = Unit(0)
  /\ Advance(Unit(0).what = "Header" /\ Unit(0).footer + 1 = stat.length, "Footer")
  /\ UNCHANGED <<fileVars, stat, manifest, data, digest>>

ReadFooter ==
  /\ step = "Footer"
  /\ LET footer == Unit(header.footer)
     IN Advance(/\ footer.what = "Footer"
                /\ footer.manifest = header.manifest /\ footer.length = stat.length
                /\ footer.digest = header.digest
                /\ header.manifest >= 1 /\ header.manifest + 1 = header.footer, "Manifest")
  /\ UNCHANGED <<fileVars, stat, header, manifest, data, digest>>

ReadManifest ==
  /\ step = "Manifest"
  /\ LET unit == Unit(header.manifest)
     IN /\ manifest' = IF unit.what = "Manifest" THEN unit.manifest ELSE Missing
        /\ Advance(unit.what = "Manifest" /\ unit.manifest = header.digest /\ ValidGraph(unit.manifest),
                   "Artifacts")
  /\ UNCHANGED <<fileVars, stat, header, data, digest>>

\* The chunk of the next artifact.
ReadArtifact ==
  /\ step = "Artifacts" /\ Cardinality(DOMAIN data) < Len(manifest.artifacts)
  /\ LET a     == manifest.artifacts[Cardinality(DOMAIN data) + 1]
         chunk == Unit(a.frame)
         bytes == Slice(a.at, a.stored)
     IN /\ Advance(/\ a.codec = "none" /\ a.at = a.frame + 1
                   /\ a.frame >= 1 /\ a.at + a.stored <= header.manifest
                   /\ chunk.what = "Chunk" /\ chunk.stored = a.stored /\ chunk.original = a.original
                   /\ bytes = chunk.digest /\ bytes = a.digest, "Artifacts")
        /\ data' = IF step' = "Artifacts" THEN (a.id :> bytes) @@ data ELSE data
  /\ UNCHANGED <<fileVars, stat, header, manifest, digest>>

FramesApart(m) ==
  \A i, j \in DOMAIN m.artifacts :
    i # j => LET a == m.artifacts[i]  b == m.artifacts[j]
             IN a.at + a.stored <= b.frame \/ b.at + b.stored <= a.frame

CheckEvidence ==
  /\ step = "Artifacts" /\ Cardinality(DOMAIN data) = Len(manifest.artifacts)
  /\ Advance(RestoreEvidence(manifest, data) /\ FramesApart(manifest), "Digest")
  /\ UNCHANGED <<fileVars, stat, header, manifest, data, digest>>

\* The whole file once more: its first half, then the rest, to its end.
DigestFront ==
  /\ step = "Digest" /\ digest' = Span(file, 1, stat.length \div 2)
  /\ step' = "Digesting"
  /\ UNCHANGED <<fileVars, stat, header, manifest, data>>

DigestBack ==
  /\ step = "Digesting" /\ digest' = digest \o SubSeq(file, Len(digest) + 1, Len(file))
  /\ step' = "Restat"
  /\ UNCHANGED <<fileVars, stat, header, manifest, data>>

\* A mutant: only the length is compared.
SameLength == Len(file) = stat.length

Unchanged == SameLength /\ mtime = stat.mtime

ReadStatAgain ==
  /\ step = "Restat" /\ Advance(Unchanged, "Accepted")
  /\ UNCHANGED <<fileVars, stat, header, manifest, data, digest>>

ReadingNext ==
  \/ Capture \/ Reseal \/ Damage \/ CopyOver
  \/ ReadStat \/ ReadHeader \/ ReadFooter \/ ReadManifest \/ ReadArtifact \/ CheckEvidence
  \/ DigestFront \/ DigestBack \/ ReadStatAgain
-----------------------------------------------------------------------------
Accepted == step = "Accepted"
Untouched == foreign = "Own"

(* What verified is one container, and the digest it goes by is that        *)
(* container's, whatever was written to the file meanwhile: everything that *)
(* was read is in what the digest has seen.  And what edpcli wrote and      *)
(* nobody touched verifies, with the sectors the disk had.                  *)
ContainersReadBack ==
  /\ Accepted =>
       /\ digest = file /\ Len(file) = stat.length
       /\ header = file[1] /\ file[header.manifest + 1].manifest = manifest
       /\ \A a \in Range(manifest.artifacts) : data[a.id] = Slice(a.at, a.stored)
  /\ step = "Refused" => ~ Untouched
  /\ Accepted /\ Untouched =>
       \A a \in Range(RawArtifacts(manifest)) :
         data[a.id] = Run(source.sectors, ExtentOfRaw(manifest, a))

\* The disk after a restore onto an empty one of its size.
AfterRestore(writes) ==
  [lba \in 0..manifest.total - 1 |-> IF lba \in DOMAIN writes THEN writes[lba] ELSE Zeros]

(* A container that verifies, be it another tool's, can be restored onto a  *)
(* disk of its size, unless it is evidence only: then nothing is written.   *)
(* The restore stays inside the disk, writes the LCE where the protocol it  *)
(* writes points to, and a table that reads back as the partitions the      *)
(* backup lists; and what the preview calls complete is written.            *)
RestoresWhatWasShown ==
  Accepted =>
    LET writes == RestoreWrites(manifest, data, manifest.total, TRUE)
        shown  == PreviewStatus(manifest)
        lce    == ParseLce([i \in 1..ProtocolSectors |-> writes[i - 1]], manifest.device,
                           manifest.total, manifest.bytes)
    IN IF Native(manifest) THEN writes = NoWrites
       ELSE /\ writes # NoWrites /\ DOMAIN writes \subseteq 0..manifest.total - 1
            /\ PlainMetadata(manifest) =>
                 ReadTable(AfterRestore(writes), manifest.total, TRUE).parts = Extents(manifest.parts)
            /\ ~ PlainState(manifest) /\ Has(Restorable(manifest), "lce") =>
                 Sectors(lce) \subseteq DOMAIN writes /\ lce # NoExtent
            /\ shown.protocol = "CompleteBytes" => 0..ProtocolSectors - 1 \subseteq DOMAIN writes
            /\ shown.lce = "CompleteBytes" => Sectors(WithRole(manifest, "Lce")[1]) \subseteq DOMAIN writes

Kinds(layout, lba) ==
  LET k == SegmentAt(layout, lba).kind
  IN CASE k \in {"Boot", "Share", "Encrypt", "Combined", "Reserve"} -> {"Partition"}
       [] k = "Free" \/ k = "Reserved" -> {"Unknown", "Unallocated"}
       [] OTHER -> {k}

(* The tree's leaves are the layout's segments, or the whole disk where none *)
(* is drawn; its nodes have names of their own, and the sectors of a leaf    *)
(* the decoder that would take them; every sector is found in one leaf.     *)
TreeTiles(c, layout) ==
  LET leaves == Leaves(Tree(c))
      nodes  == Tree(c) \union leaves
  IN /\ UNION {Sectors(n) : n \in leaves} = 0..c.total - 1
     /\ \A n \in Tree(c) : n.children # {} => UNION {Sectors(l) : l \in n.children} = Sectors(n)
     /\ \A n, o \in nodes : n # o => n.id # o.id
     /\ \A lba \in 0..c.total - 1 : Cardinality(Located(Tree(c), lba)) = 1
     /\ layout # NoLayout =>
          /\ {Stretch(n.start, n.count) : n \in leaves} = {Stretch(s.start, s.count) : s \in layout.segments}
          /\ \A n \in leaves : \A s \in Range(Page(n, 0, n.count)) :
               /\ s.decoder = DecoderOf(c, s.start)
               /\ s.semantic \in Regions(c, s.start) \/ s.semantic \in {"Reserved", "Unallocated"}

(* An ordinary disk as it was planned: nobody's, with the partitions and the  *)
(* file systems asked for, and free where the plan is.                      *)
IsOrdinary(disk, parts, c, layout) ==
  LET free == {s \in layout.segments : s.kind = "Free"}
  IN /\ c.kind = "Plain" /\ c.device = Missing
     /\ c.table.parts = Extents(ByStart(parts)) /\ Tiles(layout)
     /\ {Stretch(s.start, s.count) : s \in free} = Range(PrimaryGaps(disk.total, parts))
     /\ \A i \in DOMAIN parts : FilesystemAt(disk, parts[i]) = parts[i].fs

SomePrimaries(total) ==
  LET low  == {NewPrimary(Stretch(s, n), "FAT") : s \in {ProtocolSectors, OrdinaryStart}, n \in {1, 5}}
      high == {NewPrimary(Stretch(12, n), "exFAT") : n \in {1, total - 12}}
  IN {DefaultPrimaries(total)} \union {<<l>> : l \in low}
     \union {<<l, h>> : l \in low, h \in high} \union {<<h, l>> : l \in low, h \in high}

\* It can be filled to its neighbour, not further.
FillsToNeighbour(total, parts) ==
  \A i \in DOMAIN parts :
    LET filled == FilledPrimary(total, parts, i)
    IN PrimariesFit(total, filled) /\ ~ PrimariesFit(total, [filled EXCEPT ![i].count = @ + 1])

OrdinaryAsPlanned(disk, parts) ==
  LET c == Context(OpenDisk(disk)) IN IsOrdinary(disk, parts, c, InspectLayout(c))

\* A disk made ordinary is so, with nothing left of its LCE; and a new one is.
BecomesOrdinary(disk, lce) ==
  \A parts \in SomePrimaries(disk.total) :
    LET made  == [disk EXCEPT !.sectors = OrdinaryWrites(disk.total, parts, lce) @@ @]
        fresh == NewOrdinary(disk.total, parts)
        image == NewImage(SourcePlan("Plain", disk.total, disk.bytes, parts, NoExtent), fresh)
        heads == {parts[i].start : i \in DOMAIN parts}
    IN PrimariesFit(disk.total, parts) =>
         /\ FillsToNeighbour(disk.total, parts)
         /\ \A lba \in Sectors(lce) \ heads : made.sectors[lba] = Zeros
         /\ Writable(disk.total, fresh) /\ Holds(image, fresh)
         /\ \A ordinary \in {made, image} : OrdinaryAsPlanned(ordinary, parts)

(* A drawn layout is the whole disk, without a hole or an overlap; regions   *)
(* and a form's draft agree with it; the bar has a cell for every segment;   *)
(* and the geometry of an EDP disk that is drawn can be replayed.            *)
GeometryOf(c) == ConfirmedPlan(c.kind, c.total, c.bytes, c.parts, c.lce)

LayoutTiles(c, layout) ==
  LET parts == [i \in DOMAIN c.parts |->
        Segment(Named("P", i), Role(c.kind, i, c.parts[i].type), c.parts[i].start, c.parts[i].count)]
  IN /\ Tiles(layout)
     /\ \A lba \in 0..layout.total - 1 : Regions(c, lba) \subseteq Kinds(layout, lba)
     /\ c.kind # "Plain" => GeometryOf(c) # NoSourcePlan
     /\ c.kind # "Plain" /\ c.bytes = 512 => Draft(c.total, parts, c.lce) = layout
     /\ \A width \in {Cardinality(layout.segments), 40} :
          /\ MapThenSumSet(LAMBDA s : Cells(layout, width)[s], layout.segments) = width
          /\ \A s \in layout.segments : Cells(layout, width)[s] >= 1

DrawnWell(c, layout) ==
  TreeTiles(c, layout) /\ (layout # NoLayout => LayoutTiles(c, layout))

(* Whatever is captured, what is drawn of it tiles it: layout, regions, tree, *)
(* draft and bar agree (canonical_inspect_context, build_inspect_topology,   *)
(* draft_edp, bar); and a disk that is made ordinary has the layout that was *)
(* planned (provision/plain.rs).                                            *)
LayoutsTile ==
  step \in {"Stat", "NotWritten"} /\ Untouched =>
    LET c == Context(OpenDisk(source))
    IN DrawnWell(c, InspectLayout(c)) /\ BecomesOrdinary(source, c.lce)

\* What is told of a sector without the first sector of its partition.
Vaguely(shown) ==
  [shown EXCEPT !.partition = [i \in DOMAIN @ |-> [@[i] EXCEPT !.state = "Unknown"]]]

(* What is asked of a backup is answered as of its disk: the first sectors,  *)
(* as far as they were kept, completely.                                    *)
AnswersAgree(disk, backup) ==
  \A mode \in {"Raw", "Decode", "Meta"} :
    LET kept   == SelectSeq(FrontLbas, LAMBDA lba : lba \in DOMAIN backup.sectors)
        answer == AnsweredFromBackup(backup, Request(FrontLbas, mode, TRUE))
    IN answer # NoWorkspace /\ answer = Answered(disk, Request(kept, mode, TRUE))

(* A backup's replay is its disk's.  The new file has the source's owner and *)
(* layout, and what is formatted in it is read as what it was formatted.    *)
ImageShows(image, disk, c, plan, formats) ==
  /\ image.who = disk.who /\ Context(image) = c
  /\ \A f \in Range(formats) :
       Inspect(image, plan.parts[f.index].start).decoded
         \in {Decoded([what |-> "Boot", fs |-> "FAT", cipher |-> "Plain"])}
             \union (IF c.bytes = 512 \/ Ciphered(c.kind, f.index, c.parts[f.index].type) THEN {}
                     ELSE {NotDecoded})

StagedShows(staged, disk, c, plan, formats) ==
  /\ Writable(plan.total, staged) /\ Holds(NewImage(plan, staged), staged)
  /\ ImageShows(OpenDisk(NewImage(plan, staged)), disk, c, plan, formats)

ReplaysShowTheDisk(disk, backup, c, plan) ==
  LET formats == SelectSeq([i \in DOMAIN plan.parts |-> NewVolume(i, "FAT", TRUE)],
                           LAMBDA f : ~ FormatRefused(disk, plan, f))
      replay  == SourceReplay(disk, plan)
  IN /\ SourceReplay(backup, plan) = replay
     /\ InspectLayout(c) # NoLayout /\ c.kind # "Plain" /\ Sectors(c.lce) \subseteq DOMAIN disk.sectors =>
          replay # <<>>
     /\ replay # <<>> =>
          /\ ReadBackAs(replay, Reverse(SourceReplay(backup, plan))) /\ Writable(plan.total, replay)
          /\ StagedShows(ReplayWithFormats(disk, plan, formats), disk, c, plan, formats)

(* Inspecting an untouched backup shows what inspecting the disk showed, as *)
(* far as the backup has its sectors: the same owner, layout and, deciphered*)
(* or refused, content; the preview draws that layout; the source replayed  *)
(* into a new file is that disk still; and a disk passes for the backup's   *)
(* exactly if it holds what was captured, and is then replayed alike.       *)
BackupsShowTheDisk ==
  Accepted /\ Untouched =>
    LET disk   == OpenDisk(source)
        backup == OpenBackup(manifest, data)
    IN /\ backup.who = disk.who
       /\ InspectLayout(Context(backup)) = InspectLayout(Context(disk))
       /\ PreviewLayout(manifest) = InspectLayout(Context(disk))
       /\ \A lba \in DOMAIN backup.sectors :
            LET kept == Inspect(backup, lba)  seen == Inspect(disk, lba)
            IN /\ kept.regions = seen.regions /\ kept.raw = seen.raw
               /\ kept.decoded \in {NotDecoded, seen.decoded}
               /\ kept.shown \in {seen.shown, Vaguely(seen.shown)}
       /\ AnswersAgree(disk, backup)
       /\ ReplaysShowTheDisk(disk, backup, Context(disk), GeometryOf(Context(disk)))
       /\ Native(manifest) => \A other \in Captured :
            MatchesNative(manifest, data, other) <=>
              /\ other.bytes = 4096 /\ other.total = manifest.total /\ OpenDisk(other).who = disk.who
              /\ \A lba \in DOMAIN backup.sectors : Sector(other.sectors, lba) = backup.sectors[lba]
=============================================================================

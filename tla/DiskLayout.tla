------------------------------ MODULE DiskLayout ------------------------------
(***************************************************************************)
(* What an ordinary disk's partition table says (partition_table.rs): an   *)
(* MBR with its chains of extended records, or a GPT with its mirror.  A   *)
(* disk is a function from sectors to what they hold; a sector that cannot *)
(* be read, or that lies outside, holds nothing any parser accepts.        *)
(*                                                                         *)
(* And the map of a whole disk that the inspector, the disk list, the form *)
(* and the backup preview draw (disk_layout.rs): what is known of the disk, *)
(* the rest as free space, without a hole or an overlap; a form's draft,   *)
(* which may overlap, with its conflicts; and the bar it is drawn as.      *)
(***************************************************************************)
EXTENDS Naturals, Sequences, SequencesExt, FiniteSets, FiniteSetsExt, TLC

CONSTANTS
  MaxEbrChain,      \* the longest chain of extended records followed
  ArraySectors,     \* the longest GPT array read
  ProtocolSectors,  \* the sectors of the EDP protocol, from the first on
  FirstPartition,   \* where the first partition of an EDP disk starts
  MirrorOffset, MirrorSectors,  \* the historical mirror, from the disk's end
  NodeOffset        \* the historical restore node, from the disk's end

ASSUME TailIsOrdered ==
  /\ 0 < NodeOffset /\ NodeOffset + MirrorSectors < MirrorOffset
  /\ 0 < ProtocolSectors /\ ProtocolSectors < FirstPartition

Stretch(start, count) == [start |-> start, count |-> count]
End(e)               == e.start + e.count
Sectors(e)           == e.start .. End(e) - 1
Inside(e, total)     == e.count > 0 /\ End(e) <= total
Disjoint(a, b)       == End(a) <= b.start \/ End(b) <= a.start

Unreadable == [what |-> "Unreadable"]
Sector(disk, lba) == IF lba \in DOMAIN disk THEN disk[lba] ELSE Unreadable
Run(disk, e)      == [i \in 1..e.count |-> Sector(disk, e.start + i - 1)]

PartTable(kind, parts, extents) == [kind |-> kind, parts |-> parts, extents |-> extents]
NoTable == PartTable("None", <<>>, <<>>)

Used(p) == p.type # "Empty" /\ p.count > 0
-----------------------------------------------------------------------------
(* parse_ebr_chain.  A walk has come to the record `at`; it goes on, is done,*)
(* or has met something that makes the whole table unreadable.              *)
Walk(state, at, seen, parts, extents) ==
  [state |-> state, at |-> at, seen |-> seen, parts |-> parts, extents |-> extents]

Follow(disk, total, base, walk) ==
  LET record  == Sector(disk, walk.at)
      logical == Stretch(walk.at + record.parts[1].start, record.parts[1].count)
      next    == record.parts[2]
      parts   == IF Used(record.parts[1]) THEN Append(walk.parts, logical) ELSE walk.parts
      state   == IF Used(record.parts[1]) /\ ~ Inside(logical, total) THEN "Bad"
                 ELSE IF ~ Used(next) THEN "Done"
                 ELSE IF next.type # "Extended" THEN "Bad"
                 ELSE IF base + next.start >= total THEN "Bad"
                 ELSE "On"
  IN IF walk.state # "On" THEN walk
     ELSE IF walk.at \in walk.seen \/ record.what # "Mbr"
     THEN [walk EXCEPT !.state = "Bad"]
     ELSE Walk(state, base + next.start, walk.seen \union {walk.at}, parts,
               Append(walk.extents, Stretch(walk.at, 1)))

Chain(disk, total, base) ==
  FoldLeftDomain(LAMBDA walk, i : Follow(disk, total, base, walk),
                 Walk("On", base, {}, <<>>, <<>>), [i \in 1..MaxEbrChain |-> i])

\* push_primary over the four slots: a partition of its own, or nothing.
Primaries(parts) == SelectSeq(parts, LAMBDA p : Used(p) /\ p.type = "Data")
Chains(parts)    == SelectSeq(parts, LAMBDA p : p.type = "Extended" /\ p.start # 0)

Extents(parts) == [i \in DOMAIN parts |-> Stretch(parts[i].start, parts[i].count)]

\* parse_lba0 takes any signed sector; a file system's first one has no slots used.
IsTable(s) == s.what = "Mbr" \/ (s.what = "Boot" /\ s.cipher = "Plain")
Slots(s)   == IF s.what = "Mbr" THEN s.parts ELSE <<>>

ReadMbr(disk, total) ==
  LET slots == Slots(disk[0])
      own   == Extents(Primaries(slots))
      walks == [i \in DOMAIN Chains(slots) |-> Chain(disk, total, Chains(slots)[i].start)]
      parts == own \o FlattenSeq([i \in DOMAIN walks |-> walks[i].parts])
  IN IF \/ \E i \in DOMAIN own : ~ Inside(own[i], total)
        \/ \E i \in DOMAIN walks : walks[i].state # "Done"
     THEN NoTable
     ELSE PartTable("Mbr", SortSeq(parts, LAMBDA a, b : a.start < b.start),
                <<Stretch(0, 1)>> \o FlattenSeq([i \in DOMAIN walks |-> walks[i].extents]))
-----------------------------------------------------------------------------
(* parse_gpt.  A header holds its own place, its mirror's, the usable range, *)
(* where its array lies, how long the array is, and the array's checksum.    *)
HeaderAt(disk, lba) ==
  LET h == Sector(disk, lba)
  IN h.what = "Gpt" /\ h.current = lba /\ h.first <= h.last /\ h.count > 0

ArrayOf(h) == Stretch(h.array, h.count)

PrimaryFits(h, total) ==
  /\ h.backup < total /\ h.first < total /\ h.last < total
  /\ h.count <= ArraySectors
  /\ Inside(ArrayOf(h), total) /\ h.array >= 2 /\ End(ArrayOf(h)) <= h.first

MirrorAgrees(disk, h, total) ==
  LET b == Sector(disk, h.backup)
  IN /\ h.backup = total - 1 /\ HeaderAt(disk, h.backup)
     /\ b.backup = h.current /\ b.first = h.first /\ b.last = h.last
     /\ b.guid = h.guid /\ b.count = h.count /\ b.crc = h.crc
     /\ End(ArrayOf(b)) = b.current /\ b.array > h.last
     /\ Run(disk, ArrayOf(b)) = b.crc /\ Run(disk, ArrayOf(b)) = Run(disk, ArrayOf(h))

\* The entries an array lists; an array's sector lists its own.
Entries(array) == FlattenSeq([i \in DOMAIN array |-> array[i].entries])

ReadGpt(disk, total, mirror) ==
  LET h       == Sector(disk, 1)
      array   == Run(disk, ArrayOf(h))
      parts   == Entries(array)
      backup  == Stretch(h.backup - h.count, h.count)
      extents == <<Stretch(0, 1), Stretch(1, 1), ArrayOf(h)>>
                 \o (IF h.count <= h.backup /\ backup.start > h.last THEN <<backup>> ELSE <<>>)
                 \o <<Stretch(h.backup, 1)>>
  IN IF /\ HeaderAt(disk, 1) /\ PrimaryFits(h, total) /\ array = h.crc
        /\ mirror => MirrorAgrees(disk, h, total)
        /\ \A i \in DOMAIN parts : Inside(parts[i], total)
     THEN PartTable("Gpt", parts, extents)
     ELSE NoTable

\* read_partition_table_inner; capture_partition_table asks for the mirror.
ReadTable(disk, total, mirror) ==
  IF total = 0 \/ ~ IsTable(Sector(disk, 0)) THEN NoTable
  ELSE IF \E p \in Range(Slots(disk[0])) : p.type = "Protective"
  THEN ReadGpt(disk, total, mirror)
  ELSE ReadMbr(disk, total)

\* The bytes of the table's extents, in their order: capture_partition_table.
TableEvidence(disk, table) ==
  [i \in DOMAIN table.extents |-> Run(disk, table.extents[i])]
-----------------------------------------------------------------------------
\* What is numbered is named by its number.
Named(what, i) == what \o ToString(i)

Segment(name, kind, start, count) ==
  [name |-> name, kind |-> kind, start |-> start, count |-> count]

DiskMap(total, segments) == [total |-> total, segments |-> segments]
NoLayout == DiskMap(0, {})

(* What no known segment covers, between two that are known.               *)
Gaps(total, known) ==
  LET free == {Segment("Free", "Free", b, e - b) :
                 b \in {0} \union {End(s) : s \in known},
                 e \in {total} \union {s.start : s \in known}}
  IN {g \in free : g.start < End(g) /\ \A s \in known : Disjoint(s, g)}

\* A mutant: only the disk's end is looked at.
KnownFits(total, known) ==
  \A i \in DOMAIN known : Inside(known[i], total) /\ known[i].kind # "Unknown"

KnownIsDisjoint(total, known) ==
  /\ KnownFits(total, known)
  /\ \A i, j \in DOMAIN known : i # j => Disjoint(known[i], known[j])

\* canonical_from_known
Canonical(total, known) ==
  IF KnownIsDisjoint(total, known)
  THEN DiskMap(total, Range(known) \union Gaps(total, Range(known)))
  ELSE NoLayout

When(condition, segment) == IF condition THEN <<segment>> ELSE <<>>
Smaller(a, b) == IF a < b THEN a ELSE b

Frame(total) ==
  <<Segment("Protocol", "Protocol", 0, Smaller(ProtocolSectors, total))>>
  \o When(total > ProtocolSectors,
          Segment("Reserved", "Reserved", ProtocolSectors,
                  Smaller(total, FirstPartition) - ProtocolSectors))

Trailer(total) ==
  When(total >= MirrorOffset + MirrorSectors,
       Segment("Mirror", "BackupMirror", total - MirrorOffset, MirrorSectors))
  \o When(total > NodeOffset, Segment("Node", "RestoreNode", total - NodeOffset, 1))

KnownEdp(total, parts, lce) ==
  Frame(total) \o parts \o <<Segment("LCE", "Lce", lce.start, lce.count)>>

\* canonical_edp_with_sector_bytes: the mirrors are known of 512-byte sectors alone.
CanonicalEdp(total, parts, lce, bytes) ==
  IF bytes = 512
  THEN IF total < ProtocolSectors THEN NoLayout
       ELSE Canonical(total, KnownEdp(total, parts, lce) \o Trailer(total))
  ELSE IF total < FirstPartition THEN NoLayout
  ELSE Canonical(total, KnownEdp(total, parts, lce))

\* canonical_plain
CanonicalPlain(total, table) ==
  Canonical(total,
    [i \in DOMAIN table.extents |->
       Segment("Table", "Metadata", table.extents[i].start, table.extents[i].count)]
    \o [i \in DOMAIN table.parts |->
       Segment(Named("P", i), "Plain", table.parts[i].start, table.parts[i].count)])
-----------------------------------------------------------------------------
(***************************************************************************)
(* A draft: between two neighbouring boundaries the disk is free, one       *)
(* segment's, or in conflict; equal neighbours are one segment.             *)
(***************************************************************************)
Covering(known, lba) ==
  {i \in DOMAIN known : known[i].start <= lba /\ lba < End(known[i])}

\* What is drawn at a sector.
Drawn(known, lba) ==
  LET over == Covering(known, lba)
  IN CASE over = {} -> <<"Free", "Free">>
       [] Cardinality(over) = 1 ->
            LET s == known[CHOOSE i \in over : TRUE] IN <<s.name, s.kind>>
       [] OTHER -> <<"Conflict", "Conflict">>

\* Where what is drawn changes.
Changes(total, known) ==
  {0} \union {lba \in 1..total - 1 : Drawn(known, lba) # Drawn(known, lba - 1)}

\* draft_edp
Draft(total, parts, lce) ==
  LET known == KnownEdp(total, parts, lce) \o Trailer(total)
      from  == Changes(total, known)
      to(b) == Min({e \in from : e > b} \union {total})
  IN IF total = 0 THEN NoLayout
     ELSE DiskMap(total, {Segment(Drawn(known, b)[1], Drawn(known, b)[2], b, to(b) - b) : b \in from})
-----------------------------------------------------------------------------
\* tail_group, collapsed_tail_model: from the LCE on, as one.
Collapsed(layout) ==
  LET lces == {s \in layout.segments : s.kind = "Lce"}
      from == Min({s.start : s \in lces})
  IN IF lces = {} THEN layout
     ELSE DiskMap(layout.total,
            {s \in layout.segments : s.start < from}
            \union {Segment("Tail", "Tail", from, layout.total - from)})

(* bar: how many of the cells each segment gets: one if there are enough,    *)
(* the rest by size, and what rounding left to the largest remainders.       *)
Cells(layout, width) ==
  LET segs      == layout.segments
      baseline  == IF Cardinality(segs) <= width THEN 1 ELSE 0
      remaining == width - baseline * Cardinality(segs)
      scaled(s) == s.count * remaining
      count(s)  == baseline + scaled(s) \div layout.total
      rest(s)   == scaled(s) % layout.total
      left      == width - MapThenSumSet(count, segs)
      before(s) == {t \in segs : rest(t) > rest(s) \/ (rest(t) = rest(s) /\ t.start < s.start)}
  IN [s \in segs |-> count(s) + (IF Cardinality(before(s)) < left THEN 1 ELSE 0)]

(* validate_complete: the segments are the disk.                            *)
Tiles(layout) ==
  /\ \A s \in layout.segments : Inside(s, layout.total)
  /\ \A s, t \in layout.segments : s # t => Disjoint(s, t)
  /\ UNION {Sectors(s) : s \in layout.segments} = 0..layout.total - 1

SegmentAt(layout, lba) == CHOOSE s \in layout.segments : lba \in Sectors(s)
=============================================================================

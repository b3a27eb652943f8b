--------------------------- MODULE BackupContainer ---------------------------
(***************************************************************************)
(* The container a backup is kept in (edpb/): a header, the artifacts'      *)
(* chunks, a manifest that says what they are, and a footer; what a writer *)
(* puts into it, what a manifest must satisfy, and what the readers make of *)
(* one: the restore's writes, the preview of a restore and the coverage.    *)
(*                                                                         *)
(* A file is a sequence of units: the header, the footer, the manifest, a   *)
(* chunk's header and a sector (or a note) are one each.  A digest is what  *)
(* it is the digest of.                                                     *)
(***************************************************************************)
EXTENDS BackupCapture

CONSTANTS
  MaxUnits, MaxArtifacts   \* limits.rs: the budgets of a file and its manifest

ProtocolExtent == ExtentOf("protocol", "protocol", "protocol", Stretch(0, ProtocolSectors))
ProtocolRegion == Region("protocol", "Protocol", Stretch(0, ProtocolSectors))

Find(entries, id)   == SelectSeq(entries, LAMBDA e : e.id = id)
Has(entries, id)    == \E i \in DOMAIN entries : entries[i].id = id
The(entries, id)  == Find(entries, id)[1]
Distinct(entries)   == \A i, j \in DOMAIN entries : i # j => entries[i].id # entries[j].id
ExtentOfRaw(m, a)   == The(m.extents, a.extents[1])
Restorable(m)       == SelectSeq(m.artifacts, LAMBDA a : a.policy = "Restorable")
RawArtifacts(m)     == SelectSeq(m.artifacts, LAMBDA a : a.kind = "raw_sectors")
-----------------------------------------------------------------------------
(* base_manifest and write_container.                                       *)
Native(m) == m.schema = "v4"
PlainState(m) == m.state = "plain"
PlainMetadata(m) == PlainState(m) /\ m.level = "Metadata"

Contract(structure, protocol) ==
  [structure |-> structure, protocol |-> protocol, files |-> FALSE, data |-> FALSE, assess |-> TRUE]

\* manifest_identity_from_snapshot
Typed(disk, who) ==
  [device |-> who.device, onlyid |-> who.onlyid, kind |-> who.kind,
   total |-> disk.total, bytes |-> disk.bytes, candidates |-> Range(Suggested)]

\* Where each artifact's chunk starts, and where the last one ends.
ChunkUnits(a) == 1 + Len(a.data)
FrameAt(artifacts) ==
  [i \in 1..Len(artifacts) + 1 |->
     1 + FoldLeftDomain(LAMBDA n, j : n + ChunkUnits(artifacts[j]), 0, SubSeq(artifacts, 1, i - 1))]

Stored(a, frame) ==
  [id |-> a.id, kind |-> a.kind, extents |-> a.extents, sources |-> a.sources, policy |-> a.policy,
   complete |-> a.complete, frame |-> frame, at |-> frame + 1, stored |-> Len(a.data),
   original |-> Len(a.data), codec |-> "none", digest |-> a.data]

\* What is written: the protocol of an EDP disk, and what was acquired.
Inputs(disk, plain, taken) ==
  (IF plain THEN <<>>
   ELSE <<Raw("protocol", "protocol", IF disk.bytes = 4096 THEN "EvidenceOnly" ELSE "Restorable",
              Image(disk))>>)
  \o taken.artifacts

Manifest(disk, who, taken) ==
  LET plain  == who.kind = "Plain"
      inputs == Inputs(disk, plain, taken)
  IN [schema |-> IF disk.bytes = 4096 THEN "v4" ELSE "v3", level |-> "Metadata",
      state |-> IF plain THEN "plain" ELSE "edp",
      contract |-> IF disk.bytes = 4096 THEN Contract(FALSE, FALSE) ELSE Contract(TRUE, ~ plain),
      device |-> IF plain THEN Suggested[1] ELSE who.device, onlyid |-> who.onlyid,
      typed |-> Typed(disk, who), total |-> disk.total, bytes |-> disk.bytes,
      parts |-> taken.parts,
      regions |-> (IF plain THEN <<>> ELSE <<ProtocolRegion>>) \o taken.regions,
      extents |-> (IF plain THEN <<>> ELSE <<ProtocolExtent>>) \o taken.extents,
      artifacts |-> [i \in DOMAIN inputs |-> Stored(inputs[i], FrameAt(inputs)[i])]]

Chunk(a) == [what |-> "Chunk", stored |-> a.stored, original |-> a.original, digest |-> a.digest]

\* The file of a manifest and of the bytes of its artifacts.
Sealed(m, data) ==
  LET body == FlattenSeq([i \in DOMAIN m.artifacts |-> <<Chunk(m.artifacts[i])>> \o data[i]])
      at   == Len(body) + 1
      ends(what) == [what |-> what, manifest |-> at, footer |-> at + 1, length |-> at + 2, digest |-> m]
  IN <<ends("Header")>> \o body \o <<[what |-> "Manifest", manifest |-> m], ends("Footer")>>

NoFile == <<>>
-----------------------------------------------------------------------------
(* validate_manifest_graph: part for part, in the order of the code.        *)
ValidIdentity(m) ==
  /\ m.schema \in {"v3", "v4"}
  /\ m.typed.total = m.total /\ m.typed.bytes = m.bytes
  /\ IF m.typed.kind = "Plain"
     THEN /\ m.typed.device = Missing /\ m.typed.onlyid = Missing /\ m.onlyid = Missing
          /\ m.device \in m.typed.candidates
     ELSE /\ m.typed.device \in {Missing, m.device}
          /\ m.typed.onlyid \in {Missing, m.onlyid}

ValidSchema(m) ==
  /\ m.bytes = (IF Native(m) THEN 4096 ELSE 512)
  /\ IF Native(m)
     THEN /\ ~ PlainState(m) /\ m.level = "Metadata"
          /\ m.contract = Contract(FALSE, FALSE) /\ Restorable(m) = <<>>
     ELSE m.contract = Contract(TRUE, ~ PlainState(m))

ValidPlain(m) ==
  /\ m.parts # <<>>
  /\ \A entries \in {m.regions, m.extents, m.artifacts} : ~ Has(entries, "protocol")
  /\ \E i \in DOMAIN Restorable(m) : Restorable(m)[i].kind = "raw_sectors"

ValidReferences(m) ==
  /\ \A entries \in {m.regions, m.extents, m.artifacts} : Distinct(entries)
  /\ \A i \in DOMAIN m.extents : Has(m.regions, m.extents[i].region)
  /\ \A i \in DOMAIN m.artifacts :
       /\ \A x \in Range(m.artifacts[i].extents) : Has(m.extents, x)
       /\ \A x \in m.artifacts[i].sources : Has(m.artifacts, x)

\* Ranges of a sequence of raw artifacts that meet.
RangesApart(m, artifacts) ==
  \A i, j \in DOMAIN artifacts :
    i # j => Disjoint(ExtentOfRaw(m, artifacts[i]), ExtentOfRaw(m, artifacts[j]))

ValidNativeRaw(m) ==
  /\ \A i \in DOMAIN RawArtifacts(m) :
       /\ Len(RawArtifacts(m)[i].extents) = 1
       /\ Inside(ExtentOfRaw(m, RawArtifacts(m)[i]), m.total)
  /\ RangesApart(m, RawArtifacts(m))

RequiredLce(m) ==
  /\ Has(m.artifacts, "lce")
  /\ LET lce == The(m.artifacts, "lce")
     IN lce.kind = "raw_sectors" /\ lce.policy = "EvidenceOnly" /\ lce.complete /\ Len(lce.extents) = 1

ValidProtocol(m) ==
  /\ \A entries \in {m.regions, m.extents, m.artifacts} : Has(entries, "protocol")
  /\ \A entries \in {m.regions, m.extents} :
       The(entries, "protocol").start = 0 /\ The(entries, "protocol").count = ProtocolSectors
  /\ LET raw == The(m.artifacts, "protocol")
     IN /\ raw.original = ProtocolSectors
        /\ raw.policy = (IF Native(m) THEN "EvidenceOnly" ELSE "Restorable")

\* The places a restore may write, by what the manifest says is there.
Authorized(m, a, e, region) ==
  CASE region.role = "Protocol" /\ e.purpose = "protocol" ->
         ~ PlainMetadata(m) /\ e.start = 0 /\ e.count = ProtocolSectors /\ a.id = "protocol"
    [] region.role = "Lce" /\ e.purpose = "lce" -> ~ PlainState(m) /\ a.id = "lce"
    [] region.role = "Mirror" /\ e.purpose = "mirror" ->
         /\ ~ PlainState(m) /\ a.id = "mirror"
         /\ e.start + MirrorOffset = m.total /\ e.count = MirrorSectors
    [] region.role = "Node" /\ e.purpose = "node" ->
         ~ PlainState(m) /\ a.id = "node" /\ e.start + NodeOffset = m.total /\ e.count = 1
    [] region.role = "Table" -> PlainMetadata(m)
    [] OTHER -> FALSE

ValidRestorable(m, a) ==
  /\ a.kind = "raw_sectors" /\ a.complete /\ Len(a.extents) = 1
  /\ LET e == ExtentOfRaw(m, a)  region == The(m.regions, e.region)
     IN /\ e.count > 0 /\ region.identified
        /\ region.placed => region.start <= e.start /\ End(e) <= End(region)
        /\ Authorized(m, a, e, region)
  /\ a.codec = "none" /\ a.stored = a.original

\* A mutant: the places are not looked at together.
RestorableIsPlaced(m) == \A i \in DOMAIN Restorable(m) : ValidRestorable(m, Restorable(m)[i])

RestorableIsSafe(m) == RestorableIsPlaced(m) /\ RangesApart(m, Restorable(m))

ValidGraph(m) ==
  /\ ValidIdentity(m) /\ Len(m.artifacts) <= MaxArtifacts /\ ValidSchema(m)
  /\ \A i \in DOMAIN m.parts : Inside(m.parts[i], m.total)
  /\ PlainMetadata(m) => ValidPlain(m)
  /\ ValidReferences(m)
  /\ Native(m) => ValidNativeRaw(m)
  /\ ~ PlainMetadata(m) => ValidProtocol(m)
  /\ \A i \in DOMAIN m.extents : End(m.extents[i]) <= m.total
  /\ \A i \in DOMAIN RawArtifacts(m) :
       LET a == RawArtifacts(m)[i]
       IN Len(a.extents) = 1 => a.original = ExtentOfRaw(m, a).count
  /\ Native(m) => RequiredLce(m)
  /\ RestorableIsSafe(m)
-----------------------------------------------------------------------------
(* validate_restore_evidence: what the artifacts' own bytes say.  data is a *)
(* function from the artifacts' names.                                      *)
KeptTable(m, data) ==
  LET at(i)  == ExtentOfRaw(m, Restorable(m)[i])
      lbas   == UNION {Sectors(at(i)) : i \in DOMAIN Restorable(m)}
      of(l)  == CHOOSE i \in DOMAIN Restorable(m) : l \in Sectors(at(i))
  IN [l \in lbas |-> data[Restorable(m)[of(l)].id][l - at(of(l)).start + 1]]

PlainEvidence(m, data) ==
  LET table == ReadTable(KeptTable(m, data), m.total, TRUE)
      kept  == {Stretch(ExtentOfRaw(m, a).start, ExtentOfRaw(m, a).count) : a \in Range(Restorable(m))}
  IN /\ table # NoTable /\ kept = Range(table.extents)
     /\ Extents(m.parts) = table.parts

PointerEvidence(m, data) ==
  LET e == ExtentOfRaw(m, The(m.artifacts, "lce"))
  IN Stretch(e.start, e.count) = ParseLce(data["protocol"], m.device, m.total, m.bytes)

RestoreEvidence(m, data) ==
  IF Native(m) THEN
         ParsePartitions(data["protocol"], m.device, m.total, m.bytes) # <<>> /\ PointerEvidence(m, data)
  ELSE IF PlainMetadata(m) THEN PlainEvidence(m, data)
  ELSE IF \E i \in DOMAIN Restorable(m) : Restorable(m)[i].id = "lce" THEN PointerEvidence(m, data)
  ELSE TRUE

\* write_container: the file, or nothing.
Container(m, inputs) ==
  LET data == [id \in {inputs[i].id : i \in DOMAIN inputs} |-> The(inputs, id).data]
      file == Sealed(m, [i \in DOMAIN inputs |-> inputs[i].data])
  IN IF ValidGraph(m) /\ RestoreEvidence(m, data) /\ Len(file) <= MaxUnits
     THEN file ELSE NoFile

Packed(disk, who, taken) ==
  IF taken = NoAcquisition THEN NoFile
  ELSE Container(Manifest(disk, who, taken), Inputs(disk, who.kind = "Plain", taken))

WrittenFile(disk, who) == Packed(disk, who, Acquire(disk, who))
-----------------------------------------------------------------------------
(* What a restore onto a disk of `total` sectors writes.                    *)
NoWrites == <<>>

RestoreWrites(m, data, total, targetIsEdp) ==
  LET all   == Range(Restorable(m))
      at(a) == ExtentOfRaw(m, a)
      kept  == UNION {Sectors(at(a)) : a \in all}
      of(l) == CHOOSE a \in all : l \in Sectors(at(a))
      wiped == IF PlainState(m) /\ targetIsEdp THEN 1..ProtocolSectors - 1 ELSE {}
  IN IF \/ Native(m)
        \/ \E a \in all : End(at(a)) > total
        \/ \E a, b \in all : a # b /\ ~ Disjoint(at(a), at(b))
        \/ \E a \in all : a.id = "lce" /\ ~ PointerEvidence(m, data)
        \/ \E a \in all : a.id = "mirror" /\ at(a).start + MirrorOffset # total
        \/ \E a \in all : a.id = "node" /\ at(a).start + NodeOffset # total
     THEN NoWrites
     ELSE [l \in kept \union wiped |->
             IF l \in kept THEN data[of(l).id][l - at(of(l)).start + 1] ELSE [what |-> "Blank"]]

\* restorable_complete_region: the region is restored whole.
RestoredWhole(m, region) ==
  LET of    == {e \in Range(m.extents) : e.region = region.id}
      known == UNION {Sectors(e) : e \in {x \in of : \E a \in Range(Restorable(m)) :
                                            a.complete /\ x.id \in Range(a.extents)}}
  IN region.placed /\ region.count > 0 /\ Sectors(region) \subseteq known

WithRole(m, role) == SelectSeq(m.regions, LAMBDA r : r.role = role)
Whole(m, role) == WithRole(m, role) # <<>> /\ RestoredWhole(m, WithRole(m, role)[1])

\* from_manifest: what it says of the table or the protocol, and of the LCE.
PreviewStatus(m) ==
  [table |-> IF PlainState(m) /\ m.contract.structure THEN "CompleteBytes" ELSE "PartialOrInvalid",
   protocol |-> IF Native(m) THEN "OutOfScope"
                ELSE IF m.contract.protocol /\ Whole(m, "Protocol") THEN "CompleteBytes"
                ELSE "PartialOrInvalid",
   lce |-> IF Whole(m, "Lce") THEN "CompleteBytes" ELSE "PartialOrInvalid",
   parts |-> IF m.contract.structure THEN Len(m.parts) ELSE 0]

\* build_layout
PreviewLayout(m) ==
  LET parts == [i \in DOMAIN m.parts |-> Segment(Named("P", i), m.parts[i].role, m.parts[i].start, m.parts[i].count)]
      raw   == SelectSeq(m.extents, LAMBDA e :
                 /\ \E r \in Range(m.regions) : r.role = "Table" /\ r.id = e.region
                 /\ \E a \in Range(Restorable(m)) : e.id \in Range(a.extents))
      table == [i \in DOMAIN raw |-> Segment("Table", "Metadata", raw[i].start, raw[i].count)]
      lces  == WithRole(m, "Lce")
  IN IF PlainState(m) THEN Canonical(m.total, table \o parts)
     ELSE IF lces = <<>> \/ ~ lces[1].placed THEN NoLayout
     ELSE CanonicalEdp(m.total, parts, Stretch(lces[1].start, lces[1].count), m.bytes)

(* from_parts: how much of each region the backup has; where an artifact is *)
(* partial, or the region is not whole, it is partial.                      *)
Coverage(m) ==
  [r \in Range(m.regions) |->
     LET related == {e \in Range(m.extents) : e.region = r.id}
         giving  == {a \in Range(m.artifacts) : \E e \in related : e.id \in Range(a.extents)}
         covered == Cardinality(UNION {Sectors(e) : e \in
                      {x \in related : \E a \in giving : x.id \in Range(a.extents)}})
     IN [sectors |-> covered,
         state |-> IF giving = {} THEN "NotCaptured"
                   ELSE IF (\A a \in giving : a.complete) /\ r.placed /\ covered >= r.count THEN "Complete"
                   ELSE "Partial"]]
=============================================================================

---------------------------- MODULE ProtocolImage ----------------------------
(***************************************************************************)
(* A disk through its registrations: what was written on it last, by this  *)
(* program or by an older tool, whether completely, and what the readers   *)
(* then say of it.  The disk may also be repartitioned by an ordinary      *)
(* system, which leaves a registration's sectors behind the new table.     *)
(***************************************************************************)
EXTENDS ProtocolReaders

CONSTANTS
  Totals,      \* the sizes of disk
  Lce,         \* the compatibility extent, [start, count]
  Layouts,     \* each mode's choices of partitions
  Texts,       \* the triples [dept, user, label] asked for
  OldTexts,    \* those that older tools registered
  Onlyid,      \* the number of the label
  MaxChanges   \* bound: changes after the first state

VARIABLES
  image,       \* LBA 0..12
  boots,       \* the extents of the file systems a system can see
  total,       \* the disk's sectors
  registered,  \* what the disk was last made: [what, ...]
  changes      \* how often it was changed

protocolVars == <<image, boots, total, registered, changes>>

SpecsOf(texts) ==
  UNION {[mode : {m}, parts : Layouts[m], onlyid : {Onlyid}, policy : {"Policy"},
          keys : {<<"Key", "Key", "Key">>}, dept : {t.dept}, user : {t.user}, label : {t.label}]
         : m \in DOMAIN PartitionTypes, t \in texts}

Modern ==
  [bootstrap |-> "zero", overlay |-> "absent", gpt |-> "absent", lba3 |-> "zero",
   encoding |-> "post-xor", secondKey |-> "current-main-onlyid", hserial |-> "current-zero",
   host |-> "legacy-host-identity", underlay |-> "zero-underlay", usb |-> "strict-legacy-absent",
   passVersion |-> 100, eetu |-> "absent-zero", eesi |-> "absent-zero",
   capacity |-> "disk-size", wrap |-> "mode2"]

\* The forms in which a spec's sectors are written today.
ProfileOf(spec) ==
  [entryCount |-> Len(spec.parts),
   dept  |-> IF FitsSlot(spec.dept, DeptSlot) THEN "short" ELSE "join60",
   upper |-> IF FitsSlot(spec.user, UserSlot) THEN "zero" ELSE "long-user"] @@ Modern

Complete(spec, id, profile) ==
  [what |-> "Complete", spec |-> spec, id |-> id, profile |-> profile]

\* The whole disk reserved for encryption shows a first partition that holds no
\* volume; every other mode formats its first partition in the clear.
FirstVolume(spec) ==
  IF spec.mode = "WholeDiskEncrypted" THEN {} ELSE {spec.parts[1]}

Apart(a, b) == a.start + a.count <= b.start \/ b.start + b.count <= a.start

Outside(volumes, extents) == {v \in volumes : \A e \in extents : Apart(v, e)}
-----------------------------------------------------------------------------
(***************************************************************************)
(* Disks the program may find.                                             *)
(***************************************************************************)
Ordinary(start, count) == [type |-> "Ordinary", start |-> start, count |-> count]

SystemTable(part) == [what |-> "Mbr", bootstrap |-> "unknown", overlay |-> "absent", parts |-> <<part>>]

OrdinaryDisks(size) ==
  LET volume == [start |-> PlainStart, count |-> (size - PlainStart) \div 2]
      Disk(zero, one, volumes) ==
        [image |-> [Blank EXCEPT ![0] = zero, ![1] = one], boots |-> volumes,
         registered |-> [what |-> "Plain"]]
  IN {Disk(Zero, Zero, {}),
      Disk([what |-> "Volume"], Zero, {[start |-> 0, count |-> size]}),
      Disk(SystemTable(Ordinary(PlainStart, volume.count)), Zero, {volume}),
      Disk(SystemTable(Ordinary(PlainStart, size)), Zero, {}),
      Disk(SystemTable([Ordinary(1, size - 1) EXCEPT !.type = "Protective"]), [what |-> "Gpt"], {volume})}

\* A registration under any identity, a long dept cut at any place.
Registration(spec, id, inline, size) ==
  [Generate(spec, size, Lce) EXCEPT
     ![6] = BuildLba6(spec, id, inline), ![7] = BuildLba7(spec, id, Lce),
     ![8] = BuildLba8(spec, id), ![9] = BuildLba9(spec, inline),
     ![11] = BuildLba11(id, size), ![12] = BuildLba12(spec, id)]

WrapAll(spec, w) ==
  [i \in DOMAIN spec.parts |-> IF NeedEncrypt(PartitionTypes[spec.mode][i]) THEN w ELSE 0]

\* What older tools wrote otherwise: whether they could, the axis, its state
\* and the image.
Older(spec, id, size) ==
  LET now == Registration(spec, id, DeptSlot.inline, size)
      encrypt == {i \in DOMAIN spec.parts : PartitionTypes[spec.mode][i] = "Encrypt"}
      Upper9(payload) == [now EXCEPT ![9] = [Nine(now) EXCEPT !.upper = payload]]
      forms ==
        {<<TRUE, "wrap", "mode2", now>>,
         <<TRUE, "wrap", "legacy-v0064", [now EXCEPT ![12].wrap = WrapAll(spec, 0)]>>,
         <<TRUE, "wrap", "mode1", [now EXCEPT ![12].wrap = WrapAll(spec, 1)]>>,
         <<TRUE, "wrap", "mode3", [now EXCEPT ![12].wrap = WrapAll(spec, 3)]>>,
         <<TRUE, "bootstrap", "netac-mbr", [now EXCEPT ![0].bootstrap = "netac-mbr"]>>,
         <<TRUE, "overlay", "sector-size-512", [now EXCEPT ![0].overlay = "sector-size-512"]>>,
         <<TRUE, "gpt", "enabled", [now EXCEPT ![1] = [what |-> "Gpt"], ![2] = [what |-> "Gpt"]]>>,
         <<TRUE, "lba3", "kingston-mp-a", [now EXCEPT ![3] = [what |-> "kingston-mp-a"]]>>,
         <<TRUE, "secondKey", "legacy-guid-crc", [now EXCEPT ![4].secondKey = "Guid"]>>,
         <<TRUE, "hserial", "legacy-caller-vector", [now EXCEPT ![4].hserial = 1]>>,
         <<TRUE, "host", "current-zero", [now EXCEPT ![4].host = 0, ![8].host = 0]>>,
         <<TRUE, "usb", "current", [now EXCEPT ![8].usb = UsbText(Onlyid, 0)]>>,
         <<TRUE, "usb", "transitional-2019", [now EXCEPT ![8].usb = UsbText(Onlyid, HostWord)]>>,
         <<TRUE, "eetu", "eetu", [now EXCEPT ![9] = [Nine(now) EXCEPT !.eetu = id]]>>,
         <<TRUE, "eesi", "eesi-enabled", [now EXCEPT ![10] = [what |-> "Eesi", id |-> id]]>>,
         <<TRUE, "capacity", "repair-chs",
           [now EXCEPT ![11].capacity = Capacity(size, "repair-chs")]>>,
         <<TRUE, "passVersion", 518, [now EXCEPT ![7].pass.version = 518]>>,
         <<~ FitsSlot(spec.dept, DeptSlot), "dept", "join59", Registration(spec, id, 59, size)>>,
         <<FitsSlot(spec.user, UserSlot), "upper", "sapf", Upper9([what |-> "Sapf"])>>,
         <<FitsSlot(spec.user, UserSlot), "upper", "eppe", Upper9([what |-> "Eppe", id |-> id])>>,
         <<encrypt # {}, "underlay", "legacy-mbr-snapshot",
           [now EXCEPT ![6].underlay = IF encrypt # {} THEN spec.parts[Min(encrypt)] ELSE Absent]>>}
  IN {[image |-> f[4], boots |-> FirstVolume(spec),
       registered |-> Complete(spec, id, [ProfileOf(spec) EXCEPT ![f[2]] = f[3]])]
      : f \in {g \in forms : g[1]}}

\* Registered under an identity this disk's hardware does not suggest, or
\* copied from a larger disk.
Misplaced(spec, size) ==
  {[image |-> Registration(spec, id, DeptSlot.inline, size), boots |-> FirstVolume(spec),
    registered |-> [what |-> "Foreign"]] : id \in DOMAIN Fold \ Range(Candidates)}
  \cup {[image |-> Registration(spec, WriteId, DeptSlot.inline, Max(Totals)),
         boots |-> FirstVolume(spec), registered |-> [what |-> "Foreign"]]}

Registered(size) ==
  UNION {UNION {Older(spec, id, size) : id \in Range(Candidates)}
         : spec \in {s \in SpecsOf(OldTexts) : GeometryAccepted(s, size, Lce)}}

ProtocolInit ==
  \E size \in Totals :
    \E disk \in OrdinaryDisks(size) \cup Registered(size)
                \cup UNION {Misplaced(spec, size) : spec \in SpecsOf(OldTexts)} :
      /\ total = size /\ changes = 0
      /\ image = disk.image /\ boots = disk.boots /\ registered = disk.registered
-----------------------------------------------------------------------------
(***************************************************************************)
(* Registering.  Only a plain disk, or one whose registration reads back    *)
(* under the identity it shows, is taken; the image is read again before   *)
(* it is written.                                                          *)
(***************************************************************************)
Live == LiveIdentity(image, boots, total)

Takes(spec) ==
  /\ changes < MaxChanges
  /\ \/ Live.kind = "Plain"
     \/ /\ Live.kind \in DOMAIN PartitionTypes
        /\ ParseExisting(image, Live.id, total) = Live.kind
  /\ SpecAccepted(spec) /\ GeometryAccepted(spec, total, Lce)
  /\ Validated(spec, Generate(spec, total, Lce), total, Lce)

Changed == changes' = changes + 1 /\ UNCHANGED total

Provision(spec) ==
  /\ Takes(spec)
  /\ image' = Generate(spec, total, Lce)
  /\ boots' = Outside(boots, Range(spec.parts) \cup {[start |-> 0, count |-> 1]})
                \cup FirstVolume(spec)
  /\ registered' = Complete(spec, WriteId, ProfileOf(spec))
  /\ Changed

\* An interrupted transaction that could not be undone: some sectors are still
\* the former ones, one may be neither.
PartOf(new, kept, broken) ==
  [lba \in 0..12 |-> IF lba \in broken THEN Torn ELSE IF lba \in kept THEN image[lba] ELSE new[lba]]

Interrupted(new, lbas, former) ==
  \E kept \in SUBSET lbas \ {{}} :
    \E broken \in {{}} \cup {{lba} : lba \in kept} :
      /\ image' = PartOf(new, kept, broken)
      /\ registered' = [what |-> IF former = "Plain" THEN "TornPlain" ELSE "Torn"]
      /\ UNCHANGED boots /\ Changed

InterruptProvision(spec) ==
  Takes(spec) /\ Interrupted(Generate(spec, total, Lce), {0, 4, 7, 12}, Live.kind)

\* rekey_existing_partition_image: the first partition is never encrypted.
Rekeyed(i) ==
  [image EXCEPT ![7].entries[i].key = "NewKey", ![12].entries[i].key = "NewKey", ![12].wrap[i] = 2]

MayRekey(i) ==
  /\ changes < MaxChanges
  /\ Live.id # Absent /\ ParseExisting(image, Live.id, total) \in DOMAIN PartitionTypes
  /\ i \in DOMAIN image[12].entries \ {1}

\* All keys wrapped alike is a form of LBA12 the detectors know.
Rekey(i) ==
  /\ MayRekey(i)
  /\ image' = Rekeyed(i)
  /\ registered' =
       IF registered.what # "Complete" THEN registered
       ELSE LET wraps == {image'[12].wrap[j] : j \in {k \in DOMAIN image'[12].entries :
                                                        image'[12].entries[k].need}}
            IN IF Cardinality(wraps) > 1 THEN [what |-> "MixedKeys"]
               ELSE [registered EXCEPT !.profile.wrap = Wraps[2]]
  /\ UNCHANGED boots /\ Changed

InterruptRekey(i) == MayRekey(i) /\ Interrupted(Rekeyed(i), {7, 12}, "Registered")

\* An ordinary system partitions the disk anew and formats it.
Repartition ==
  /\ changes < MaxChanges
  /\ LET volume == [start |-> PlainStart, count |-> total - PlainStart]
     IN /\ image' = [image EXCEPT ![0] = SystemTable(Ordinary(PlainStart, total - PlainStart)),
                                  ![1] = Zero, ![2] = Zero]
        /\ boots' = Outside(boots, {volume, [start |-> 0, count |-> 1]}) \cup {volume}
  /\ registered' = [what |-> IF registered.what = "Complete" THEN "Reused" ELSE "Plain?"]
  /\ Changed

ProtocolNext ==
  \/ \E spec \in SpecsOf(Texts) : Provision(spec)
  \/ \E spec \in SpecsOf(OldTexts) : InterruptProvision(spec)
  \/ \E i \in 2..3 : Rekey(i) \/ InterruptRekey(i)
  \/ Repartition

ProtocolSpec == ProtocolInit /\ [][ProtocolNext]_protocolVars
-----------------------------------------------------------------------------
\* A first partition so far behind that its volume looks like that of a reused
\* disk: the observer calls such a disk plain.
LateFirst(spec) == spec.parts[1].start >= PlainStart /\ FirstVolume(spec) # {}

\* What a single detection claims is true of the registration, the truth is
\* always among the candidates, and where bytes came from is never claimed.
DetectionsAreTrue ==
  LET states == AxisStates(image, registered.id, total)
  IN /\ \A axis \in DOMAIN states : registered.profile[axis] \in states[axis]
     /\ \A axis \in {"encoding", "secondKey", "hserial"} : Cardinality(states[axis]) > 1

\* The inspector deciphers every sector and shows of it what was registered;
\* without the identity it shows the sectors enciphered with it raw.
InspectorShows(spec, id) ==
  LET view(lba, under) == SectorView(lba, image, under, spec.onlyid, total)
      seen(lba)        == view(lba, id).fields
  IN /\ \A lba \in 0..12 : view(lba, id).state = "Parsed"
     /\ seen(0).table = <<Visible(spec.parts[1])>>
     /\ seen(4).onlyid = spec.onlyid
     /\ seen(6).seal = "matches"
     /\ seen(7).mode = spec.mode /\ seen(7).pass.policy = spec.policy
     /\ seen(8).texts = [dept |-> spec.dept, user |-> spec.user, label |-> spec.label]
     /\ seen(11).id = id
     /\ \A i \in DOMAIN spec.parts :
          seen(12).table[i].part = Parts(BuildLba12(spec, id).entries)[i]
     /\ \A lba \in {7, 8, 9, 12} : view(lba, Absent) = RawOnly("MissingContext")

(***************************************************************************)
(* A disk registered completely, in any of the forms there have been, reads *)
(* back as what was registered: the identity, the mode, the owner, the     *)
(* partitions of both tables, the policy and the joined texts; the inspector*)
(* deciphers every sector and shows the same; its image parses under the    *)
(* forms it was written in; and the detection of the forms tells nothing    *)
(* but the truth.                                                          *)
(***************************************************************************)
RegistrationsReadBack ==
  registered.what = "Complete" =>
    LET spec == registered.spec
        id   == registered.id
    IN /\ Identified(image) = id
       /\ ParseExisting(image, id, total) = spec.mode
       /\ ~ LateFirst(spec) => Live = Evidence(id, spec.onlyid, spec.mode)
       /\ Summary(Observed(image, boots, total), image, total) =
            [onlyid |-> spec.onlyid, pdkb |-> id,
             owner  |-> [dept |-> spec.dept, user |-> spec.user, label |-> spec.label],
             partitions |-> Parts(BuildLba7(spec, id, Lce).entries) \o Parts(BuildLba12(spec, id).entries)]
       /\ DeptText(image) = spec.dept /\ UserText(image) = spec.user
       /\ PassPolicy(image) = spec.policy
       /\ InspectorShows(spec, id)
       /\ ParsesAs(image, id, total, registered.profile)
       /\ DetectionsAreTrue

(***************************************************************************)
(* A disk whose registration was replaced only in part is not taken for a  *)
(* plain one, which would be registered or restored without its backup; a  *)
(* registered disk that an ordinary system has made its own is. And the    *)
(* observer's kind and the strict decoding of both partition tables agree, *)
(* also when a change was interrupted: a mode is shown if and only if it   *)
(* is decoded. (On a copy on a smaller disk, whose table runs past the     *)
(* end, the observer goes further.)                                        *)
(***************************************************************************)
TableFits == \A i \in DOMAIN image[12].entries :
               image[12].entries[i].start + image[12].entries[i].size <= total

ReadersAgree ==
  LET seen == Observed(image, boots, total)
      read == ParseExisting(image, seen.id, total)
  IN seen.id # Absent =>
       /\ read \in DOMAIN PartitionTypes => seen.kind = read
       /\ seen.kind # Absent /\ TableFits => read = seen.kind

LastOwnerRecognised ==
  /\ registered.what = "Torn" /\ ~ LooksReused(image, boots, total) => Live.kind # "Plain"
  /\ registered.what = "Reused" => Live.kind = "Plain"
  /\ ReadersAgree
=============================================================================

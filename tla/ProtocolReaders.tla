--------------------------- MODULE ProtocolReaders ---------------------------
(***************************************************************************)
(* What the program's readers make of an image: which identity a disk was  *)
(* registered under and as what it counts (identify.rs,                    *)
(* media_identity_observer.rs, provision/reprovision), who owns it         *)
(* (protocol/semantic.rs), in which of the historical forms each sector is *)
(* (protocol/profile_detector.rs), and the whole, parsed under a profile   *)
(* of those forms (protocol/image.rs).                                     *)
(***************************************************************************)
EXTENDS ProtocolSectors, FiniteSetsExt

CONSTANTS
  PlainStart   \* the first sector an ordinary system's partition starts at

-----------------------------------------------------------------------------
(***************************************************************************)
(* Identity.                                                               *)
(***************************************************************************)
Open7(id, image)  == image[7].what = "Table7" /\ image[7].fold = Fold[id]
Open12(id, image) == image[12].what = "Table12" /\ image[12].id = id

\* identify: the first candidate under which LBA7 shows its magic.
Identified(image) ==
  LET hits == {i \in DOMAIN Candidates : Open7(Candidates[i], image)}
  IN IF hits = {} THEN Absent ELSE Candidates[Min(hits)]

\* lba4_label_id_from
LabelId(image) == IF image[4].what = "Tag" THEN image[4].onlyid ELSE Absent

Types(entries) == [i \in DOMAIN entries |-> entries[i].type]

ModeOfTypes(types) ==
  LET modes == {m \in DOMAIN PartitionTypes : PartitionTypes[m] = types}
  IN IF modes = {} THEN Absent ELSE CHOOSE m \in modes : TRUE

\* Both tables show as many entries as LBA12's first says, alike in count and
\* type, and the first of the same extent.
TablesAgree(t7, t12) ==
  LET count == t12[1].count
  IN /\ count \in 2..3 /\ count <= Len(t7) /\ count <= Len(t12)
     /\ \A i \in 1..count :
          /\ t7[i].count = count /\ t12[i].count = count
          /\ t7[i].type = t12[i].type /\ t12[i].size > 0
     /\ t7[1].start = t12[1].start /\ t7[1].size = t12[1].size

\* A mutant: the kind from LBA7 alone.
ModeFromFirstTable(image, id) ==
  IF Open7(id, image) THEN ModeOfTypes(Types(image[7].entries)) ELSE Absent

\* DiskProvisionKind::from_sectors
ModeFromSectors(image, id) ==
  IF Open7(id, image) /\ Open12(id, image) /\ TablesAgree(image[7].entries, image[12].entries)
  THEN ModeOfTypes(SubSeq(Types(image[12].entries), 1, image[12].entries[1].count))
  ELSE Absent

\* parse_existing_provision: nothing, an error, or the mode.
ParseExisting(image, id, total) ==
  LET seven == Open7(id, image)
      t7    == image[7].entries
      t12   == image[12].entries
      mode  == ModeOfTypes(Types(t12))
  IN IF ~ seven /\ ~ Open12(id, image) THEN Absent
     ELSE IF /\ seven /\ Open12(id, image) /\ TablesAgree(t7, t12)
             /\ Len(t7) = t12[1].count /\ Len(t12) = t12[1].count
             /\ mode # Absent
             /\ \A i \in DOMAIN t12 :
                  /\ t7[i].need = t12[i].need /\ t12[i].need = NeedEncrypt(t12[i].type)
                  /\ t12[i].start >= First /\ t12[i].start + t12[i].size <= total
             /\ \A i, j \in DOMAIN t12 :
                  t12[i].start < t12[j].start => t12[i].start + t12[i].size <= t12[j].start
             /\ \A i, j \in DOMAIN t12 : i # j => t12[i].start # t12[j].start
          THEN mode
          ELSE "Error"

\* reliable_pass_info_policy
PassPolicy(image) ==
  IF image[7].pass.policy = image[12].pass.policy THEN image[7].pass.policy ELSE Absent

\* A file system whose boot sector fits an extent; boots are those on the disk.
HasFileSystem(boots, start, count) ==
  \E b \in boots : b.start = start /\ b.count <= count

UsedParts(image) == {image[0].parts[i] : i \in DOMAIN image[0].parts}

\* confirmed_plain_protocol_prefix
ConfirmedPlain(image, boots, total) ==
  \/ HasFileSystem(boots, 0, total)
  \/ /\ image[0].what = "Mbr" /\ UsedParts(image) # {}
     /\ IF \E p \in UsedParts(image) : p.type = "Protective"
        THEN image[1].what = "Gpt"
        ELSE \A p \in UsedParts(image) : p.start < total /\ p.start + p.count <= total

Evidence(id, onlyid, kind) == [id |-> id, onlyid |-> onlyid, kind |-> kind]

\* A mutant: a label's number does not speak against a plain disk.
ObservedByTable(image, boots, total) ==
  LET id == Identified(image)
  IN CASE id # Absent -> Evidence(id, LabelId(image), ModeFromSectors(image, id))
       [] id = Absent /\ ConfirmedPlain(image, boots, total) -> Evidence(Absent, Absent, "Plain")
       [] OTHER -> Evidence(Absent, LabelId(image), Absent)

\* media_identity_from_protocol_image
Observed(image, boots, total) ==
  LET id == Identified(image)
  IN CASE id # Absent -> Evidence(id, LabelId(image), ModeFromSectors(image, id))
       [] id = Absent /\ LabelId(image) = Absent /\ ConfirmedPlain(image, boots, total) ->
            Evidence(Absent, Absent, "Plain")
       [] OTHER -> Evidence(Absent, LabelId(image), Absent)

\* apply_runtime_plain_override: a registration's leftovers under an ordinary
\* partition table whose every partition holds a file system.
LooksReused(image, boots, total) ==
  /\ image[0].what = "Mbr" /\ UsedParts(image) # {}
  /\ \A p \in UsedParts(image) :
       /\ p.type \notin {"Extended", "Protective"}
       /\ p.start >= PlainStart /\ p.start + p.count <= total
       /\ HasFileSystem(boots, p.start, p.count)

LiveIdentity(image, boots, total) ==
  LET seen == Observed(image, boots, total)
  IN IF seen.kind \in DOMAIN PartitionTypes /\ LooksReused(image, boots, total)
     THEN Evidence(Absent, Absent, "Plain") ELSE seen
-----------------------------------------------------------------------------
(***************************************************************************)
(* The sectors in their historical forms.  A reader that has several forms *)
(* to choose from tries each: the candidates of an axis.                    *)
(***************************************************************************)
Slot(six, name) ==
  LET slot == six[name]
  IN IF slot.marked \/ slot.text.odd = "Marker" THEN "Long" ELSE "Short"

\* parse_lba6: a slot that starts with the marker is taken for a long text, and
\* how much of it is here is told by the last byte.
DeptLayouts(image) ==
  LET slot == image[6].dept
  IN IF image[6].what # "Safe6" THEN {}
     ELSE IF Slot(image[6], "dept") = "Short" THEN {"short"}
     ELSE IF slot.marked /\ slot.inline = 60 THEN {"join60"} ELSE {"join59"}

Underlays(image) ==
  IF image[6].what # "Safe6" THEN {}
  ELSE IF image[6].underlay = Absent THEN {"zero-underlay"} ELSE {"legacy-mbr-snapshot"}

\* lba7_profile_candidates, over parse_lba7
Forms7(image, id) ==
  {f \in {2, 3} \X {100, 518} :
     /\ Open7(id, image) /\ Len(image[7].entries) = f[1]
     /\ \A i \in DOMAIN image[7].entries : image[7].entries[i].count = f[1]
     /\ image[7].pass.version = f[2]}

UsbText(onlyid, second) == [main |-> onlyid, second |-> second]

\* The text of the USB identity in one of its forms; the two that hold the
\* number are refused where it is not known.
UsbAs(label, form, onlyid) ==
  CASE form = "current"           -> onlyid # Absent /\ label.usb = UsbText(onlyid, 0)
    [] form = "transitional-2019" -> onlyid # Absent /\ label.usb = UsbText(onlyid, label.host)
    [] OTHER                      -> label.usb = Absent

\* parse_lba8, under a form of the USB text and of the host's word.
Parses8(image, id, onlyid, usb, host) ==
  /\ image[8].what = "Label" /\ image[8].id = id
  /\ host = "current-zero" => image[8].host = 0
  /\ UsbAs(image[8], usb, onlyid)

\* lba8_profile_candidates
Forms8(image, id, onlyid) ==
  {f \in {"current", "transitional-2019", "strict-legacy-absent"}
           \X {"current-zero", "legacy-host-identity"} :
     Parses8(image, id, onlyid, f[1], f[2])}

EmptyNine == [what |-> "Nine", eetu |-> Absent, dept |-> Zero, upper |-> Zero]
Nine(image) == IF image[9] = Zero THEN EmptyNine ELSE image[9]

\* parse_lba9: what lies above is told from LBA6 first, then by its own magic.
Upper(image, id, longUser) ==
  LET upper == Nine(image).upper
  IN IF longUser THEN "long-user"
     ELSE IF upper = Zero THEN "zero"
     ELSE IF upper.what = "Sapf" THEN "sapf"
     ELSE IF upper.what = "Eppe" /\ upper.id = id THEN "eppe"
     ELSE "unknown"

Eetu(image, id) ==
  CASE Nine(image).eetu = Absent -> "absent-zero"
    [] Nine(image).eetu = id     -> "eetu"
    [] OTHER                     -> "unknown"

Known(state) == IF state = "unknown" THEN {} ELSE {state}

\* lba9_view: an overlay is told only beside an LBA6 that parses.
Nines(image, state) ==
  IF image[6].what # "Safe6" \/ Nine(image).what # "Nine" THEN {} ELSE Known(state)

\* selected_capacity
Capacity(total, form) == IF form = "disk-size" THEN total ELSE (total \div Chs) * Chs

\* parse_lba10
Parses10(image, id) == image[10].what = "Eesi" /\ image[10].id = id

\* detect_lba10_eesi
Eesi(image, id) ==
  CASE image[10] = Zero    -> {"absent-zero"}
    [] Parses10(image, id) -> {"eesi-enabled"}
    [] OTHER               -> {}

\* parse_lba11, under a form of the capacity
Parses11(image, total, form) ==
  image[11].what = "Pdkb" /\ image[11].usb = Usb /\ image[11].capacity = Capacity(total, form)

\* lba11_profile_candidates
Forms11(image, total) == {f \in {"disk-size", "repair-chs"} : Parses11(image, total, f)}

Wraps == [i \in 0..3 |-> <<"legacy-v0064", "mode1", "mode2", "mode3">>[i + 1]]

\* parse_lba12, under a way to wrap the keys
Parses12(image, id, wrap) ==
  /\ Open12(id, image) /\ image[12].entries[1].count = Len(image[12].entries)
  /\ \A i \in DOMAIN image[12].entries :
       /\ image[12].entries[i].count = Len(image[12].entries)
       /\ image[12].entries[i].need => image[12].wrap[i] = wrap

\* lba12_profile_candidates
Forms12(image, id) == {Wraps[w] : w \in {v \in DOMAIN Wraps : Parses12(image, id, v)}}

\* A mutant: of the sources there have been, today's is claimed.
ProvenanceGuessed(image, states) ==
  IF image[4].what = "Tag" THEN states \intersect {"post-xor", "current-main-onlyid", "current-zero"} ELSE {}

\* Where a sector came from is never proved by its bytes.
Provenance(image, states) == IF image[4].what = "Tag" THEN states ELSE {}

\* What is in front of the registration: the visible table, a GPT, the
\* manufacturer's sector.
FrontStates(image) ==
  [bootstrap   |-> IF image[0].what = "Mbr" THEN {image[0].bootstrap} ELSE {},
   overlay     |-> IF image[0].what = "Mbr" THEN {image[0].overlay} ELSE {},
   gpt         |-> IF image[1] = Zero /\ image[2] = Zero THEN {"absent"}
                   ELSE IF image[1].what = "Gpt" THEN {"enabled"}
                   ELSE {},
   lba3        |-> IF image[3] = Zero THEN {"zero"} ELSE {image[3].what}]

ProvenanceStates(image) ==
  [encoding    |-> Provenance(image, {"post-xor", "ordinary-rolling"}),
   secondKey   |-> Provenance(image, {"current-main-onlyid", "legacy-guid-crc"}),
   hserial     |-> Provenance(image, {"current-zero", "legacy-caller-vector"}),
   host        |-> Provenance(image, {"current-zero", "legacy-host-identity"})]

\* detect_profile_axes: one state is a proof, several are candidates, none is
\* unknown.
AxisStates(image, id, total) ==
  FrontStates(image) @@ ProvenanceStates(image) @@
  [dept        |-> DeptLayouts(image),
   underlay    |-> Underlays(image),
   entryCount  |-> {f[1] : f \in Forms7(image, id)},
   passVersion |-> {f[2] : f \in Forms7(image, id)},
   usb         |-> {f[1] : f \in Forms8(image, id, LabelId(image))},
   eetu        |-> Nines(image, Eetu(image, id)),
   upper       |-> Nines(image, Upper(image, id, Slot(image[6], "user") = "Long")),
   eesi        |-> Eesi(image, id),
   capacity    |-> Forms11(image, total),
   wrap        |-> Forms12(image, id)]
-----------------------------------------------------------------------------
(***************************************************************************)
(* The owner, as the disk list and the tool's own validation read him.     *)
(***************************************************************************)
\* parse_elabel: split at the separator, the marker stripped.
Shown(text) == IF text.odd = Absent THEN text ELSE [text EXCEPT !.odd = "Cut"]

\* ownership_from_lba8
Ownership(image, id) ==
  IF Forms8(image, id, LabelId(image)) = {} THEN Absent
  ELSE [dept |-> Shown(image[8].dept), user |-> Shown(image[8].user),
        label |-> Shown(image[8].label)]

\* pdkb_device_id
PdkbId(image, total) == IF Forms11(image, total) = {} THEN Absent ELSE image[11].id

\* lba7_partitions, lba12_partitions: the entries of a table that parses.
Parts(entries) ==
  [i \in DOMAIN entries |-> [type |-> entries[i].type, need |-> entries[i].need,
                             start |-> entries[i].start, size |-> entries[i].size]]

Parts7(image, id)  == IF Cardinality(Forms7(image, id)) = 1 THEN Parts(image[7].entries) ELSE <<>>
Parts12(image, id) == IF Forms12(image, id) # {} THEN Parts(image[12].entries) ELSE <<>>

\* metainfo.rs, summarize: what the tool tells of a registration; base is the
\* evidence it has, whose number stands in for a label that shows none.
Summary(base, image, total) ==
  [onlyid     |-> IF LabelId(image) # Absent THEN LabelId(image) ELSE base.onlyid,
   owner      |-> Ownership(image, base.id),
   pdkb       |-> PdkbId(image, total),
   partitions |-> Parts7(image, base.id) \o Parts12(image, base.id)]
-----------------------------------------------------------------------------
(***************************************************************************)
(* What the inspector tells of each sector (inspect/lba_early.rs,          *)
(* lba_middle.rs, lba_late.rs).  A sector it cannot read under what it      *)
(* knows of the disk, an identity or Absent and a number or Absent, is      *)
(* shown raw, with the reason: it is invalid, in more than one form, or     *)
(* lacks a context.                                                        *)
(***************************************************************************)
Shows(fields)  == [state |-> "Parsed", fields |-> fields]
RawOnly(reason)    == [state |-> reason, fields |-> Absent]
IfKnown(id, view) == IF id = Absent THEN RawOnly("MissingContext") ELSE view

\* parse_lba0 asks for the signature only, which a volume's sector has too.
View0(image) ==
  CASE image[0].what = "Mbr"    -> Shows([bootstrap |-> image[0].bootstrap, overlay |-> image[0].overlay,
                                          table |-> image[0].parts])
    [] image[0].what = "Volume" -> Shows([bootstrap |-> "unknown", overlay |-> "unknown", table |-> <<>>])
    [] OTHER                    -> RawOnly("Invalid")

View1(image) ==
  CASE image[1] = Zero        -> Shows("absent")
    [] image[1].what = "Gpt"  -> Shows("enabled")
    [] OTHER                  -> RawOnly("Invalid")

\* The entries are told beside a header that is understood.
View2(image) ==
  CASE View1(image) = Shows("enabled") -> Shows(image[2].what)
    [] View1(image) = Shows("absent")  -> IF image[2] = Zero THEN Shows("Zero") ELSE RawOnly("Invalid")
    [] OTHER                           -> RawOnly("MissingContext")

View3(image) == Shows(IF image[3] = Zero THEN "zero" ELSE image[3].what)

View4(image) ==
  IF image[4].what # "Tag" THEN RawOnly("Invalid")
  ELSE Shows([onlyid |-> image[4].onlyid, secondKey |-> image[4].secondKey,
              hserial |-> image[4].hserial, host |-> image[4].host])

\* Whose the sector is, is checked if it is known whose it should be.
SealShown(image, id) ==
  CASE id = Absent      -> "unchecked"
    [] image[6].id = id -> "matches"
    [] OTHER            -> "differs"

\* How much of the dept is here, and the table an older tool left beneath.
View6(image, id) ==
  IF image[6].what # "Safe6" THEN RawOnly("Invalid")
  ELSE Shows([dept |-> DeptLayouts(image), seal |-> SealShown(image, id), underlay |-> image[6].underlay])

\* edpf64_fields and edpf96_fields; pass_info_fields
FirstTableShown(table)  == Parts(table.entries)
SecondTableShown(table) ==
  [i \in DOMAIN table.entries |-> [part |-> Parts(table.entries)[i], wrap |-> table.wrap[i]]]
PassShown(table) == table.pass

View7(image, id) ==
  IfKnown(id,
    IF Cardinality(Forms7(image, id)) # 1 THEN RawOnly("Ambiguous")
    ELSE Shows([mode |-> ModeOfTypes(Types(image[7].entries)), table |-> FirstTableShown(image[7]),
                pass |-> PassShown(image[7])]))

\* elabel_field
TextsShown(label) == [dept |-> Shown(label.dept), user |-> Shown(label.user), label |-> Shown(label.label)]

View8(image, id, onlyid) ==
  IfKnown(id,
    IF Forms8(image, id, onlyid) = {} THEN RawOnly("Ambiguous")
    ELSE Shows([texts |-> TextsShown(image[8]), host |-> image[8].host,
                forms |-> Forms8(image, id, onlyid)]))

UpperShown(image, id) == Upper(image, id, Slot(image[6], "user") = "Long")

\* What lies in LBA9 is told from LBA6.
View9(image, id) ==
  IfKnown(id,
    IF image[6].what # "Safe6" THEN RawOnly("MissingContext")
    ELSE Shows([dept |-> Nine(image).dept, eetu |-> Eetu(image, id), upper |-> UpperShown(image, id)]))

\* An empty sector is one under any identity.
View10(image, id) ==
  IF image[10] = Zero THEN Shows("absent-zero")
  ELSE IfKnown(id, IF Parses10(image, id) THEN Shows("eesi-enabled") ELSE RawOnly("Invalid"))

View11(image, size) ==
  CASE size = Absent              -> RawOnly("MissingContext")
    [] Forms11(image, size) = {}  -> RawOnly("Ambiguous")
    [] OTHER                      -> Shows([id |-> image[11].id, capacity |-> image[11].capacity])

View12(image, id) ==
  IfKnown(id,
    IF Forms12(image, id) = {} THEN RawOnly("Ambiguous")
    ELSE Shows([table |-> SecondTableShown(image[12]), pass |-> PassShown(image[12]),
                modes |-> Forms12(image, id)]))

\* analyze_sector_with_context; LBA5 is a scratch area nothing is read from.
SectorView(lba, image, id, onlyid, size) ==
  CASE lba = 0  -> View0(image)
    [] lba = 1  -> View1(image)
    [] lba = 2  -> View2(image)
    [] lba = 3  -> View3(image)
    [] lba = 4  -> View4(image)
    [] lba = 5  -> Shows("scratch")
    [] lba = 6  -> View6(image, id)
    [] lba = 7  -> View7(image, id)
    [] lba = 8  -> View8(image, id, onlyid)
    [] lba = 9  -> View9(image, id)
    [] lba = 10 -> View10(image, id)
    [] lba = 11 -> View11(image, size)
    [] lba = 12 -> View12(image, id)
-----------------------------------------------------------------------------
(***************************************************************************)
(* OfficialProvisionValidator: an image read again before it is written,   *)
(* each sector against an expectation of the validator's own.              *)
(***************************************************************************)
ReservedZero(image) == \A lba \in {1, 2, 3, 5, 10} : image[lba] = Zero

TagValid(spec, image) ==
  /\ image[4].what = "Tag" /\ LabelId(image) = spec.onlyid
  /\ image[4].secondKey = spec.onlyid /\ image[4].hserial = 0 /\ image[4].host = HostWord

\* expected_lba6_lba9: a text that does not fit is marked, cut and continued.
TextsValid(spec, image) ==
  /\ image[6] = [what |-> "Safe6", id |-> WriteId, underlay |-> Absent,
                 dept |-> InSlot(spec.dept, DeptSlot, DeptSlot.inline),
                 user |-> InSlot(spec.user, UserSlot, UserSlot.inline)]
  /\ image[9] = BuildLba9(spec, DeptSlot.inline)

LabelValid(spec, image) ==
  /\ image[8] = [what |-> "Label", id |-> WriteId, host |-> HostWord, usb |-> Absent,
                 dept |-> spec.dept, user |-> spec.user, label |-> spec.label]
  /\ Ownership(image, WriteId) = [dept |-> spec.dept, user |-> spec.user, label |-> spec.label]

\* validate_lba11
InventoryValid(image, total) == PdkbId(image, total) = WriteId

MbrValid(spec, image) == image[0] = Mbr(<<Visible(spec.parts[1])>>)

\* validate_official_entry; key is the one for its table.
EntryValid(spec, i, entry, at) ==
  LET type == PartitionTypes[spec.mode][i]
  IN /\ entry.count = Len(spec.parts) /\ entry.type = type /\ entry.need = NeedEncrypt(type)
     /\ entry.start = at.start /\ entry.size = at.count
     /\ entry.key = IF NeedEncrypt(type) THEN spec.keys[i] ELSE Absent

FirstTableValid(spec, image, lce) ==
  /\ Open7(WriteId, image) /\ DOMAIN image[7].entries = DOMAIN spec.parts
  /\ \A i \in DOMAIN spec.parts :
       EntryValid(spec, i, image[7].entries[i], IF i = 1 THEN spec.parts[1] ELSE lce)
  /\ image[7].pass = [version |-> 100, policy |-> spec.policy]

SecondTableValid(spec, image) ==
  /\ Open12(WriteId, image) /\ DOMAIN image[12].entries = DOMAIN spec.parts
  /\ \A i \in DOMAIN spec.parts :
       /\ EntryValid(spec, i, image[12].entries[i], spec.parts[i])
       /\ image[12].wrap[i] = IF NeedEncrypt(PartitionTypes[spec.mode][i]) THEN 2 ELSE 0
  /\ image[12].pass = [version |-> 518, policy |-> spec.policy]

\* A mutant: the owner is not read again.
ValidatedWithoutOwner(spec, image, total, lce) ==
  /\ TagValid(spec, image) /\ FirstTableValid(spec, image, lce) /\ SecondTableValid(spec, image)

\* OfficialProvisionValidator::validate; a layout past the end is refused too.
Validated(spec, image, total, lce) ==
  /\ ReservedZero(image) /\ TagValid(spec, image) /\ TextsValid(spec, image)
  /\ LabelValid(spec, image) /\ InventoryValid(image, total)
  /\ LET end == spec.parts[Len(spec.parts)] IN end.start + end.count <= total
  /\ MbrValid(spec, image)
  /\ FirstTableValid(spec, image, lce) /\ SecondTableValid(spec, image)
-----------------------------------------------------------------------------
(***************************************************************************)
(* The whole image under a profile: each sector in the profile's form, and  *)
(* the sectors in agreement.                                               *)
(***************************************************************************)
\* parse_lba4's claims
Lba4Claims(tag, profile) ==
  /\ profile.secondKey = "current-main-onlyid" => tag.secondKey = tag.onlyid
  /\ profile.hserial = "current-zero" => tag.hserial = 0
  /\ profile.host = "current-zero" => tag.host = 0

SectorsInForm(image, id, total, profile) ==
  LET states == AxisStates(image, id, total)
  IN /\ image[4].what = "Tag" /\ Lba4Claims(image[4], profile)
     /\ <<profile.entryCount, profile.passVersion>> \in Forms7(image, id)
     /\ <<profile.usb, profile.host>> \in Forms8(image, id, LabelId(image))
     /\ \A axis \in {"bootstrap", "overlay", "gpt", "lba3", "dept", "underlay", "eetu",
                     "eesi", "capacity", "wrap"} :
          profile[axis] \in states[axis]
     /\ Upper(image, id, profile.upper = "long-user") = profile.upper

\* reconstruct_dept, reconstruct_user
Joined(slot, long, rest) ==
  IF ~ long THEN slot.text
  ELSE IF slot.marked /\ rest # Zero /\ rest.what = "Rest" /\ rest.text = slot.text
          /\ rest.from = slot.inline THEN slot.text
  ELSE Absent

DeptText(image) ==
  Joined(image[6].dept, Slot(image[6], "dept") = "Long", Nine(image).dept)

UserText(image) ==
  Joined(image[6].user, Slot(image[6], "user") = "Long", Nine(image).upper)

\* validate_cross_lba
SectorsAgree(image, id) ==
  LET t7  == image[7].entries
      t12 == image[12].entries
      encrypt == {i \in DOMAIN t12 : t12[i].type = "Encrypt"}
  IN /\ image[6].id = id /\ image[11].id = id
     /\ image[4].host = image[8].host
     /\ Types(t7) = Types(t12)
     /\ image[6].underlay # Absent =>
          /\ encrypt # {}
          /\ image[6].underlay = [start |-> t12[Min(encrypt)].start, count |-> t12[Min(encrypt)].size]

\* parse_protocol_image
ParsesAs(image, id, total, profile) ==
  /\ SectorsInForm(image, id, total, profile)
  /\ DeptText(image) # Absent /\ UserText(image) # Absent
  /\ SectorsAgree(image, id)
=============================================================================

----------------------------- MODULE WritePlan -----------------------------
(***************************************************************************)
(* The entry points of the sector executor: what each of them accepts, and *)
(* the two orders (of writing, of mirroring and reading back) it passes to *)
(* execute_sector_transaction_observed.  One call is one step: a request   *)
(* is picked and answered with "Rejected", with "Nothing" (an empty plan   *)
(* succeeds without touching the device) or with the plan to execute.      *)
(***************************************************************************)
EXTENDS Integers, Sequences, FiniteSets

CONSTANTS
  Requests,   \* the calls: records with an "entry" and its arguments
  MaxTotal,   \* u32::MAX, the largest number of sectors a target may have
  MaxU64      \* the largest 64-bit number

MetadataLast == 12      \* METADATA_LAST_LBA
ReserveEnd   == 63      \* the first LBA after the EDP protocol reserve
VendorLba    == 3       \* the manufacturer's sector

\* The arguments of a call, by its entry: sectors and sizes are numbers, a
\* list is a slice of them, a plain plan's owner is known of each sector, and
\* the MBR owns the first one.
Owners == {"Mbr", "EdpMetadataCleanup", "LceCleanup", "Filesystem"}

IsRequest(r) ==
  \/ r.entry = "metadata" /\ r.patch \subseteq Nat
  \/ r.entry = "provision" /\ r.patch \subseteq Nat /\ r.total \in Nat
  \/ /\ r.entry = "plain" /\ r.total \in Nat
     /\ DOMAIN r.owner \subseteq Nat /\ r.owner \in [DOMAIN r.owner -> Owners]
     /\ \A l \in DOMAIN r.owner : r.owner[l] = "Mbr" <=> l = 0
  \/ /\ r.entry = "reinitialize" /\ {r.start, r.sectors, r.total} \subseteq Nat
     /\ r.writes \in Seq(Nat)
  \/ /\ r.entry = "format" /\ {r.start, r.end, r.total} \subseteq Nat
     /\ r.layout \in {"Edp", "Plain"} /\ r.writes \in Seq(Nat)

ASSUME RequestsAssumption ==
  /\ MaxTotal \in Nat /\ MaxU64 \in Nat
  /\ \A r \in Requests : IsRequest(r)

VARIABLES request, answer

vars == <<request, answer>>

Rejected == [kind |-> "Rejected"]
Nothing  == [kind |-> "Nothing"]
Run(order, readback) ==
  [kind |-> "Run", order |-> order, readback |-> readback]

TotalSupported(total) == total > 0 /\ total <= MaxTotal

StrictlyIncreasing(s) == \A i, j \in 1..Len(s) : i < j => s[i] < s[j]

\* The order in which a BTreeMap gives its keys.
Ascending(S) ==
  [i \in 1..Cardinality(S) |->
     CHOOSE l \in S : Cardinality({k \in S : k < l}) = i - 1]
-----------------------------------------------------------------------------
(***************************************************************************)
(* WriteTransactionPlan: a stage for every LBA; the writes go by stage and *)
(* by LBA within a stage, the mirror and the reading back by LBA.          *)
(***************************************************************************)
StageRank == [Data |-> 1, Metadata |-> 2, Commit |-> 3]

InStage(stage, s) == {l \in DOMAIN stage : stage[l] = s}

\* Wrong variant, to test DataThenMetadataThenMbr: the stages are swapped.
OrderedLbasMetadataFirst(stage) ==
  Ascending(InStage(stage, "Metadata")) \o Ascending(InStage(stage, "Data"))
    \o Ascending(InStage(stage, "Commit"))

OrderedLbas(stage) ==
  Ascending(InStage(stage, "Data")) \o Ascending(InStage(stage, "Metadata"))
    \o Ascending(InStage(stage, "Commit"))

\* execute_write_transaction_observed on the inserted sectors.
Planned(stage, total) ==
  IF \E l \in DOMAIN stage : l >= total THEN Rejected
  ELSE IF DOMAIN stage = {} THEN Nothing
  ELSE IF ~TotalSupported(total) THEN Rejected
  ELSE Run(OrderedLbas(stage), Ascending(DOMAIN stage))

MetadataStage(l) ==
  IF l = 0 THEN "Commit" ELSE IF l <= MetadataLast THEN "Metadata" ELSE "Data"

\* atomic_write_sectors: a patch of LBA0..12.
MetadataPlan(r) ==
  IF \E l \in r.patch : l > MetadataLast THEN Rejected
  ELSE Planned([l \in r.patch |-> MetadataStage(l)], MetadataLast + 1)

\* atomic_write_official_provision_sectors: all of LBA0..12 and some data.
ProvisionPlan(r) ==
  IF \/ ~TotalSupported(r.total)
     \/ ~(0..MetadataLast \subseteq r.patch)
     \/ \E l \in r.patch : l >= r.total
     \/ \A l \in r.patch : l <= MetadataLast
  THEN Rejected
  ELSE Planned([l \in r.patch |-> MetadataStage(l)], r.total)

\* from_plain_provision: the owner of each sector decides its stage.
OwnerStage(owner) ==
  CASE owner = "Mbr" -> "Commit"
    [] owner = "EdpMetadataCleanup" -> "Metadata"
    [] OTHER -> "Data"

PlainPlan(r) ==
  Planned([l \in DOMAIN r.owner |-> OwnerStage(r.owner[l])], r.total)
-----------------------------------------------------------------------------
(***************************************************************************)
(* The borrowed transactions: the caller's own strictly increasing list.   *)
(***************************************************************************)
Within(s, first, end) == \A i \in 1..Len(s) : first <= s[i] /\ s[i] < end

\* Wrong variant, to test ExecutorCanRollBack: the list is not required to
\* be sorted.
ReinitializePlanUnsorted(r) ==
  IF \/ r.start + r.sectors > MaxU64
     \/ ~TotalSupported(r.total)
     \/ r.start < ReserveEnd
     \/ r.sectors = 0
     \/ r.start + r.sectors > r.total
     \/ r.writes = << >>
     \/ ~Within(r.writes, r.start, r.start + r.sectors)
  THEN Rejected
  ELSE Run(r.writes \o <<7, 12>>, <<7, 12>> \o r.writes)

\* execute_borrowed_reinitialize_transaction: the partition's data, then the
\* two key sectors LBA7 and LBA12.
ReinitializePlan(r) ==
  IF \/ r.start + r.sectors > MaxU64
     \/ ~TotalSupported(r.total)
     \/ r.start < ReserveEnd
     \/ r.sectors = 0
     \/ r.start + r.sectors > r.total
     \/ r.writes = << >>
     \/ ~Within(r.writes, r.start, r.start + r.sectors)
     \/ ~StrictlyIncreasing(r.writes)
  THEN Rejected
  ELSE Run(r.writes \o <<7, 12>>, <<7, 12>> \o r.writes)

FirstFormatLba(layout) == IF layout = "Edp" THEN ReserveEnd ELSE 1

\* Wrong variant, to test ScopeRespected: a partition that begins at the
\* manufacturer's sector passes its check.
FormatPlanOffByOne(r) ==
  IF \/ ~TotalSupported(r.total)
     \/ r.start < FirstFormatLba(r.layout)
     \/ r.start >= r.end
     \/ r.end > r.total
     \/ r.layout = "Plain" /\ r.start < VendorLba /\ r.end > VendorLba
     \/ ~Within(r.writes, r.start, r.end)
     \/ ~StrictlyIncreasing(r.writes)
  THEN Rejected
  ELSE IF r.writes = << >> THEN Nothing
  ELSE Run(r.writes, r.writes)

\* execute_borrowed_data_transaction_scoped_observed: one partition's file
\* system, in the partition's bounds.
FormatPlan(r) ==
  IF \/ ~TotalSupported(r.total)
     \/ r.start < FirstFormatLba(r.layout)
     \/ r.start >= r.end
     \/ r.end > r.total
     \/ r.layout = "Plain" /\ r.start <= VendorLba /\ r.end > VendorLba
     \/ ~Within(r.writes, r.start, r.end)
     \/ ~StrictlyIncreasing(r.writes)
  THEN Rejected
  ELSE IF r.writes = << >> THEN Nothing
  ELSE Run(r.writes, r.writes)
-----------------------------------------------------------------------------
Init == request \in Requests /\ answer = [kind |-> "Pending"]

Answer(entry, plan) ==
  /\ answer.kind = "Pending"
  /\ request.entry = entry
  /\ answer' = plan
  /\ UNCHANGED request

WriteMetadata  == Answer("metadata", MetadataPlan(request))
WriteProvision == Answer("provision", ProvisionPlan(request))
WritePlain     == Answer("plain", PlainPlan(request))
Reinitialize   == Answer("reinitialize", ReinitializePlan(request))
Format         == Answer("format", FormatPlan(request))

Next == WriteMetadata \/ WriteProvision \/ WritePlain \/ Reinitialize \/ Format

Spec == Init /\ [][Next]_vars
-----------------------------------------------------------------------------
Written(a)  == {a.order[i] : i \in 1..Len(a.order)}
ReadBack(a) == {a.readback[i] : i \in 1..Len(a.readback)}

\* The stage a sector belongs to: of a plain plan its owner's, and a format
\* writes one partition's data, wherever the partition lies.
Stage(r, l) ==
  CASE r.entry = "plain"  -> OwnerStage(r.owner[l])
    [] r.entry = "format" -> "Data"
    [] OTHER              -> MetadataStage(l)

TargetEnd(r) == IF r.entry = "metadata" THEN MetadataLast + 1 ELSE r.total

\* IsPlan of SectorTransaction: both orders name the same sectors once each,
\* the readback order is sorted, and all of them lie on the target.
CanBeRolledBack(r, a) ==
  /\ a.readback # << >>
  /\ StrictlyIncreasing(a.readback)
  /\ Written(a) = ReadBack(a)
  /\ \A i, j \in 1..Len(a.order) : a.order[i] = a.order[j] => i = j
  /\ \A l \in Written(a) : l < TargetEnd(r)

\* The order goes by stages: the protocol comes after the data it describes,
\* and the MBR is the order's last sector.
DataThenMetadataThenMbr(r, a) ==
  /\ \A i, j \in 1..Len(a.order) :
       i < j => StageRank[Stage(r, a.order[i])] <= StageRank[Stage(r, a.order[j])]
  /\ \A i \in 1..Len(a.order) : a.order[i] = 0 => i = Len(a.order)

(***************************************************************************)
(* What the executor relies on and does not check again, for every plan:   *)
(* the two orders agree and the readback order is sorted, or the mirror's  *)
(* binary search would miss a sector exactly when a rollback needs it; and *)
(* no sector is written after the MBR, none of the protocol before data.   *)
(***************************************************************************)
ExecutorCanRollBack ==
  answer.kind = "Run" =>
    CanBeRolledBack(request, answer) /\ DataThenMetadataThenMbr(request, answer)

WithinScope(r, a) ==
  /\ r.entry = "format" =>
       /\ Written(a) \subseteq r.start .. r.end - 1
       /\ 0 \notin Written(a) /\ VendorLba \notin Written(a)
       /\ r.layout = "Edp" => Written(a) \cap 0..62 = {}
  /\ r.entry = "reinitialize" =>
       /\ Written(a) \cap 0..62 = {7, 12}
       /\ \A l \in Written(a) \ {7, 12} : l >= r.start /\ l - r.start < r.sectors

(***************************************************************************)
(* A formatting transaction stays in its partition: it reaches neither the *)
(* EDP reserve (LBA0..62), nor the MBR, nor the manufacturer's LBA3, and   *)
(* the key rebuilding adds LBA7 and LBA12 to its partition, nothing else.  *)
(***************************************************************************)
ScopeRespected == answer.kind = "Run" => WithinScope(request, answer)
=============================================================================

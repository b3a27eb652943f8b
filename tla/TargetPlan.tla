----------------------------- MODULE TargetPlan -----------------------------
(***************************************************************************)
(* Planning an EDP disk (application/provision/prepare.rs): what becomes   *)
(* of each partition the disk has, which key it gets, what is written; and *)
(* the executor's entry points (WritePlan), through which it is written.   *)
(*                                                                         *)
(* A request of entry "target" has                                         *)
(*   old      the disk's registered partitions by role, each an extent     *)
(*            with its file system fs, the passwords pw of its LBA12 and   *)
(*            legacy of its LBA7 record, and the way wrap its key is       *)
(*            wrapped; empty for an ordinary disk                          *)
(*   extents  an ordinary disk's partitions                                *)
(*   mode, edits, lce (the LCE's first LBA), total                         *)
(*   format   the fields to format, and fs, the file system they get       *)
(*   source, target  the passwords entered, by key domain, or None         *)
(* A partition of the plan carries its disposition, what is done with its  *)
(* password, its key record, and the key its new contents are under.       *)
(***************************************************************************)
EXTENDS WritePlan, ProvisionLayout, FiniteSetsExt

CONSTANTS
  LceSectors,  \* the size of the LBA7 compatibility extent
  Targets      \* the requests of entry "target"

VARIABLES
  prepared,  \* the kind of the outcome, and the partitions of the plan
  left       \* the slots still to be formatted

targetVars == <<vars, prepared, left>>

\* A disk the program accepts and a geometry the form lets through.
IsTarget(r) ==
  /\ r.entry = "target" /\ r.mode \in DOMAIN Roles
  /\ r.total \in 1..MaxTotal /\ r.lce \in Nat
  /\ IsSource(r.old) /\ IsGeometry(r.edits)

ASSUME TargetsAssumption ==
  /\ First = ReserveEnd
  /\ LceSectors \in Nat \ {0}
  /\ \A r \in Targets : IsTarget(r)

PasswordOf(passwords, role) == IF Domain(role) = None THEN None ELSE passwords[Domain(role)]

\* source_password_knowledge, as the password that was verified: the default
\* one, the one entered, or none.
VerifiedPassword(r, role) ==
  IF Domain(role) = None THEN None
  ELSE IF r.old[role].pw \in {"Default", PasswordOf(r.source, role)} THEN r.old[role].pw
  ELSE None

\* inspect_source_profile: an encrypted partition's file system shows only
\* with its key, and only the SM4 profile is read.
SeenFs(r, role) ==
  LET p == r.old[role]
  IN IF Encrypted(role) /\ (VerifiedPassword(r, role) = None \/ p.wrap # "Sm4")
     THEN None ELSE p.fs

Chosen(r, role) == role # "CompatibilityReserve" /\ Field(role) \in r.format

\* draft_partitions, resolve_target_filesystems
TargetFs(r, role) ==
  IF Chosen(r, role) THEN r.fs
  ELSE IF role \in DOMAIN r.old THEN SeenFs(r, role)
  ELSE IF role = "Boot" THEN "Fat16"
  ELSE IF role = "CompatibilityReserve" THEN None
  ELSE "ExFat"
-----------------------------------------------------------------------------
(***************************************************************************)
(* TargetProvisionPlan::build_with_plain_extents                           *)
(***************************************************************************)

\* Wrong variant, to test DataOpensAsAsked: moved or resized counts as kept.
SamePlaceOrSize(r, role, extent) ==
  /\ role # "CompatibilityReserve"
  /\ r.old[role].start = extent.start \/ r.old[role].count = extent.count
  /\ Domain(role) # None => r.old[role].wrap = "Sm4"

\* What preserve_compatibility and opaque_preserve_compatibility share; the
\* type and the physical encryption follow from the role.
Compatible(r, role, extent) ==
  /\ role # "CompatibilityReserve"
  /\ r.old[role].start = extent.start
  /\ r.old[role].count = extent.count
  /\ Domain(role) # None => r.old[role].wrap = "Sm4"

SameFs(r, role) == SeenFs(r, role) # None /\ TargetFs(r, role) = SeenFs(r, role)
MayBeSameFs(r, role) == None \in {SeenFs(r, role), TargetFs(r, role)} \/ SameFs(r, role)

\* Compatible in every respect, or opaque to whoever does not know the password.
Kept(r, role, extent) ==
  /\ role \in DOMAIN r.old
  /\ Compatible(r, role, extent)
  /\ \/ SameFs(r, role)
     \/ Domain(role) # None /\ VerifiedPassword(r, role) = None /\ MayBeSameFs(r, role)

\* plain_extent_preserve_candidate
KeptPlain(r, role, extent) ==
  /\ DOMAIN r.old = {} /\ role = "Boot"
  /\ [start |-> extent.start, count |-> extent.count, fs |-> TargetFs(r, role)] \in r.extents

\* The region's disposition and the password's.
Disposition(r, role, extent) ==
  LET asked == PasswordOf(r.target, role)
      known == VerifiedPassword(r, role)
  IN IF Kept(r, role, extent) THEN
       IF Domain(role) = None THEN <<"PreserveVerified", None>>
       ELSE IF known = None THEN <<"PreserveOpaque", IF asked = None THEN "Passthrough" ELSE "Blocked">>
       ELSE IF asked \in {None, known} THEN <<"PreserveVerified", "Passthrough">>
       ELSE <<"RewrapVerified", "Rewrap">>
     ELSE <<IF KeptPlain(r, role, extent) THEN "PreserveVerified" ELSE "Rebuild",
            IF Domain(role) = None THEN None ELSE "Blocked">>

Preserves(disposition) == disposition # "Rebuild"

\* force_rebuild_for_format
Rebuilt(r, role) == <<"Rebuild", IF Domain(role) = None THEN None ELSE "Rebuild">>
-----------------------------------------------------------------------------
(***************************************************************************)
(* The key records, by disposition.                                        *)
(***************************************************************************)
KeyRecord(key, pw, legacy) == [key |-> key, pw |-> pw, legacy |-> legacy]

NoRecord == KeyRecord(<<"none">>, None, None)

\* A kept record is passed through, a rewrapped one holds the old key under
\* the new password, a rebuilt one a new key.
Material(r, role, disposition) ==
  LET asked == PasswordOf(r.target, role)
  IN IF Domain(role) = None THEN NoRecord
     ELSE IF disposition \in {"PreserveOpaque", "PreserveVerified"} THEN
            KeyRecord(<<"old", role>>, r.old[role].pw, r.old[role].legacy)
     ELSE IF disposition = "RewrapVerified" THEN KeyRecord(<<"old", role>>, asked, asked)
     ELSE KeyRecord(<<"new", role>>, asked, asked)

\* Rewrapping needs both old records to open with the verified password.
NoMaterial(r, p) ==
  /\ Domain(p.role) # None
  /\ \/ p.disposition = "Rebuild" /\ PasswordOf(r.target, p.role) = None
     \/ p.disposition = "RewrapVerified" /\ r.old[p.role].legacy # VerifiedPassword(r, p.role)

Planning(r, role, extent) ==
  LET d == IF Chosen(r, role) THEN Rebuilt(r, role) ELSE Disposition(r, role, extent)
  IN [role |-> role, start |-> extent.start, count |-> extent.count,
      disposition |-> d[1], password |-> d[2],
      formatted |-> Chosen(r, role), material |-> Material(r, role, d[1])]

\* Wrong variant, to test DataOpensAsAsked: a rebuilt partition need not
\* be formatted.
BlockedOnly(r, p) == p.password = "Blocked"

\* prepare_target_provision: a partition must be kept or formatted.
NeedsFormat(r, p) ==
  \/ p.password = "Blocked"
  \/ /\ p.disposition = "Rebuild" /\ ~ Chosen(r, p.role)
     /\ p.role # "CompatibilityReserve"

\* build_official_provision_protocol_image
ImageFits(r, parts) ==
  /\ r.lce + LceSectors <= r.total
  /\ \A i \in DOMAIN parts :
       /\ End(parts[i]) <= r.total
       /\ Disjoint(parts[i], [start |-> r.lce, count |-> LceSectors])

Patch(r) == (0..MetadataLast) \union (r.lce .. r.lce + LceSectors - 1)

\* plan_format_targets_with_keys: every field to format must be in the mode.
FormatsExist(r) == \A f \in r.format : \E i \in DOMAIN Roles[r.mode] :
  Field(Roles[r.mode][i]) = f /\ Roles[r.mode][i] # "CompatibilityReserve"

Sectors(p) == p.start .. End(p) - 1

\* validate_key_disposition_plan, validate_target_write_set
Consistent(r, parts) ==
  \A i \in DOMAIN parts :
    LET p == parts[i]
    IN /\ p.password = None <=> Domain(p.role) = None
       /\ p.password # "Blocked"
       /\ p.password = "Rewrap" <=> p.disposition = "RewrapVerified"
       /\ p.password = "Rebuild" => p.disposition = "Rebuild"
       /\ p.password = "Passthrough" =>
            p.disposition = IF VerifiedPassword(r, p.role) = None
                            THEN "PreserveOpaque" ELSE "PreserveVerified"
       /\ Preserves(p.disposition) => ~ p.formatted
       /\ p.disposition = "Rebuild" => p.formatted \/ p.role = "CompatibilityReserve"
       /\ Domain(p.role) # None => p.material # NoRecord
       /\ Preserves(p.disposition) =>
            /\ Sectors(p) \intersect Patch(r) = {}
            /\ \A j \in DOMAIN parts : parts[j].formatted => Disjoint(p, parts[j])

Outcome(kind, parts) == [kind |-> kind, parts |-> parts]

\* The plan, or that there is none.
Prepare(r) ==
  LET layout == Prefill(r.old, r.mode, r.lce)
      slots  == Slots(r.mode, Overridden(layout, r.old, r.mode, r.edits))
      parts  == [i \in DOMAIN slots |-> Planning(r, Roles[r.mode][i], slots[i])]
  IN IF \/ ~ Valid(Slots(r.mode, layout), r.lce) \/ ~ Valid(slots, r.lce)
        \/ \E i \in DOMAIN parts : NeedsFormat(r, parts[i]) \/ NoMaterial(r, parts[i])
        \/ ~ FormatsExist(r) \/ ~ ImageFits(r, slots)
     THEN Outcome("Refused", << >>)
     ELSE Outcome(IF Consistent(r, parts) THEN "Ready" ELSE "Inconsistent", parts)
-----------------------------------------------------------------------------
Ready == prepared.kind = "Ready"

TargetInit ==
  /\ request \in Requests \/ request \in Targets
  /\ answer = [kind |-> "Pending"]
  /\ prepared = Outcome("Pending", << >>)
  /\ left = {}

PrepareTarget ==
  /\ request.entry = "target" /\ prepared.kind = "Pending"
  /\ prepared' = Prepare(request)
  /\ UNCHANGED <<request, answer, left>>

\* The protocol sectors and the LCE are written first.
CommitTarget ==
  /\ Ready /\ answer.kind = "Pending"
  /\ answer' = ProvisionPlan([patch |-> Patch(request), total |-> request.total])
  /\ left' = {i \in DOMAIN prepared.parts : prepared.parts[i].formatted}
  /\ UNCHANGED <<request, prepared>>

\* Then one partition after the other is formatted.
FormatTarget ==
  /\ answer.kind = "Run" /\ left # {}
  /\ LET p == prepared.parts[Min(left)]
     IN answer' = FormatPlan([layout |-> "Edp", start |-> p.start, end |-> End(p),
                              total |-> request.total,
                              writes |-> [i \in 1..p.count |-> p.start + i - 1]])
  /\ left' = left \ {Min(left)}
  /\ UNCHANGED <<request, prepared>>

TargetNext ==
  \/ Next /\ UNCHANGED <<prepared, left>>
  \/ PrepareTarget \/ CommitTarget \/ FormatTarget

TargetSpec == TargetInit /\ [][TargetNext]_targetVars
-----------------------------------------------------------------------------
\* The key that p's contents are under once the plan is carried out.
ContentsKey(r, p) ==
  IF p.formatted THEN <<"new", p.role>>
  ELSE LET there == {q \in DOMAIN r.old :
                       /\ Encrypted(q)
                       /\ r.old[q].start = p.start /\ r.old[q].count = p.count}
       IN IF there = {} THEN None ELSE <<"old", CHOOSE q \in there : TRUE>>

OpensAsAsked(r, p) ==
  LET asked == PasswordOf(r.target, p.role)
  IN /\ Encrypted(p.role) => p.material.key = ContentsKey(r, p)
     /\ Domain(p.role) # None =>
          p.material.pw = IF asked # None THEN asked ELSE r.old[p.role].pw

LeftAlone(p, a) == Preserves(p.disposition) => Sectors(p) \intersect Written(a) = {}

(***************************************************************************)
(* Whatever the disk was, however its partitions are moved and whatever    *)
(* passwords are known, asked for or kept: an encrypted partition of an    *)
(* accepted plan has the key its contents are under, never a new key over  *)
(* old ciphertext, and every key opens with the password asked for, or, if *)
(* none was, with the one it had. And the plan is carried out as it        *)
(* stands: no later check (the plan's own validation, the executor's entry *)
(* points) can reject it when the disk is half written, and what it keeps  *)
(* is not among the sectors the commit or any of the formats writes.       *)
(***************************************************************************)
DataOpensAsAsked ==
  /\ prepared.kind # "Inconsistent"
  /\ Ready =>
       /\ answer.kind \in {"Pending", "Run"}
       /\ \A i \in DOMAIN prepared.parts :
            /\ OpensAsAsked(request, prepared.parts[i])
            /\ answer.kind = "Run" => LeftAlone(prepared.parts[i], answer)
=============================================================================

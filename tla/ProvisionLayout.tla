--------------------------- MODULE ProvisionLayout ---------------------------
(***************************************************************************)
(* Where the partitions of a provisioned disk come to lie: the defaults    *)
(* for a mode (provision/reprovision/prefill.rs), the user's edits         *)
(* (geometry.rs) and the check of the outcome.  A partition is an extent   *)
(* [start, count]; capacities and starts the code refuses as negative or   *)
(* zero come out as a count below 1, which Valid refuses.                  *)
(***************************************************************************)
EXTENDS Integers, Sequences

CONSTANTS
  First,           \* OFFICIAL_PARTITION_START_SECTOR
  DefaultBoot,     \* DEFAULT_MODE0_BOOT_SECTORS
  CompatBoot,      \* WHOLE_DISK_ENCRYPTED_COMPAT_BOOT_BYTES, in sectors
  DefaultEncrypt,  \* the 1024 MiB of a new encrypted partition, in sectors
  MiB,             \* sectors of one MiB
  None

ASSUME SizesArePositive ==
  {First, DefaultBoot, CompatBoot, DefaultEncrypt, MiB} \subseteq Nat \ {0}

ASSUME NoneIsNothing ==
  /\ None \notin {"boot", "share", "encrypt"}                      \* a field
  /\ None \notin {"Passthrough", "Rewrap", "Rebuild", "Blocked"}   \* done to a password
  /\ None \notin Int /\ None \notin [start : Int, count : Int]      \* a number, an extent

\* The roles of each mode's partitions, in slot order.
Roles == [DefaultThreePartition         |-> <<"Boot", "Share", "Encrypt">>,
          BootShareCombined             |-> <<"BootShareCombined", "Encrypt">>,
          WholeDiskEncrypted            |-> <<"CompatibilityReserve", "Encrypt">>,
          IntranetExtranetDualPartition |-> <<"Boot", "Share">>]

\* The field of the form, and of FormatOptions, that a role is entered in.
Field(role) ==
  CASE role \in {"Boot", "CompatibilityReserve"} -> "boot"
    [] role \in {"Share", "BootShareCombined"}   -> "share"
    [] OTHER                                     -> "encrypt"

\* KeyDomainRole::from_partition_role; a key domain has NeedEncrypt set.
Domain(role) ==
  IF role \in {"Boot", "CompatibilityReserve"} THEN None ELSE Field(role)

\* Only these have their sectors encrypted: the combined one is readable.
Encrypted(role) == role \in {"Share", "Encrypt"}

End(extent) == extent.start + extent.count
Disjoint(a, b) == End(a) <= b.start \/ End(b) <= a.start
Or(value, default) == IF value = None THEN default ELSE value

\* The registered partitions of a disk, by role, lie apart from one another.
IsSource(old) ==
  /\ DOMAIN old \subseteq {"Boot", "Share", "Encrypt", "BootShareCombined", "CompatibilityReserve"}
  /\ \A role \in DOMAIN old : old[role].start \in Nat /\ old[role].count \in Nat \ {0}
  /\ \A p, q \in DOMAIN old : p # q => Disjoint(old[p], old[q])

IsGeometry(edits) ==
  LET size == Nat \union {None}
  IN edits \in [boot : size, share : size, encrypt : size,
                bootStart : size, shareStart : size, encryptStart : size]
-----------------------------------------------------------------------------
\* validate_target_geometry, of the extents of a layout.
Valid(parts, usableEnd) ==
  /\ \A i \in DOMAIN parts :
       parts[i].count > 0 /\ parts[i].start >= First /\ End(parts[i]) <= usableEnd
  /\ \A i, j \in DOMAIN parts : i < j => Disjoint(parts[i], parts[j])

\* prefill_for_target_mode: old holds the source's partitions by role.
Prefill(old, mode, usableEnd) ==
  LET was(role)  == IF role \in DOMAIN old THEN old[role] ELSE None
      keepsBoot  == mode \in {"DefaultThreePartition", "IntranetExtranetDualPartition"}
      combined   == mode = "BootShareCombined"
      whole      == mode = "WholeDiskEncrypted"
      dual       == mode = "IntranetExtranetDualPartition"
      oldBoot    == was("Boot")
      boot == [start |-> IF oldBoot # None THEN oldBoot.start ELSE First,
               count |-> IF whole THEN CompatBoot
                         ELSE IF keepsBoot /\ oldBoot # None THEN oldBoot.count
                         ELSE DefaultBoot]
      bootEnd == IF combined THEN First ELSE End(boot)
      \* The old encrypted partition stays where it is, if it can.
      oldEncrypt == was("Encrypt")
      anchored == /\ oldEncrypt # None
                  /\ ~ dual
                  /\ IF whole THEN oldEncrypt.start >= bootEnd ELSE oldEncrypt.start > bootEnd
      encryptCount == IF anchored THEN oldEncrypt.count ELSE DefaultEncrypt
      oldShare == was(IF combined THEN "BootShareCombined" ELSE "Share")
      shareStart == IF oldShare # None THEN oldShare.start ELSE bootEnd
      boundary == CASE anchored -> oldEncrypt.start
                    [] dual -> usableEnd
                    [] OTHER -> usableEnd - encryptCount
      room == boundary - shareStart
      squeezed == /\ mode = "DefaultThreePartition" /\ ~ anchored
                  /\ usableEnd - End(oldShare) < DefaultEncrypt
      shareCount == CASE oldShare = None -> IF DOMAIN old # {} THEN room ELSE (room \div MiB) * MiB
                      [] OTHER -> IF squeezed THEN room ELSE oldShare.count
      encryptStart == IF anchored THEN oldEncrypt.start
                      ELSE IF whole THEN bootEnd
                      ELSE shareStart + shareCount
  IN [boot    |-> IF combined THEN None ELSE boot,
      share   |-> IF whole THEN None ELSE [start |-> shareStart, count |-> shareCount],
      encrypt |-> IF dual THEN None
                  ELSE [start |-> encryptStart,
                        count |-> IF whole /\ ~ anchored THEN usableEnd - encryptStart
                                  ELSE encryptCount]]

\* One field with the user's capacity and start.
Edit(extent, count, start) ==
  IF extent = None THEN None
  ELSE [start |-> Or(start, extent.start), count |-> Or(count, extent.count)]

\* apply_target_geometry_overrides_draft: what the user placed himself, and
\* what the source has, does not follow its predecessor.
Overridden(layout, old, mode, edits) ==
  LET boot    == Edit(layout.boot, edits.boot, edits.bootStart)
      share0  == Edit(layout.share, edits.share, edits.shareStart)
      follows == /\ share0 # None /\ edits.shareStart = None
                 /\ "Share" \notin DOMAIN old /\ mode # "BootShareCombined"
      share   == IF follows THEN [share0 EXCEPT !.start = End(boot)] ELSE share0
      encrypt0 == Edit(layout.encrypt, edits.encrypt, edits.encryptStart)
      trails  == /\ encrypt0 # None /\ edits.encryptStart = None
                 /\ "Encrypt" \notin DOMAIN old
      front   == IF mode = "WholeDiskEncrypted" THEN boot ELSE share
  IN [boot |-> boot, share |-> share,
      encrypt |-> IF trails THEN [encrypt0 EXCEPT !.start = End(front)] ELSE encrypt0]

\* draft_partitions: the mode's partitions in slot order.
Slots(mode, layout) == [i \in DOMAIN Roles[mode] |-> layout[Field(Roles[mode][i])]]
=============================================================================

--------------------------- MODULE MCProvisionForm ---------------------------
(***************************************************************************)
(* What is asked of the planners and of the form: the entry points'        *)
(* requests, the targets of an EDP disk, and the forms shown for it.       *)
(***************************************************************************)
EXTENDS TargetPlan, ProvisionForm

(* Every list of at most two LBAs, and some of three, around the boundaries *)
(* (LBA3, the end of the metadata, the reserve, the end of the target), in  *)
(* any order and with repetitions, under every partition of interest.       *)
Near == {0, 2, 3, 4, 62, 63, 64, 66}
Lists == UNION {[1..n -> Near] : n \in 0..2}
         \union {<<a, b, c>> : a \in {2, 62}, b \in {3, 63}, c \in {4, 64}}

MetadataRequests ==
  {[entry |-> "metadata", patch |-> P] : P \in SUBSET {0, 1, 7, 12, 13}}

ProvisionRequests ==
  {[entry |-> "provision", patch |-> ((0..12) \ M) \union D, total |-> t] :
     M \in {{}, {0}, {3}, {12}}, D \in SUBSET {13, 63, 67}, t \in {0, 13, 64, 68, 121}}

\* The file system of a partition that starts at LBA4 covers the old metadata.
PlainRequests ==
  {[entry |-> "plain", total |-> t,
    owner |-> [l \in S |-> IF l = 0 THEN "Mbr" ELSE IF l <= 12 /\ l < p THEN "EdpMetadataCleanup"
                          ELSE IF l < 66 THEN "Filesystem" ELSE "LceCleanup"]] :
     t \in {0, 64, 68, 121}, S \in SUBSET {0, 1, 4, 12, 63, 67}, p \in {4, 63}}

ReinitializeRequests ==
  {[entry |-> "reinitialize", start |-> s, sectors |-> n, total |-> t,
    writes |-> w] :
     s \in {0, 62, 63, 64, 66}, n \in {0, 2, 4, 190}, t \in {0, 66, 68, 121}, w \in Lists}

FormatRequests ==
  {[entry |-> "format", start |-> s, end |-> e, total |-> t, layout |-> y,
    writes |-> w] :
     s \in {0, 1, 3, 4, 62, 63}, e \in {3, 4, 63, 66, 67}, t \in {66, 121},
     y \in {"Edp", "Plain"}, w \in Lists}

MCRequests == MetadataRequests \union ProvisionRequests \union PlainRequests
              \union ReinitializeRequests \union FormatRequests
-----------------------------------------------------------------------------
(* The planning of an EDP disk of 110 sectors with its LCE at 100: every    *)
(* mode over disks of every mode, whole and part of them, and over ordinary *)
(* disks.                                                                   *)
Extent(s, n) == [start |-> s, count |-> n]

Bare == {
  [Boot |-> Extent(63, 4), Share |-> Extent(67, 13), Encrypt |-> Extent(80, 20)],
  [Boot |-> Extent(63, 6), Share |-> Extent(70, 30)],
  [BootShareCombined |-> Extent(63, 17), Encrypt |-> Extent(82, 10)],
  [CompatibilityReserve |-> Extent(63, 2), Encrypt |-> Extent(65, 35)] }

\* The records of a disk: the passwords of the two domains, one old kind of
\* key, a legacy record of another password, a file system nobody knows.
Dressed(parts, pw, odd) ==
  [role \in DOMAIN parts |->
     [start |-> parts[role].start, count |-> parts[role].count,
      fs |-> IF odd = "Fs" THEN None ELSE IF role = "Boot" THEN "Fat16" ELSE "ExFat",
      pw |-> pw, legacy |-> IF odd = "Legacy" THEN "R" ELSE pw,
      wrap |-> IF odd = "Wrap" THEN "A7f0" ELSE "Sm4"]]

Disks == {Dressed(b, "P", odd) : b \in Bare, odd \in {"", "Fs", "Wrap", "Legacy"}}
         \union {Dressed(b, "Default", "") : b \in Bare}

NoEdits == [boot |-> None, share |-> None, encrypt |-> None,
            bootStart |-> None, shareStart |-> None, encryptStart |-> None]

Edits == {NoEdits, [NoEdits EXCEPT !.encrypt = 10], [NoEdits EXCEPT !.share = 5],
          [NoEdits EXCEPT !.encryptStart = 82],
          [NoEdits EXCEPT !.shareStart = 70, !.share = 10]}

Formats == {{}, {"boot"}, {"encrypt"}, {"share", "encrypt"},
            {"boot", "share", "encrypt"}}

Wishes == {[share |-> None, encrypt |-> None], [share |-> "Q", encrypt |-> None],
           [share |-> "P", encrypt |-> "Q"], [share |-> "Default", encrypt |-> "P"]}

Known(old, extents, pw) ==
  [old |-> old, extents |-> extents, source |-> [share |-> pw, encrypt |-> pw]]

Starts ==
  {Known(d, {}, pw) : d \in Disks, pw \in {None, "P"}}
  \union {Known(<< >>, x, None) : x \in {{}, {[start |-> 63, count |-> 4, fs |-> "Fat16"]}}}

MCTargets ==
  {[entry |-> "target", old |-> s.old, extents |-> s.extents, source |-> s.source,
    mode |-> m, edits |-> e, lce |-> 100, total |-> 110, format |-> f, fs |-> k,
    target |-> w] :
     s \in Starts, m \in DOMAIN Roles, e \in Edits, f \in Formats,
     k \in {"ExFat", "Fat16"}, w \in Wishes}
-----------------------------------------------------------------------------
(* Forms for the same kinds of disk: any mode, up to MaxInputs inputs of    *)
(* any kind between the answers.                                            *)
MCTexts == {Empty, "P", "Q"}
MCLayouts == {NoEdits, [NoEdits EXCEPT !.share = 5]}

FormDisks ==
  {Dressed(b, pw, "") : b \in Bare, pw \in {"P", "Default"}} \union
  {Dressed(b, "P", odd) : b \in {c \in Bare : "Boot" \in DOMAIN c}, odd \in {"Fs", "Wrap", "Legacy"}}

MCForms ==
  {[old |-> x.old, extents |-> x.extents, mode |-> m, edits |-> NoEdits, format |-> {},
    fs |-> "ExFat", lce |-> 100, total |-> 110] :
     m \in DOMAIN Roles,
     x \in {[old |-> d, extents |-> {}] : d \in FormDisks} \union
           {[old |-> << >>, extents |-> {[start |-> 63, count |-> 4, fs |-> "Fat16"]}]}}

\* The forms that turn a combined disk into one of two partitions, and back.
RoleChanges ==
  {f \in MCForms : /\ f.mode \in {"BootShareCombined", "IntranetExtranetDualPartition"}
                   /\ "Encrypt" \notin DOMAIN f.old \/ "Boot" \notin DOMAIN f.old}
=============================================================================

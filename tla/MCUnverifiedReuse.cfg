\* 120 stands for u32::MAX and 255 for u64::MAX.
CONSTANTS
  Requests = {}
  Targets = {}
  MaxTotal = 120
  MaxU64 = 255
  First = 63
  DefaultBoot = 4
  CompatBoot = 2
  DefaultEncrypt = 8
  MiB = 2
  LceSectors = 3
  None = None
  Empty = ""
  Forms <- RoleChanges
  Texts <- MCTexts
  Layouts <- MCLayouts
  MaxInputs = 3
SPECIFICATION FormSpec
INVARIANT RebuildsUseVerifiedPasswords
CHECK_DEADLOCK FALSE

SPECIFICATION MediaFormatsSpec
CONSTANTS
  MaxFat32Clusters = 4194304
  MaxExFatClusters = 4194304
  ImageBudget = 131072
  Disks <- MCDisks
  Keys = {"None", "K"}
  Labels = {"None", "Label", "NoName", "Wide", "Long"}
  MaxFormats = 2
  Absent = Absent
  Fold <- MCFold
  Candidates <- MCCandidates
  Usb = "1:2"
  First = 15
  Chs = 8
  PlainStart = 40
  Totals = {80, 96}
  Lce <- MCLce
  Layouts <- MCLayouts
  Texts <- MCTexts
  OldTexts <- MCOldTexts
  Onlyid = "N"
  MaxChanges = 1
  MaxEbrChain = 4
  ArraySectors = 2
  ProtocolSectors = 4
  FirstPartition = 6
  MirrorOffset = 10
  MirrorSectors = 3
  NodeOffset = 2
  LceSectors <- MCLceSectors
  Track = 8
  Backoff = 9
  Suggested <- MCSuggested
  OrdinaryStart = 8
  Missing = Missing
  MaxUnits = 40
  MaxArtifacts = 8
  MaxCompared = 12
  MaxInspected = 16
  Captured <- MCCaptured
  Copied <- MCCopied
  Edits <- MCEdits
  MaxMeddling = 1
INVARIANTS
  FormattedVolumesReadBack
  RegistrationsReadBack
  LastOwnerRecognised
  ContainersReadBack
  RestoresWhatWasShown
  LayoutsTile
  BackupsShowTheDisk
CHECK_DEADLOCK FALSE

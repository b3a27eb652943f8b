CONSTANTS
  Sectors <- MCSectors
  Content <- MCContent
  Old <- MCOld
  New <- MCNew
  Torn <- MCTorn
  Plans <- MCPlans
  MaxMirror = 3
  Timeout = 2
  Chunk = 2
  PipeCapacity = 2
  OutputLimit = 3
  StderrLimit = 1
  MaxOutput = 3
  Threads = {t1, t2}
  Disks <- MCDisks
  Volumes <- MCVolumes
  Root <- root
  Stacks <- MCStacks
  MaxSkipped = 1
  Nobody = Nobody
  MaxLeases = 2
  MaxMounts = 2
  d1 = d1
  d2 = d2
  v1 = v1
  v2 = v2
  root = root
SPECIFICATION DeviceSpec
PROPERTY ContractSpec
INVARIANT MbrCommitsDurableData
INVARIANT CommandsSettle
PROPERTY CallReturns
PROPERTY GrantedDisksAreIdle
INVARIANT LeasesHold
\* A transaction and a command are one call, and the leases are bounded: they end.
CHECK_DEADLOCK FALSE

SPECIFICATION Spec
CONSTANTS
  None = None
  n1 = n1
  n2 = n2
  d1 = d1
  d2 = d2
  c1 = c1
  c2 = c2
  gA = gA
  Display = Display
  Files = {1, 2, 3, 4}
  Copies = {4}
  Names = {n1, n2}
  Creators = {c1, c2}
  Deleters = {d1, d2}
  Groups = {gA}
  Keeps = {0, 1}
  Group <- MCGroup
  Casts <- MCCasts
  Shelves <- MCShelves
  MaxMeddling = 1
  MaxCrashes = 1
  MaxSessions = 2
INVARIANTS
  NoBackupIsLost
  DisplayShowsWhatTheStampMeans
PROPERTIES
  OnlyConfirmedContentIsRemoved
  FloorHoldsUnlessDisturbed
CHECK_DEADLOCK FALSE

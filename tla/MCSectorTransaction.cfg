\* Batches of two sectors: the run 63-64 is one write, 7 and 0 are single.
CONSTANTS
  Sectors <- MCSectors
  Content <- MCContent
  Old <- MCOld
  New <- MCNew
  Torn <- MCTorn
  Plans <- MCPlans
  MaxBatch = 2
SPECIFICATION FairSpec
PROPERTY ContractSpec
PROPERTY MbrLast
PROPERTY Terminates
\* The transaction is one call: it ends.
CHECK_DEADLOCK FALSE

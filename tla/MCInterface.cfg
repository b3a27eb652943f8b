\* A budget of three events and polls of four messages stand for 256 and 512:
\* what the budget lets through fits one poll, unless the answers of other
\* workers stand before it in the channel.
CONSTANTS
  MaxRequests = 3
  Scripts <- MCScripts
  MaxOps = 2
  PollLimit = 4
  MaxOthers = 2
  Retained = 3
SPECIFICATION InterfaceSpec
PROPERTY ShownWriteIsGuarded
INVARIANT DialogsBelongToOperations
INVARIANT GuardHasAWorker
PROPERTY DeferredExitHappens
INVARIANT AnswersAreFresh
PROPERTY EveryRequestAnswered
INVARIANT NeverBackwards
INVARIANT NothingLostSilently
INVARIANT TerminalLossWaits
PROPERTY OperationEnds
\* The loop ends when the user quits or the terminal fails; after the last
\* request it is at rest.
CHECK_DEADLOCK FALSE

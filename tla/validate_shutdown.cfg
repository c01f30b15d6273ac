SPECIFICATION FairSpec
CONSTANTS
  Handlers = {h1, h2, h3}
  Validator = "subprocess"
  MaxRequests = 3
  SaveFaults = TRUE
  NoHandler = NoHandler
INVARIANTS OneChildAtATime AtMostOneLateStart StoppedRunIsNoVerdict
PROPERTY EveryRequestEnds

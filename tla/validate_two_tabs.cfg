SPECIFICATION Spec
CONSTANTS
  Handlers = {h1, h2}
  Validator = "subprocess"
  MaxRequests = 3
  SaveFaults = FALSE
  NoHandler = NoHandler
INVARIANTS RerunUncompletes

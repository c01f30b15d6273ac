SPECIFICATION Spec
CONSTANTS
  Handlers = {h1}
  Validator = "subprocess"
  MaxRequests = 1
  SaveFaults = FALSE
  NoHandler = NoHandler
INVARIANTS NoOrphan

INIT PartsInit
NEXT PartsNext
CONSTANTS
  GateLessons = 4
  EmptyFiles = TRUE
  SplitSections = TRUE
  HonestNames = FALSE
  Links = TRUE
  Names = {"echo", "echo_list", "unrelated"}
  MatchingNames = {"echo", "echo_list", "module"}
  ModuleName = "module"
  Faults = {"none", "delay", "malformed", "drop", "exit", "hang"}
  OrganicDelay = TRUE
  N = 3
  RequiresLists <- ThreeRequires
  MachinesTried <- SomeMachines
  DropTargets = FALSE
  MaxDepth = 3
  HiddenDepth = FALSE
INVARIANTS
  GateIsReference
  WrongOnlyOutOfSight
  UnlinkedOnlyOutOfSight RedIsAFailedTest
  CheckedReplyIsForItsStep SymptomIsInjected
  NoDeadEnd GreenBuildIsDebuggable
  SameAnswer SameText
PROPERTIES OfferedLessonConfigures
CHECK_DEADLOCK FALSE

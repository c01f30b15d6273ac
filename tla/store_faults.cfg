SPECIFICATION Spec
CONSTANTS
  N = 1
  Blocks = {"vfail", "vpass", "vdemo", "quiz", "explain"}
  Concepts = {}
  Prerequisites <- OneNone
  Verify <- OneVerify
  Mandatory <- OneMandatory
  Historical <- OneHistorical
  Quiz <- OneQuiz
  Explain <- OneExplain
  Hints <- OneHints
  LessonConcepts <- OneNone
  QuestionConcepts = {}
  Availabilities <- OneAvailable
  StepBlocks = {"quiz"}
  MaxAnswers = 0
  DiskFaults = TRUE
INVARIANTS CompleteImpliesGates AckedSurvives
PROPERTIES RevokedOnlyByMandatoryFailure HistoricalPassStands ImplementsPromise

SPECIFICATION DrillSpec
CONSTANTS
  N = 1
  Blocks = {"drill", "learn"}
  Concepts = {}
  Prerequisites <- DrillNone
  Verify <- DrillVerify
  Mandatory <- DrillVerify
  Historical <- DrillNone
  Quiz <- DrillNone
  Explain <- DrillNone
  Hints <- DrillHints
  LessonConcepts <- DrillNone
  QuestionConcepts <- DrillQuestions
  Availabilities <- DrillAvailable
  StepBlocks = {"learn"}
  MaxAnswers = 5
  DiskFaults = TRUE
  DrillBlock = "drill"
  Minimum = 2
  Checkers = {r1, r2}
PROPERTY DrillMeasuredFromOpening

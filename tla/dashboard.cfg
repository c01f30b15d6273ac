SPECIFICATION DashboardSpec
CONSTANTS
  N = 4
  Blocks = {"verify"}
  Concepts = {}
  Prerequisites <- ChainPrerequisites
  Verify <- ChainBlocks
  Mandatory <- ChainBlocks
  Historical <- ChainNone
  Quiz <- ChainNone
  Explain <- ChainNone
  Hints <- ChainHints
  LessonConcepts <- ChainNone
  QuestionConcepts <- ChainQuestions
  Availabilities <- ChainAvailabilities
  StepBlocks = {}
  MaxAnswers = 1
  DiskFaults = FALSE
INVARIANTS GreenNeverLocks UnlockedMeansCompletable ResumeSound
PROPERTIES CompletedOverSoundChain

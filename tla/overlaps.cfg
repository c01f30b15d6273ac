INIT OverlapsInit
NEXT OverlapsNext
CONSTANTS
  ViewLessons = {1, 2}
  HintCount = 1
  MaxLoads = 3
  MaxRuns = 1
  MaxQuestions = 3
  Processes = {p1, p2, p3}
  Answers = {a1, a2, a3}
  TailThreads = TRUE
  MaxCounter = 2
  MaxFaults = 2
  BackupFaults = TRUE
  NoProcess = NoProcess
  CommandLines <- SomeCommandLines
  MaxRequests = 4
  MaxConnections = 3
INVARIANTS
  NewestChoiceShown ShownHintsAreCounted
  AnsweredOnce
  ConfirmedAloneSurvives
  AnswerIsForRequest ExitCountsEveryRequest CommandLineDescribesRun
CHECK_DEADLOCK FALSE

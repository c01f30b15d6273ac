SPECIFICATION LessonViewSpec
CONSTANTS
  ViewLessons = {1, 2}
  HintCount = 2
  MaxLoads = 2
  MaxRuns = 0
INVARIANT PositionIsItsLessons
CHECK_DEADLOCK FALSE

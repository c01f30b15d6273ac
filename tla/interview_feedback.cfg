SPECIFICATION InterviewSpec
CONSTANT MaxQuestions = 3
INVARIANT FeedbackUnderItsQuestion
CHECK_DEADLOCK FALSE

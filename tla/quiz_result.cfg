SPECIFICATION Spec
CONSTANTS
  NumQuestions = 3
  Correct <- MCCorrect
  CorrectReward = 4
  IncorrectPenalty <- MCPenalty
  PartialReward = 2
  RawSelections <- MCSelections
INVARIANTS
  ScoreIsSumOfStatuses
  StatusIsGradeOfLast
  StoredAnswerEarnsStatus

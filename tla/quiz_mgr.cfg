SPECIFICATION Spec
CONSTANTS
  NumQuestions = 3
  Correct <- MCCorrect
  CorrectReward = 4
  IncorrectPenalty <- MCPenalty
  PartialReward = 2
  Lines <- MCLines
  MaxTime = 3
INVARIANT VerdictIsTheRace
INVARIANT AtMostOneLate
INVARIANT MultiBulletRecordsNothing
PROPERTY QuizEnds

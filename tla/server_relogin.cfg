SPECIFICATION Spec
CONSTANTS
  c1 = c1 c2 = c2 ann = ann bob = bob
  Conns = {c1, c2}
  Names = {ann}
  NoName = none
  NoSession = nosession
  NumQuestions = 1
  Correct <- MCCorrect
  CorrectReward = 4
  IncorrectPenalty <- MCPenalty
  PartialReward = 2
  RawSelections <- MCOneSelection
  Mode = "STRICT"
  TimeAllowed = 1
  ReentryOutcomes = {"grant", "throw"}
  HostStartsQuiz = TRUE
  QuizDuration = 9
  AllowRelogin = TRUE
  NumThreads = 2
  Reports <- MCNoReport
  MaxElapsed = 0
  MaxTime = 2
INVARIANTS
  SessionsInjective
  UserExclusive
PROPERTIES
  ImplementsService
  RequestAnswered

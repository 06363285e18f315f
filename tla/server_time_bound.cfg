SPECIFICATION Spec
CONSTANTS
  c1 = c1 c2 = c2 ann = ann bob = bob
  Conns = {c1, c2}
  Names = {ann}
  NoName = none
  NoSession = nosession
  NumQuestions = 1
  Correct <- MCCorrect
  CorrectReward = 4
  IncorrectPenalty <- MCPenalty
  PartialReward = 2
  RawSelections <- MCSelections
  Mode = "TIME_BOUND"
  TimeAllowed = 2
  ReentryOutcomes = {"hang", "throw", "grant"}
  HostStartsQuiz = TRUE
  QuizDuration = 2
  AllowRelogin = FALSE
  NumThreads = 2
  Reports <- MCReports
  MaxElapsed = 2
  MaxTime = 3
SYMMETRY MCSymmetry
INVARIANTS
  SingleCreation
  ConfiguredBeforeUse
  ScoresAreSums
  NamelessIsInert
  ChargedTimeWasOnline
PROPERTIES
  Isolation
  ProgressKept
  ConnectionsAreLinks
CHECK_DEADLOCK FALSE

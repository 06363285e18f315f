CONSTANTS
  Callers = {c1, c2}
  Quizzes = {q1, q2}
  Timers = {t1, t2, t3}
  NoTimer = NoTimer
  Nobody = Nobody
  Calls = {"StartQuiz", "StartIfInactive", "ForceEndQuiz", "ForceEndAll"}
  RelockOutcomes = {"hang", "throw"}
SPECIFICATION Spec
INVARIANTS
  EndedNeverSeen
  ActiveIsTimed
  NoStrayTimer
PROPERTIES
  JoinUnderLockBlocks
  ImplementsGate
  TimersAreOneShots
CHECK_DEADLOCK FALSE

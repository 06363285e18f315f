CONSTANTS
  Callers = {c1}
  Quizzes = {q1}
  Timers = {t1}
  NoTimer = NoTimer
  Nobody = Nobody
  Calls = {"StartIfInactive"}
  RelockOutcomes = {"hang"}
SPECIFICATION Spec
PROPERTIES
  TimeoutSurvived
CHECK_DEADLOCK FALSE

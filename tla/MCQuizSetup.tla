---------------------------- MODULE MCQuizSetup ----------------------------
(* One line of each kind, two where the value decides; rows with one, two   *)
(* or no right options, and one row for each way a row is refused.          *)
EXTENDS QuizSetup, TLC

MCLines ==
  { <<"CorrectScore", 4>>, <<"IncorrectPenalty", -1>>, <<"PartialScore", 3>>,
    <<"QuizMode", "BULLET_TIMER_MODE">>, <<"QuizMode", "STRICT_TIME_BOUND_MODE">>,
    <<"TimeAllowed", 60>>, <<"TimeAllowed", 43201>>, <<"IsSingleUser", FALSE>>,
    <<"IsMultiOptionSelect", TRUE>>, <<"IsMultiOptionSelect", FALSE>>,
    <<"IsKBCMode", TRUE>>, <<"refused", 0>> }

Row(tokens) == [complete |-> TRUE, numbered |-> TRUE, tokens |-> tokens]
MCRows ==
  { Row({0}), Row({1, 3}), Row({}), Row({0, 4}), Row({-1}),
    [Row({0}) EXCEPT !.complete = FALSE], [Row({0}) EXCEPT !.numbered = FALSE] }

MCSymmetry == Permutations(Objs) \cup Permutations(Readers)
=============================================================================

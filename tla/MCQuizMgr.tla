----------------------------- MODULE MCQuizMgr -----------------------------
(* Constants for QuizMgr: three questions, one of them with two correct     *)
(* options, and lines that are refused, right, wrong, partly right and too  *)
(* long.                                                                    *)
EXTENDS QuizMgr

MCCorrect == [q \in 1..3 |-> IF q = 2 THEN {0, 1} ELSE {0}]
MCPenalty == -1
MCLines   == {{}, {0}, {2}, {0, 1}, Options}
=============================================================================

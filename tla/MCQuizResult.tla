--------------------------- MODULE MCQuizResult ---------------------------
(* Three questions: one right option, two right options, and a question     *)
(* whose row names no usable option.  Selections cover none, right, wrong,  *)
(* partial, all four and an index the Answer refuses.                       *)
EXTENDS QuizResult, TLC

MCCorrect == 1 :> {1} @@ 2 :> {0, 3} @@ 3 :> {}
MCPenalty == -1
MCSelections == {{}, {1}, {0, 2}, {0, 3}, {2}, {0, 1, 2, 3}, {7}}
=============================================================================

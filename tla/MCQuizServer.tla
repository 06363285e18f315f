---------------------------- MODULE MCQuizServer ----------------------------
(* Two connections and one or two names compete; one question with one      *)
(* right option, answered right or wrong.  The times that clients report    *)
(* are negative, or enough to use up the whole limit.                       *)
EXTENDS QuizServer, TLC
CONSTANTS c1, c2, ann, bob
MCCorrect == [q \in Questions |-> {1}]
MCPenalty == -1
MCSelections == {{1}, {2}}
MCOneSelection == {{1}}
MCReports == {-1, 2}
MCNoReport == {0}
MCSymmetry == Permutations(Conns)
=============================================================================

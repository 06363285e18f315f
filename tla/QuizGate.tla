------------------------------ MODULE QuizGate ------------------------------
(***************************************************************************)
(* What the rest of the server may rely on of the QuizStateManager: which  *)
(* quizzes have been started, and whether the manager still answers.       *)
(* There is no way back from "stuck" to "up": once the manager has begun   *)
(* to end a quiz that has a timer, every later query of it blocks.         *)
(* QuizStateManager implements it; QuizServer assumes no more than it.     *)
(***************************************************************************)
CONSTANTS
  Quizzes,     \* quiz ids
  EndsAll      \* is ForceEndAllQuizzes called?

VARIABLES
  mode,     \* "up": queries are answered, "stuck": they block, "down": the
            \* process has terminated
  started   \* the quizzes that are no longer NOT_STARTED

vars == <<mode, started>>

(* The host may have started quizzes before. *)
Init == mode = "up" /\ started \subseteq Quizzes

(* A quiz is started once: starting it again is a way to get stuck.         *)
Start(q) ==
  /\ mode = "up" /\ q \notin started
  /\ started' = started \cup {q}
  /\ UNCHANGED mode

(* A quiz times out. *)
TimeOut ==
  /\ mode = "up" /\ started # {}
  /\ mode' = "down"
  /\ UNCHANGED started

(* A timer is replaced, a quiz or all of them are ended. *)
Block ==
  /\ mode = "up" /\ (started # {} \/ EndsAll)
  /\ mode' = "stuck"
  /\ UNCHANGED started

(* The relock at the end of ForceEndAllQuizzes. *)
Abort ==
  /\ mode = "stuck" /\ EndsAll
  /\ mode' = "down"
  /\ UNCHANGED started

Next == (\E q \in Quizzes : Start(q)) \/ TimeOut \/ Block \/ Abort

Spec == Init /\ [][Next]_vars
=============================================================================

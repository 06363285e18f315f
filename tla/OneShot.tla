------------------------------ MODULE OneShot ------------------------------
(***************************************************************************)
(* What a QuestionTimer promises whoever owns it, without its thread, its  *)
(* mutex and its flags: each Start opens a generation; a generation has    *)
(* one outcome, decided once, by a call of the owner or by the clock; the  *)
(* callback that the outcome asks for runs once, and it has returned       *)
(* before the call that joins the generation goes on.  QuestionTimer       *)
(* implements it, and so do the timers of QuizMgr and QuizStateManager.    *)
(***************************************************************************)
CONSTANT HasForceCallback  \* was a force_stop_callback given?

VARIABLES
  open,      \* between Start and the join that ends the generation
  outcome,   \* what GetState() reports
  callback,  \* the one of this generation: "due" (not begun), "timeout" or
             \* "force" (running) or "over"
  waits      \* the owner is inside a call that ends the generation

vars == <<open, outcome, callback, waits>>

Init == open = FALSE /\ outcome = "NOT_STARTED" /\ callback = "due" /\ waits = FALSE

Start ==
  /\ ~open /\ ~waits
  /\ open' = TRUE /\ outcome' = "RUNNING" /\ callback' = "due"
  /\ UNCHANGED waits

(* Stop, ForceStop or the destructor while the time runs: it decides.       *)
Win(how) ==
  /\ open /\ ~waits /\ outcome = "RUNNING"
  /\ outcome' = how /\ waits' = TRUE
  /\ UNCHANGED <<open, callback>>

(* One of them, or Start, after the time was up: it comes too late.         *)
ComeLate ==
  /\ open /\ ~waits /\ outcome # "RUNNING"
  /\ waits' = TRUE
  /\ UNCHANGED <<open, outcome, callback>>

(* The time is up, and the timeout callback begins in the same step.        *)
TimeOut ==
  /\ open /\ outcome = "RUNNING"
  /\ outcome' = "TIMED_OUT" /\ callback' = "timeout"
  /\ UNCHANGED <<open, waits>>

ForceCallback ==
  /\ open /\ outcome = "FORCE_STOPPED" /\ callback = "due" /\ HasForceCallback
  /\ callback' = "force"
  /\ UNCHANGED <<open, outcome, waits>>

CallbackReturns ==
  /\ open /\ callback \in {"timeout", "force"}
  /\ callback' = "over"
  /\ UNCHANGED <<open, outcome, waits>>

(* No callback that is due is cut off or left for later.                    *)
Delivered ==
  \/ callback = "over"
  \/ callback = "due" /\ outcome = "ANSWERED"
  \/ callback = "due" /\ outcome = "FORCE_STOPPED" /\ ~HasForceCallback

Close ==
  /\ open /\ waits /\ Delivered
  /\ open' = FALSE /\ waits' = FALSE
  /\ UNCHANGED <<outcome, callback>>

Next ==
  \/ Start \/ Win("ANSWERED") \/ Win("FORCE_STOPPED") \/ ComeLate \/ TimeOut
  \/ ForceCallback \/ CallbackReturns \/ Close

Spec == Init /\ [][Next]_vars
=============================================================================

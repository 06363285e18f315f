----------------------------- MODULE TimerOps -----------------------------
(***************************************************************************)
(* The QuestionTimer object as a record, and what its critical sections do *)
(* to it.  The modules that own timers decide who runs a section and when: *)
(* QuestionTimer one timer and its owner, QuizStateManager the timers of   *)
(* the server's quizzes.                                                   *)
(*                                                                         *)
(* thread is the state of the std::thread member:                          *)
(*   none      not joinable            spawned   started, mtx not yet taken *)
(*   waiting   blocked in cv.wait_for  timeoutCb / forceCb  in a callback,  *)
(*                                     mtx released                         *)
(*   done      returned, not yet joined                                     *)
(* notified: a cv.notify_one() has reached the waiting thread.  expired:    *)
(* time_limit_ms have passed since the wait began.  start_time and end_time *)
(* are left out.                                                            *)
(***************************************************************************)

Threads == {"none", "spawned", "waiting", "timeoutCb", "forceCb", "done"}
TimerStates ==
  {"NOT_STARTED", "RUNNING", "ANSWERED", "TIMED_OUT", "FORCE_STOPPED"}

Timer ==
  [ thread   : Threads,
    answered : BOOLEAN,
    forced   : BOOLEAN,
    running  : BOOLEAN,
    state    : TimerStates,
    notified : BOOLEAN,
    expired  : BOOLEAN ]

NewTimer ==
  [ thread |-> "none", answered |-> FALSE, forced |-> FALSE,
    running |-> FALSE, state |-> "NOT_STARTED",
    notified |-> FALSE, expired |-> FALSE ]

Joinable(tm) == tm.thread # "none"
Joined(tm)   == [tm EXCEPT !.thread = "none", !.running = FALSE]
HoldsCallback(tm) == tm.thread \in {"timeoutCb", "forceCb"}

(* Start, the section that resets the flags, and then the std::thread. *)
ResetFlagsKeepAnswered(tm) ==
  [tm EXCEPT !.forced = FALSE, !.running = TRUE, !.state = "RUNNING"]

ResetFlags(tm) ==
  [tm EXCEPT !.answered = FALSE, !.forced = FALSE,
             !.running = TRUE, !.state = "RUNNING"]

Spawn(tm) ==
  [tm EXCEPT !.thread = "spawned", !.notified = FALSE, !.expired = FALSE]

(* cv.notify_one(): only a thread that is already waiting can receive it. *)
Notify(tm) == [tm EXCEPT !.notified = (tm.thread = "waiting")]

(* Stop and ForceStop, the section entered when running is still set. *)
SignalAnswered(tm) ==
  Notify([tm EXCEPT !.answered = TRUE, !.state = "ANSWERED"])

SignalForcedNoNotify(tm) == [tm EXCEPT !.forced = TRUE, !.state = "FORCE_STOPPED"]

SignalForced(tm) ==
  Notify([tm EXCEPT !.forced = TRUE, !.state = "FORCE_STOPPED"])

(* The timer thread after the wait, or instead of it when the predicate     *)
(* holds at once.  hasForceCb: a force_stop_callback was given.             *)
DecideTimeoutFirst(tm, hasForceCb) ==
  IF tm.expired
  THEN [tm EXCEPT !.thread = "timeoutCb", !.state = "TIMED_OUT", !.running = FALSE]
  ELSE [tm EXCEPT !.thread = IF tm.forced /\ hasForceCb THEN "forceCb" ELSE "done",
                  !.state = IF tm.forced THEN "FORCE_STOPPED" ELSE "ANSWERED",
                  !.running = FALSE]

Decide(tm, hasForceCb) ==
  IF tm.forced
  THEN [tm EXCEPT !.thread = IF hasForceCb THEN "forceCb" ELSE "done",
                  !.state = "FORCE_STOPPED", !.running = FALSE]
  ELSE IF tm.answered
  THEN [tm EXCEPT !.thread = "done", !.state = "ANSWERED", !.running = FALSE]
  ELSE [tm EXCEPT !.thread = "timeoutCb", !.state = "TIMED_OUT", !.running = FALSE]

(* The thread takes mtx for the first time: wait_for tests its predicate    *)
(* before it blocks.                                                        *)
Enter(tm, hasForceCb) ==
  IF tm.answered \/ tm.forced
  THEN Decide(tm, hasForceCb)
  ELSE [tm EXCEPT !.thread = "waiting"]

(* The wait ends: notified, or time_limit_ms have passed.  (A spurious      *)
(* wake-up finds the predicate false and blocks again: no step.)            *)
MayWake(tm) == tm.thread = "waiting" /\ (tm.notified \/ tm.expired)

Expired(tm) == [tm EXCEPT !.expired = TRUE]
CallbackDone(tm) == [tm EXCEPT !.thread = "done"]
=============================================================================

-------------------------- MODULE QuizStateManager --------------------------
(***************************************************************************)
(* QuizStateManager and the QuestionTimers it owns.  Threads of the server *)
(* call it, the threads of its timers call back into it, and all of them   *)
(* meet at state_mutex.  Timers are destroyed, and their threads joined,   *)
(* with state_mutex held.                                                  *)
(***************************************************************************)
EXTENDS TimerOps, FiniteSets

CONSTANTS
  Callers,         \* threads that call the manager: pool threads, the host
  Quizzes,         \* quiz ids
  Timers,          \* QuestionTimer objects that may be created: a bound
  NoTimer,         \* "no entry in quiz_timers"
  Nobody,          \* state_mutex is free
  Calls,           \* which operations the callers use
  RelockOutcomes   \* what locking a std::mutex twice does: "hang", "throw"

Operations == {"StartQuiz", "StartIfInactive", "ForceEndQuiz", "ForceEndAll"}
QuizStates == {"NOT_STARTED", "IN_PROGRESS", "ENDED_TIMEOUT", "ENDED_FORCE_STOPPED"}

ASSUME QuizStateManagerAssumption ==
  /\ Quizzes # {}
  /\ NoTimer \notin Callers \cup Timers
  /\ Callers \cap Timers = {}
  /\ Nobody \notin Callers \cup Timers
  /\ Calls \subseteq Operations
  /\ RelockOutcomes \subseteq {"hang", "throw"}

(* A timer stands for its thread too.                                       *)
Actors == Callers \cup Timers

(* idle      no call in progress         check     IsQuizActive             *)
(* start     StartQuiz                   arm       destroys the old timer,  *)
(* register  RegisterClient                        starts the new one       *)
(* end       EndQuiz                     erase     destroys the timer       *)
(* notify    NotifyClients               endAll    ForceEndAllQuizzes       *)
(* sweep     stops timer after timer     hung      blocked in the relock    *)
Pcs == {"idle", "check", "start", "arm", "register", "end", "erase", "notify",
        "endAll", "sweep", "hung"}

VARIABLES
  states,  \* quiz_states ("NOT_STARTED": no entry)
  quizTimers,  \* quiz_timers
  timers,  \* the QuestionTimer objects
  quizOf,  \* the quiz_id their callbacks captured
  th,      \* the call each actor executes
  mutex,   \* who holds state_mutex
  alive    \* FALSE once the process has terminated

vars == <<states, quizTimers, timers, quizOf, th, mutex, alive>>

Frame ==
  [ pc     : Pcs,
    quiz   : Quizzes,
    op     : Operations \cup {"none"},
    victim : Timers \cup {NoTimer},   \* the timer being destroyed or stopped
    todo   : SUBSET Timers ]          \* the timers ForceEndAllQuizzes has left

FrameOf(label, op, q) ==
  [pc |-> label, quiz |-> q, op |-> op, victim |-> NoTimer, todo |-> {}]

Idle == FrameOf("idle", "none", CHOOSE q \in Quizzes : TRUE)

(* The maps, the timers and every actor's frame have their types.           *)
TypeOK ==
  /\ states \in [Quizzes -> QuizStates]
  /\ quizTimers \in [Quizzes -> Timers \cup {NoTimer}]
  /\ timers \in [Timers -> Timer]
  /\ quizOf \in [Timers -> Quizzes]
  /\ th \in [Actors -> Frame]
  /\ mutex \in Actors \cup {Nobody}
  /\ alive \in BOOLEAN

Init ==
  /\ states = [q \in Quizzes |-> "NOT_STARTED"]
  /\ quizTimers = [q \in Quizzes |-> NoTimer]
  /\ timers = [t \in Timers |-> NewTimer]
  /\ quizOf \in [Timers -> Quizzes]
  /\ th = [a \in Actors |-> Idle]
  /\ mutex = Nobody
  /\ alive = TRUE

-----------------------------------------------------------------------------
At(a, label) == alive /\ th[a].pc = label
Goto(a, label) == th' = [th EXCEPT ![a].pc = label]
Return(a) == th' = [th EXCEPT ![a] = Idle]

Unused(t) == timers[t] = NewTimer /\ \A q \in Quizzes : quizTimers[q] # t

(* Start() of a new timer: its Stop() finds nothing to stop.                *)
Started(tm) == Spawn(ResetFlags(tm))

(* Mutant: ForceStop() does not look at running. *)
ForceStoppedAnyway(tm) == SignalForced(tm)

(* ForceStop(), up to its join.                                             *)
ForceStopped(tm) == IF tm.running THEN SignalForced(tm) ELSE tm

EntryPoint ==
  [op \in Operations |->
     IF op = "StartQuiz" THEN "start"
     ELSE IF op = "StartIfInactive" THEN "check"
     ELSE IF op = "ForceEndQuiz" THEN "end" ELSE "endAll"]

(* A call. *)
Call(a) ==
  /\ a \in Callers /\ At(a, "idle")
  /\ \E q \in Quizzes, op \in Calls :
       th' = [th EXCEPT ![a] =
                FrameOf(EntryPoint[op], op, q)]
  /\ UNCHANGED <<states, quizTimers, timers, quizOf, mutex, alive>>

(* The STRICT branch of HandleStartQuiz: IsQuizActive, then StartQuiz.      *)
Check(a) ==
  /\ At(a, "check") /\ mutex = Nobody
  /\ IF states[th[a].quiz] = "IN_PROGRESS" THEN Return(a) ELSE Goto(a, "start")
  /\ UNCHANGED <<states, quizTimers, timers, quizOf, mutex, alive>>

(* No timer is being joined, or its thread has returned.                    *)
JoinReturns(a) ==
  th[a].victim # NoTimer => timers[th[a].victim].thread = "done"

AfterJoin(a) ==
  [t \in Timers |-> IF t = th[a].victim THEN Joined(timers[t]) ELSE timers[t]]

(* Mutant: the replaced timer is let go, not destroyed. *)
StartQuizLeaks(a) ==
  /\ At(a, "start") /\ mutex = Nobody
  /\ \E t \in Timers :
       /\ Unused(t) /\ quizOf[t] = th[a].quiz
       /\ quizTimers' = [quizTimers EXCEPT ![th[a].quiz] = t]
       /\ timers' = timers
       /\ th' = [th EXCEPT ![a].pc = "arm"]
  /\ states' = [states EXCEPT ![th[a].quiz] = "IN_PROGRESS"]
  /\ mutex' = a
  /\ UNCHANGED <<quizOf, alive>>

(* Assigning the new timer to the map destroys the one that is there:       *)
(* ForceStop, if it is running, and then the join.                          *)
StartQuiz(a) ==
  /\ At(a, "start") /\ mutex = Nobody
  /\ \E t \in Timers :
       /\ Unused(t) /\ quizOf[t] = th[a].quiz
       /\ quizTimers' = [quizTimers EXCEPT ![th[a].quiz] = t]
       /\ LET old == quizTimers[th[a].quiz]
          IN  /\ timers' = IF old = NoTimer THEN timers
                           ELSE [timers EXCEPT ![old] = ForceStopped(@)]
              /\ th' = [th EXCEPT ![a].pc = "arm", ![a].victim = old]
  /\ states' = [states EXCEPT ![th[a].quiz] = "IN_PROGRESS"]
  /\ mutex' = a
  /\ UNCHANGED <<quizOf, alive>>

(* Mutant: the new timer is never started. *)
ArmForgotten(a) ==
  /\ At(a, "arm") /\ JoinReturns(a)
  /\ timers' = AfterJoin(a)
  /\ IF th[a].op = "StartIfInactive" THEN Goto(a, "register") ELSE Return(a)
  /\ mutex' = Nobody
  /\ UNCHANGED <<states, quizTimers, quizOf, alive>>

(* StartQuiz goes on once the old thread, if any, has returned: Start().    *)
Arm(a) ==
  /\ At(a, "arm") /\ JoinReturns(a)
  /\ timers' = [AfterJoin(a) EXCEPT ![quizTimers[th[a].quiz]] = Started(NewTimer)]
  /\ IF th[a].op = "StartIfInactive"
     THEN th' = [th EXCEPT ![a].pc = "register", ![a].victim = NoTimer]
     ELSE Return(a)
  /\ mutex' = Nobody
  /\ UNCHANGED <<states, quizTimers, quizOf, alive>>

(* The callback that is registered calls NotifyAllUsers, an empty function. *)
RegisterClient(a) ==
  /\ At(a, "register") /\ mutex = Nobody
  /\ Return(a)
  /\ UNCHANGED <<states, quizTimers, timers, quizOf, mutex, alive>>

-----------------------------------------------------------------------------
(* EndQuiz, called by ForceEndQuiz or by the timeout callback of a timer.   *)

(* ENDED_COMPLETED is never assigned. *)
EndState(a) == IF a \in Timers THEN "ENDED_TIMEOUT" ELSE "ENDED_FORCE_STOPPED"

(* Mutant: the timer is only taken out of the map. *)
EndQuizKeepsTimer(a) ==
  /\ At(a, "end") /\ mutex = Nobody
  /\ states' = [states EXCEPT ![th[a].quiz] =
                  IF @ = "NOT_STARTED" THEN @ ELSE EndState(a)]
  /\ th' = [th EXCEPT ![a].pc = "erase"]
  /\ mutex' = a
  /\ UNCHANGED <<quizTimers, timers, quizOf, alive>>

(* A timer thread that ends its own quiz destroys the timer it runs on:     *)
(* joining itself throws in a destructor, and the process terminates.       *)
EndQuiz(a) ==
  /\ At(a, "end") /\ mutex = Nobody
  /\ states' = [states EXCEPT ![th[a].quiz] =
                  IF @ = "NOT_STARTED" THEN @ ELSE EndState(a)]
  /\ LET t == quizTimers[th[a].quiz]
     IN  /\ timers' = IF t = NoTimer THEN timers
                      ELSE [timers EXCEPT ![t] = ForceStopped(@)]
         /\ th' = [th EXCEPT ![a].pc = "erase", ![a].victim = t]
         /\ alive' = (t # a)
  /\ mutex' = a
  /\ UNCHANGED <<quizTimers, quizOf>>

(* Mutant: the timer's thread is detached, not joined. *)
EraseDetached(a) ==
  /\ At(a, "erase")
  /\ timers' = AfterJoin(a)
  /\ quizTimers' = [quizTimers EXCEPT ![th[a].quiz] = NoTimer]
  /\ th' = [th EXCEPT ![a].pc = "notify", ![a].victim = NoTimer]
  /\ mutex' = Nobody
  /\ UNCHANGED <<states, quizOf, alive>>

(* EndQuiz goes on once the thread, if any, has returned: the entry goes.   *)
Erase(a) ==
  /\ At(a, "erase") /\ JoinReturns(a)
  /\ timers' = AfterJoin(a)
  /\ quizTimers' = [quizTimers EXCEPT ![th[a].quiz] = NoTimer]
  /\ th' = [th EXCEPT ![a].pc = "notify", ![a].victim = NoTimer]
  /\ mutex' = Nobody
  /\ UNCHANGED <<states, quizOf, alive>>

(* Mutant: the lock_guard is dropped. *)
NotifyClientsUnlocked(a) ==
  /\ At(a, "notify")
  /\ Return(a)
  /\ timers' = IF a \in Timers THEN [timers EXCEPT ![a] = CallbackDone(@)] ELSE timers
  /\ UNCHANGED <<states, quizTimers, quizOf, mutex, alive>>

(* The last thing a callback, or ForceEndQuiz, does.                        *)
NotifyClients(a) ==
  /\ At(a, "notify") /\ mutex = Nobody
  /\ Return(a)
  /\ timers' = IF a \in Timers THEN [timers EXCEPT ![a] = CallbackDone(@)] ELSE timers
  /\ UNCHANGED <<states, quizTimers, quizOf, mutex, alive>>

-----------------------------------------------------------------------------
(* ForceEndAllQuizzes. *)

EndAll(a) ==
  /\ At(a, "endAll") /\ mutex = Nobody
  /\ states' = [q \in Quizzes |->
                  IF states[q] = "IN_PROGRESS" THEN "ENDED_FORCE_STOPPED" ELSE states[q]]
  /\ th' = [th EXCEPT ![a].pc = "sweep",
                      ![a].todo = {quizTimers[q] : q \in Quizzes} \ {NoTimer}]
  /\ mutex' = a
  /\ UNCHANGED <<quizTimers, timers, quizOf, alive>>

(* ForceStop of the next timer: it joins only if the timer was running.     *)
Sweep(a) ==
  /\ At(a, "sweep") /\ JoinReturns(a)
  /\ \E t \in th[a].todo :
       /\ timers' = [AfterJoin(a) EXCEPT ![t] = ForceStopped(@)]
       /\ th' = [th EXCEPT ![a].victim = IF timers[t].running THEN t ELSE NoTimer,
                           ![a].todo = @ \ {t}]
  /\ UNCHANGED <<states, quizTimers, quizOf, mutex, alive>>

(* NotifyAllClients locks state_mutex a second time: the thread sleeps for  *)
(* ever, or an exception leaves the destructor that is shutting the server  *)
(* down.  quiz_timers.clear() is never reached.                             *)
NotifyAllClients(a) ==
  /\ At(a, "sweep") /\ JoinReturns(a)
  /\ th[a].todo = {}
  /\ \/ "hang" \in RelockOutcomes /\ Goto(a, "hung") /\ UNCHANGED alive
     \/ "throw" \in RelockOutcomes /\ alive' = FALSE /\ UNCHANGED th
  /\ UNCHANGED <<states, quizTimers, timers, quizOf, mutex>>

-----------------------------------------------------------------------------
(* The timer threads.  No caller joins under a timer's own mtx, so mtx is   *)
(* always free.                                                             *)

(* The thread has decided: it runs a callback, or it has returned.          *)
Decided(t, tm) ==
  /\ timers' = [timers EXCEPT ![t] = tm]
  /\ th' = IF tm.thread = "timeoutCb"
           THEN [th EXCEPT ![t] = FrameOf("end", "none", quizOf[t])]
           ELSE IF tm.thread = "forceCb"
           THEN [th EXCEPT ![t] = FrameOf("notify", "none", quizOf[t])]
           ELSE th

TimerThread(t) ==
  /\ alive
  /\ \/ timers[t].thread = "spawned" /\ Decided(t, Enter(timers[t], TRUE))
     \/ MayWake(timers[t]) /\ Decided(t, Decide(timers[t], TRUE))
     \/ /\ timers[t].thread = "waiting" /\ ~timers[t].expired
        /\ timers' = [timers EXCEPT ![t] = Expired(@)]
        /\ UNCHANGED th
  /\ UNCHANGED <<states, quizTimers, quizOf, mutex, alive>>

Step(a) ==
  \/ Check(a) \/ StartQuiz(a) \/ Arm(a) \/ RegisterClient(a)
  \/ EndQuiz(a) \/ Erase(a) \/ NotifyClients(a)
  \/ EndAll(a) \/ Sweep(a) \/ NotifyAllClients(a)

Next ==
  \/ \E a \in Callers : Call(a)
  \/ \E a \in Actors : Step(a)
  \/ \E t \in Timers : TimerThread(t)

(* A call in progress and the timer threads are scheduled, and time passes. *)
Spec ==
  /\ Init /\ [][Next]_vars
  /\ \A a \in Actors : WF_vars(Step(a))
  /\ \A t \in Timers : WF_vars(TimerThread(t))

-----------------------------------------------------------------------------
(* What holds of the manager. *)

Active(q) == states[q] = "IN_PROGRESS"
Live(t) == timers[t].thread \notin {"none", "done"}

(* No request ever sees an ended quiz: whenever state_mutex can be taken,   *)
(* every quiz is NOT_STARTED or IN_PROGRESS.  The thread that ends a quiz   *)
(* never releases the mutex again (EndQuiz, ForceEndAllQuizzes), so the     *)
(* three ENDED cases of CanAccessQuiz and of IsCommandAllowed are dead.     *)
EndedNeverSeen ==
  alive /\ mutex = Nobody =>
    \A q \in Quizzes : states[q] \in {"NOT_STARTED", "IN_PROGRESS"}

(* Between calls, a quiz is in progress exactly if it has a timer whose     *)
(* thread is still going to end it: no active quiz runs without a clock.    *)
ActiveIsTimed ==
  alive /\ mutex = Nobody =>
    \A q \in Quizzes :
      Active(q) <=> \E t \in Timers : quizTimers[q] = t /\ quizOf[t] = q /\ Live(t)

(* A timer thread that is alive is the current one of its quiz, or the      *)
(* holder of state_mutex is joining it: a superseded timer is never left    *)
(* behind to end the quiz that replaced it.                                 *)
NoStrayTimer ==
  alive =>
    \A t \in Timers : Live(t) =>
      \/ quizTimers[quizOf[t]] = t
      \/ mutex # Nobody /\ th[mutex].victim = t

(* Joining a timer thread under state_mutex never ends: the thread's last   *)
(* act is NotifyClients, or EndQuiz, and both lock the same mutex.  Once a  *)
(* StartQuiz, EndQuiz or ForceEndAllQuizzes waits for a thread, the mutex   *)
(* stays with it and no call of the manager completes again.                *)
JoinUnderLockBlocks ==
  [][ mutex # Nobody /\ th[mutex].victim # NoTimer
        => mutex' = mutex /\ th'[mutex] = th[mutex] ]_vars

(* The manager answers until it ends a quiz that has a timer, replaces one, *)
(* or ends them all; from there on it is stuck, or the process is gone. It  *)
(* never answers again, and before a quiz is started only                   *)
(* ForceEndAllQuizzes can bring it there.                                   *)
HolderAt(label) == mutex # Nobody /\ th[mutex].pc = label
Joins(t)        == mutex # Nobody /\ th[mutex].victim = t
Calm == \/ mutex = Nobody
        \/ (HolderAt("arm") \/ HolderAt("erase")) /\ Joins(NoTimer)

Gate ==
  INSTANCE QuizGate WITH
    EndsAll <- "ForceEndAll" \in Calls,
    mode <- IF ~alive THEN "down" ELSE IF Calm THEN "up" ELSE "stuck",
    started <- {q \in Quizzes : states[q] # "NOT_STARTED"}

ImplementsGate == Gate!Spec

(* Each timer the manager creates is used as a OneShot: its outcome is      *)
(* decided once, its callback runs inside its one generation, and nobody    *)
(* goes on past the join before it has returned.                            *)
Shot(t) ==
  INSTANCE OneShot WITH
    HasForceCallback <- TRUE,
    open <- Joinable(timers[t]),
    outcome <- timers[t].state,
    callback <- IF timers[t].thread = "timeoutCb" THEN "timeout"
                ELSE IF timers[t].thread = "forceCb" THEN "force"
                ELSE IF timers[t].thread \in {"spawned", "waiting"}
                        \/ timers[t].state = "NOT_STARTED"
                THEN "due" ELSE "over",
    waits <- Joins(t)

TimersAreOneShots ==
  /\ \A t \in Timers : Shot(t)!Init
  /\ [][ \A t \in Timers : [Shot(t)!Next]_(Shot(t)!vars) ]_vars

-----------------------------------------------------------------------------
(* What the code's comments say, and does not hold. *)

(* A quiz that times out leaves the server running, for "result checking if *)
(* quiz has ended" (QuizStateManager.cpp:97).                               *)
TimeoutSurvived ==
  [][ (\E q \in Quizzes : Active(q) /\ states'[q] = "ENDED_TIMEOUT") => alive' ]_vars
=============================================================================

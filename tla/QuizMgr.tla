------------------------------ MODULE QuizMgr ------------------------------
(***************************************************************************)
(* The single-user quiz: QuizMgr::StartQuiz and WaitForUserAnswer on the   *)
(* main thread, composed with the QuestionTimer they own (module           *)
(* QuestionTimer, every step of it) and whose callback OnTimerExpired sets *)
(* the atomic vTimedOut.  A typed line is the set of options it parses to, *)
(* {} for a line that is refused or selects nothing.                       *)
(***************************************************************************)
EXTENDS Grading

CONSTANTS
  Lines,    \* the lines a user may type, as sets of options
  MaxTime   \* bound on the clock

ASSUME QuizMgrAssumption ==
  /\ NumQuestions > 0    \* line 53: an empty bank is refused
  /\ Lines \subseteq SUBSET Options
  /\ MaxTime \in Nat

VARIABLES
  tm, pc, call, starts, asked, fired,   \* of QuestionTimer
  bullet,     \* vQuizMode = BULLET_TIMER_MODE: fixed
  multi,      \* vIsMultipleAnswersAllowed: fixed
  at,         \* where the main thread is
  ques,       \* the loop variable i
  vTimedOut,
  selected,   \* WaitForUserAnswer's local set
  answer,     \* the options of the Answer it returned
  res,        \* vUser's Result
  clock,      \* time since the timer was first started
  elapsed,    \* vUser's elapsed time
  late        \* history: answers recorded with vTimedOut already set

timerVars == <<tm, pc, call, starts, asked, fired>>
userVars  == <<res, elapsed, late>>
waitVars  == <<selected, answer>>
vars == <<timerVars, bullet, multi, at, ques, vTimedOut, waitVars, userVars, clock>>

T == INSTANCE QuestionTimer WITH HasForceCallback <- FALSE,
                                 MaxStarts <- NumQuestions

(* begin   StartQuiz called          next    head of the question loop      *)
(* start   about to Start (bullet)   wait    test of WaitForUserAnswer      *)
(* input   blocked in getline        given   WaitForUserAnswer returned     *)
(* judge   Stop called (bullet)      verdict the answer is recorded         *)
(* end     after the loop            leave   the unique_ptr is destroyed    *)
Places == {"begin", "next", "start", "wait", "input", "given", "judge",
           "verdict", "end", "leave", "done"}

(* The timer's types, and the local and member variables of StartQuiz.      *)
TypeOK ==
  /\ T!TypeOK
  /\ bullet \in BOOLEAN /\ multi \in BOOLEAN /\ vTimedOut \in BOOLEAN
  /\ at \in Places
  /\ ques \in 0..NumQuestions
  /\ selected \subseteq Options /\ answer \subseteq Options
  /\ res \in Results
  /\ clock \in 0..MaxTime
  /\ elapsed \in Nat /\ late \in Nat

Init ==
  /\ T!Init
  /\ bullet \in BOOLEAN /\ multi \in BOOLEAN
  /\ at = "begin" /\ ques = 0 /\ vTimedOut = FALSE
  /\ selected = {} /\ answer = {}
  /\ res = EmptyResult
  /\ clock = 0 /\ elapsed = 0 /\ late = 0

-----------------------------------------------------------------------------
(* The main thread.  It goes on once its call on the timer has returned.    *)

At(place) == at = place /\ pc = "idle" /\ UNCHANGED <<bullet, multi, clock>>

(* Bullet mode: the timer starts with each question; otherwise now.         *)
Begin ==
  /\ At("begin")
  /\ vTimedOut' = FALSE
  /\ at' = "next"
  /\ IF bullet THEN UNCHANGED timerVars ELSE T!EnterStop("Start")
  /\ UNCHANGED <<ques, waitVars, userVars>>

(* Mutant: vTimedOut is not reset for the next question. *)
NextQuestionKeepsFlag ==
  /\ At("next")
  /\ IF ques < NumQuestions
     THEN ques' = ques + 1 /\ at' = IF bullet THEN "start" ELSE "wait"
     ELSE ques' = ques /\ at' = "end"
  /\ selected' = {}
  /\ UNCHANGED <<timerVars, vTimedOut, answer, userVars>>

(* The return on a null question is left out: the bank holds the ids 1 to   *)
(* NumQuestions (QuizSetup, ServingIsReady), and nothing edits it meanwhile. *)
NextQuestion ==
  /\ At("next")
  /\ \/ /\ ques < NumQuestions
        /\ ques' = ques + 1
        /\ at' = IF bullet THEN "start" ELSE "wait"
        /\ vTimedOut' = (vTimedOut /\ ~bullet)
     \/ /\ ques = NumQuestions
        /\ at' = "end"
        /\ UNCHANGED <<ques, vTimedOut>>
  /\ selected' = {}
  /\ UNCHANGED <<timerVars, answer, userVars>>

StartTimer ==
  /\ At("start")
  /\ T!EnterStop("Start")
  /\ at' = "wait"
  /\ UNCHANGED <<ques, vTimedOut, waitVars, userVars>>

(* WaitForUserAnswer: the test of its loop.  A timeout returns what the     *)
(* last line selected; the clear() at the head of the loop drops it         *)
(* otherwise.                                                               *)
Wait ==
  /\ At("wait")
  /\ \/ /\ ~vTimedOut
        /\ selected' = {} /\ at' = "input"
        /\ UNCHANGED answer
     \/ /\ vTimedOut
        /\ answer' = SelectedOps(selected) /\ at' = "given"
        /\ UNCHANGED selected
  /\ UNCHANGED <<timerVars, ques, vTimedOut, userVars>>

(* Mutant: the multi-option branch returns a valid selection too. *)
ReadLineReturns(s) ==
  /\ At("input")
  /\ IF Cardinality(s) \in 1..(IF multi THEN 3 ELSE 1)
     THEN answer' = SelectedOps(s) /\ at' = "given"
     ELSE at' = "wait" /\ UNCHANGED answer
  /\ UNCHANGED <<timerVars, ques, vTimedOut, selected, userVars>>

(* A line is typed.  Only the single-option branch returns from the loop;   *)
(* the multi-option one goes back to its test with any line.                *)
ReadLine(s) ==
  /\ At("input")
  /\ \/ /\ ~multi /\ Cardinality(s) = 1
        /\ answer' = SelectedOps(s) /\ at' = "given"
        /\ UNCHANGED selected
     \/ /\ ~multi /\ Cardinality(s) # 1
        /\ at' = "wait"
        /\ UNCHANGED waitVars
     \/ /\ multi
        /\ selected' = s /\ at' = "wait"
        /\ UNCHANGED answer
  /\ UNCHANGED <<timerVars, ques, vTimedOut, userVars>>

(* vUser->SetAndValidateUserAnswer. *)
Record ==
  /\ res' = AddAnswer(res, ques, answer)
  /\ late' = IF vTimedOut THEN late + 1 ELSE late
  /\ at' = "verdict"

(* After WaitForUserAnswer: bullet mode stops the timer; otherwise the      *)
(* timer's elapsed time, since its one start, is added and the answer is    *)
(* recorded whatever vTimedOut says.                                        *)
Given ==
  /\ At("given")
  /\ \/ /\ bullet
        /\ T!EnterStop("Stop")
        /\ at' = "judge"
        /\ UNCHANGED userVars
     \/ /\ ~bullet
        /\ elapsed' = elapsed + clock
        /\ Record
        /\ UNCHANGED timerVars
  /\ UNCHANGED <<ques, vTimedOut, waitVars>>

(* Bullet mode, Stop has returned: after a timeout the answer is dropped.   *)
Judge ==
  /\ At("judge")
  /\ \/ /\ vTimedOut
        /\ at' = "next"
        /\ UNCHANGED userVars
     \/ /\ ~vTimedOut
        /\ Record
        /\ UNCHANGED elapsed
  /\ UNCHANGED <<timerVars, ques, vTimedOut, waitVars>>

(* Mutant: the "Time is up" test is forgotten. *)
VerdictGoesOn ==
  /\ At("verdict")
  /\ at' = "next"
  /\ UNCHANGED <<timerVars, ques, vTimedOut, waitVars, userVars>>

(* "Time is up!": a second look at vTimedOut, after the answer is recorded. *)
Verdict ==
  /\ At("verdict")
  /\ at' = IF ~bullet /\ vTimedOut THEN "end" ELSE "next"
  /\ UNCHANGED <<timerVars, ques, vTimedOut, waitVars, userVars>>

End ==
  /\ At("end")
  /\ at' = "leave"
  /\ IF bullet THEN UNCHANGED timerVars ELSE T!EnterStop("Stop")
  /\ UNCHANGED <<ques, vTimedOut, waitVars, userVars>>

Leave ==
  /\ At("leave")
  /\ at' = "done"
  /\ T!EnterForceStop("Destroy")
  /\ UNCHANGED <<ques, vTimedOut, waitVars, userVars>>

-----------------------------------------------------------------------------
(* Inside the timer's calls, the timer thread and its callback. *)

Others == <<bullet, multi, at, ques, waitVars, userVars, clock>>

TimerCall == T!OwnerStep /\ UNCHANGED <<Others, vTimedOut>>

TimerThread ==
  /\ T!ThreadEnter \/ T!Deadline \/ T!ThreadWake
  /\ UNCHANGED <<Others, vTimedOut>>

OnTimerExpired ==
  /\ T!CallbackReturns
  /\ vTimedOut' = TRUE
  /\ UNCHANGED Others

Tick ==
  /\ starts > 0 /\ at # "done" /\ clock < MaxTime
  /\ clock' = clock + 1
  /\ UNCHANGED <<timerVars, bullet, multi, at, ques, vTimedOut, waitVars, userVars>>

Terminated == at = "done" /\ pc = "gone" /\ UNCHANGED vars

-----------------------------------------------------------------------------
MainThread == Begin \/ NextQuestion \/ StartTimer \/ Wait \/ Given \/ Judge
              \/ Verdict \/ End \/ Leave \/ TimerCall

User == \E s \in Lines : ReadLine(s)

Next == MainThread \/ User \/ TimerThread \/ OnTimerExpired \/ Tick \/ Terminated

(* Both threads are scheduled, the deadline passes, and the user keeps      *)
(* typing lines, acceptable or not: getline blocks, and no timer interrupts *)
(* it.                                                                      *)
Fairness ==
  /\ WF_vars(MainThread) /\ WF_vars(User)
  /\ WF_vars(TimerThread) /\ WF_vars(OnTimerExpired)

Spec == Init /\ [][Next]_vars /\ Fairness

-----------------------------------------------------------------------------
(* Bullet mode: when Stop has returned, the answer is dropped (line 114)    *)
(* exactly if it did not beat the deadline in the timer.  vTimedOut is one  *)
(* flag for the timers of all the questions: the callback of this question  *)
(* has stored it by then, because Stop waits for it in either branch, and a *)
(* late one of the previous question never reaches it.                      *)
VerdictIsTheRace ==
  bullet /\ at = "judge" /\ pc = "idle" => (vTimedOut <=> "ANSWERED" \notin asked)

(* The other modes record an answer whose line was typed before the         *)
(* deadline was noticed, and then stop: at most one answer, given after the *)
(* time was up, ever counts.                                                *)
AtMostOneLate == late <= 1

(* The multi-option loop is left only through a timeout (line 182), and     *)
(* bullet mode drops the answer of a question that timed out: together they *)
(* record no answer at all.                                                 *)
MultiBulletRecordsNothing == bullet /\ multi => res = EmptyResult

(* The quiz ends: every question is answered or times out, and no call on   *)
(* the timer, its destructor included, blocks for ever.                     *)
QuizEnds == <>(at = "done" /\ pc = "gone")
=============================================================================

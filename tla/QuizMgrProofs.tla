--------------------------- MODULE QuizMgrProofs ---------------------------
(***************************************************************************)
(* Proofs about the single-user quiz, for any number of questions, any     *)
(* lines typed and both settings of the mode and of multiple answers.  The *)
(* invariant of QuestionTimerProofs is used for the timer inside.          *)
(***************************************************************************)
EXTENDS QuizMgr, GradingProofs

TP == INSTANCE QuestionTimerProofs WITH HasForceCallback <- FALSE,
                                        MaxStarts <- NumQuestions

LocalTypes ==
  /\ bullet \in BOOLEAN /\ multi \in BOOLEAN /\ vTimedOut \in BOOLEAN
  /\ at \in Places
  /\ ques \in 0..NumQuestions
  /\ selected \subseteq Options /\ answer \subseteq Options
  /\ res \in Results
  /\ clock \in 0..MaxTime
  /\ elapsed \in Nat /\ late \in Nat

(* The places between the Start and the verdict of one question.            *)
InQuestion == at \in {"wait", "input", "given", "judge"}

AskedInv == at = "start" \/ InQuestion => ques \in Questions

(* What the timer thread runs, there being no force-stop callback.          *)
CallbackInv ==
  /\ tm.thread # "forceCb"
  /\ tm.thread = "timeoutCb" => "timeoutCb" \in fired

(* Bullet mode: outside a question there is no timer thread, so no callback *)
(* can set the flag that was reset for the next question.                   *)
BetweenInv ==
  bullet =>
    /\ at \in {"begin", "next", "start", "verdict", "end"} => pc = "idle"
    /\ at \in {"begin", "next", "start", "judge", "verdict", "end"} /\ pc = "idle"
         => tm.thread = "none"
    /\ at \in {"input", "given"} => pc = "idle"
    /\ at = "wait" => pc \in {"idle", "flags", "spawn"}
    /\ at = "judge" /\ pc # "idle" => pc \in {"join", "joinLocked"} /\ call = "Stop"
    /\ at = "start" \/ (at = "wait" /\ pc \in {"flags", "spawn"}) => ~vTimedOut

(* Bullet mode, once the timer of the question has been started: the flag   *)
(* is this timer's, and an outcome that is decided is asked for or fired.   *)
FlagInv ==
  bullet /\ InQuestion /\ pc \notin {"flags", "spawn"} =>
    /\ vTimedOut <=> "timeoutCb" \in fired /\ tm.thread # "timeoutCb"
    /\ "FORCE_STOPPED" \notin asked
    /\ tm.thread \notin {"spawned", "waiting"} => "ANSWERED" \in asked \/ "timeoutCb" \in fired

LateInv ==
  /\ late <= 1
  /\ late # 0 => ~bullet /\ vTimedOut /\ at \in {"verdict", "end", "leave", "done"}

MultiInv ==
  /\ multi /\ at \in {"given", "judge"} => vTimedOut
  /\ MultiBulletRecordsNothing

MainInv == /\ LocalTypes /\ AskedInv /\ CallbackInv /\ BetweenInv
           /\ FlagInv /\ LateInv /\ MultiInv

IInv == TP!IInv /\ MainInv

LEMMA TimerAssumption == TP!QuestionTimerAssumption
  BY GradingAssumption DEF TP!QuestionTimerAssumption

-----------------------------------------------------------------------------
(* The steps of the timer inside are those of QuestionTimerProofs. *)
LEMMA SameEnterStop == ASSUME NEW c, T!EnterStop(c) PROVE TP!EnterStop(c)
  BY DEF T!EnterStop, TP!EnterStop, T!SignalAnswered, TP!SignalAnswered, T!Joinable,
         TP!Joinable, T!Notify, TP!Notify

LEMMA SameDestroy == ASSUME T!EnterForceStop("Destroy") PROVE TP!EnterForceStop("Destroy")
  BY DEF T!EnterForceStop, TP!EnterForceStop, T!SignalForced, TP!SignalForced, T!Joinable,
         TP!Joinable, T!Notify, TP!Notify

LEMMA SameOwnerStep == ASSUME T!OwnerStep PROVE TP!OwnerStep
  BY DEF T!OwnerStep, TP!OwnerStep, T!Join, TP!Join, T!Joined, TP!Joined, T!Goto, TP!Goto,
         T!AfterJoin, TP!AfterJoin, T!StartFlags, TP!StartFlags, T!ResetFlags,
         TP!ResetFlags, T!StartThread, TP!StartThread, T!Spawn, TP!Spawn

LEMMA SameThreadEnter == ASSUME T!ThreadEnter PROVE TP!ThreadEnter
  BY DEF T!ThreadEnter, TP!ThreadEnter, T!mtxFree, TP!mtxFree, T!Enter, TP!Enter,
         T!Decide, TP!Decide

LEMMA SameDeadline == ASSUME T!Deadline PROVE TP!Deadline
  BY DEF T!Deadline, TP!Deadline, T!Expired, TP!Expired

LEMMA SameThreadWake == ASSUME T!ThreadWake PROVE TP!ThreadWake
  BY DEF T!ThreadWake, TP!ThreadWake, T!mtxFree, TP!mtxFree, T!MayWake, TP!MayWake,
         T!Decide, TP!Decide

LEMMA SameCallbackReturns == ASSUME T!CallbackReturns PROVE TP!CallbackReturns
  BY DEF T!CallbackReturns, TP!CallbackReturns, T!HoldsCallback, TP!HoldsCallback,
         T!CallbackDone, TP!CallbackDone

LEMMA InitIInv == Init => IInv
  <1>. SUFFICES ASSUME Init PROVE IInv
    OBVIOUS
  <1>1. TP!IInv
    <2>1. TP!Init
      BY DEF Init, T!Init, TP!Init, T!NewTimer, TP!NewTimer
    <2>. QED
      BY <2>1, TimerAssumption, TP!InitIInv
  <1>2. MainInv
    <2>1. LocalTypes
      <3>1. ques \in 0..NumQuestions /\ clock \in 0..MaxTime /\ elapsed \in Nat /\ late \in Nat
        BY GradingAssumption, QuizMgrAssumption DEF Init
      <3>2. bullet \in BOOLEAN /\ multi \in BOOLEAN /\ vTimedOut \in BOOLEAN
        BY DEF Init
      <3>3. /\ at \in Places /\ selected \subseteq Options /\ answer \subseteq Options
            /\ res \in Results
        BY EmptyResultFacts DEF Init, Places
      <3>. QED
        BY <3>1, <3>2, <3>3 DEF LocalTypes
    <2>2. tm.thread = "none" /\ pc = "idle"
      BY DEF Init, T!Init, T!NewTimer
    <2>. QED
      BY <2>1, <2>2
         DEF Init, MainInv, AskedInv, InQuestion, CallbackInv, BetweenInv, FlagInv, LateInv,
             MultiInv, MultiBulletRecordsNothing
  <1>. QED
    BY <1>1, <1>2 DEF IInv

-----------------------------------------------------------------------------
(* What the calls of the main thread do to the timer. *)
LEMMA TimerFacts ==
  ASSUME TP!IInv
  PROVE  /\ tm.thread \in {"none", "spawned", "waiting", "timeoutCb", "forceCb", "done"}
         /\ tm.running \in BOOLEAN
         /\ asked \subseteq {"ANSWERED", "FORCE_STOPPED"}
         /\ pc \in {"idle", "joinLocked", "join", "flags", "spawn", "gone"}
         /\ tm.running /\ pc # "spawn" <=> tm.thread \in {"spawned", "waiting"}
         /\ tm.thread \in {"spawned", "waiting"} => fired = {}
         /\ pc \in {"flags", "spawn"} => tm.thread = "none"
         /\ asked # {} => "timeoutCb" \notin fired
         /\ tm.answered <=> "ANSWERED" \in asked
         /\ tm.forced <=> "FORCE_STOPPED" \in asked
  BY DEF TP!IInv, TP!TypeOK, TP!Timer, TP!Threads, TP!Pcs, TP!RunningIsExact, TP!FlagsInv,
         TP!OwnerInv, TP!OneOutcome, TP!Joinable

LEMMA StopEffect ==
  ASSUME TP!IInv, NEW c, T!EnterStop(c)
  PROVE  /\ TP!IInv'
         /\ pc = "idle" /\ c \in {"Start", "Stop"}
         /\ tm'.thread = tm.thread /\ fired' = fired
         /\ IF tm.thread \in {"spawned", "waiting"} THEN asked' = asked \cup {"ANSWERED"}
            ELSE asked' = asked
         /\ IF tm.thread # "none" THEN pc' \in {"join", "joinLocked"} /\ call' = c
            ELSE pc' = IF c = "Start" THEN "flags" ELSE "idle"
  <1>1. TP!EnterStop(c)
    BY SameEnterStop
  <1>2. c \in TP!Calls /\ pc = "idle" /\ c \in {"Start", "Stop"}
    BY <1>1 DEF TP!EnterStop, TP!Calls
  <1>3. TP!IInv'
    BY <1>1, <1>2, TimerAssumption, TP!EnterStopIInv
  <1>4. tm'.thread = tm.thread /\ fired' = fired
    BY <1>1 DEF TP!EnterStop, TP!SignalAnswered, TP!Notify, TP!IInv, TP!TypeOK, TP!Timer
  <1>5. IF tm.thread \in {"spawned", "waiting"} THEN asked' = asked \cup {"ANSWERED"}
        ELSE asked' = asked
    BY <1>1, <1>2, TimerFacts DEF TP!EnterStop
  <1>6. IF tm.thread # "none" THEN pc' \in {"join", "joinLocked"} /\ call' = c
        ELSE pc' = IF c = "Start" THEN "flags" ELSE "idle"
    BY <1>1, <1>2, TimerFacts DEF TP!EnterStop, TP!Joinable
  <1>. QED
    BY <1>2, <1>3, <1>4, <1>5, <1>6

LEMMA DestroyEffect ==
  ASSUME TP!IInv, T!EnterForceStop("Destroy")
  PROVE  TP!IInv' /\ tm'.thread = tm.thread /\ fired' = fired
  <1>1. TP!EnterForceStop("Destroy") /\ "Destroy" \in TP!Calls
    BY SameDestroy DEF TP!Calls
  <1>2. TP!IInv'
    BY <1>1, TimerAssumption, TP!EnterForceStopIInv
  <1>3. tm'.thread = tm.thread /\ fired' = fired
    BY <1>1 DEF TP!EnterForceStop, TP!SignalForced, TP!Notify, TP!IInv, TP!TypeOK, TP!Timer
  <1>. QED
    BY <1>2, <1>3

LEMMA Unmoved == ASSUME TP!IInv, UNCHANGED timerVars PROVE TP!IInv'
  <1>1. UNCHANGED TP!vars
    BY DEF timerVars, TP!vars
  <1>. QED
    BY <1>1, TimerAssumption, TP!NextIInv

-----------------------------------------------------------------------------
(* The main thread: its own variables, then the flag and the timer. *)
Opens == Begin \/ NextQuestion \/ StartTimer
Asks  == Wait \/ (\E s \in Lines : ReadLine(s))
Closes == Given \/ Judge \/ Verdict \/ End \/ Leave

LEMMA LocalTypesStep ==
  ASSUME IInv, Opens \/ Asks \/ Closes
  PROVE  LocalTypes'
  <1>. USE DEF At
  <1>1. LocalTypes /\ AskedInv
    BY DEF IInv, MainInv
  <1>2. bullet' = bullet /\ multi' = multi /\ clock' = clock
    BY DEF Opens, Asks, Closes, Begin, NextQuestion, StartTimer, Wait, ReadLine, Given, Judge,
           Verdict, End, Leave
  <1>3. CASE Opens
    <2>1. ques' \in 0..NumQuestions
      BY <1>1, <1>3, GradingAssumption DEF Opens, Begin, NextQuestion, StartTimer, LocalTypes
    <2>2. at' \in Places /\ vTimedOut' \in BOOLEAN
      BY <1>1, <1>3 DEF Opens, Begin, NextQuestion, StartTimer, LocalTypes, Places
    <2>3. UNCHANGED <<userVars, answer>> /\ selected' \subseteq Options
      BY <1>1, <1>3 DEF Opens, Begin, NextQuestion, StartTimer, LocalTypes, waitVars
    <2>. QED
      BY <1>1, <1>2, <2>1, <2>2, <2>3 DEF LocalTypes, userVars
  <1>4. CASE Asks
    <2>1. at' \in Places /\ UNCHANGED <<ques, vTimedOut, userVars>>
      BY <1>4 DEF Asks, Wait, ReadLine, Places
    <2>2. selected' \subseteq Options /\ answer' \subseteq Options
      BY <1>1, <1>4, SelectedType, QuizMgrAssumption DEF Asks, Wait, ReadLine, LocalTypes, waitVars
    <2>. QED
      BY <1>1, <1>2, <2>1, <2>2 DEF LocalTypes, userVars
  <1>5. CASE Closes
    <2>1. at' \in Places /\ UNCHANGED <<ques, vTimedOut, waitVars>>
      BY <1>5 DEF Closes, Given, Judge, Record, Verdict, End, Leave, Places
    <2>2. elapsed' \in Nat /\ late' \in Nat
      <3>1. elapsed \in Nat /\ late \in Nat /\ clock \in Nat
        BY <1>1, QuizMgrAssumption DEF LocalTypes
      <3>. QED
        BY <1>5, <3>1 DEF Closes, Given, Judge, Record, Verdict, End, Leave, userVars
    <2>3. res' \in Results
      <3>1. CASE res' = res
        BY <1>1, <3>1 DEF LocalTypes
      <3>2. CASE res' = AddAnswer(res, ques, answer) /\ at \in {"given", "judge"}
        BY <1>1, <3>2, AddAnswerType DEF LocalTypes, AskedInv, InQuestion
      <3>. QED
        BY <1>5, <3>1, <3>2 DEF Closes, Given, Judge, Record, Verdict, End, Leave, userVars
    <2>. QED
      BY <1>1, <1>2, <2>1, <2>2, <2>3 DEF LocalTypes, waitVars
  <1>. QED
    BY <1>3, <1>4, <1>5

(* What MainInv says beyond the types. *)
Linkage == AskedInv /\ CallbackInv /\ BetweenInv /\ FlagInv /\ LateInv /\ MultiInv

LEMMA OpensStep ==
  ASSUME IInv, Opens
  PROVE  TP!IInv' /\ Linkage'
  <1>. USE DEF At
  <1>1. TP!IInv /\ LocalTypes /\ Linkage
    BY DEF IInv, MainInv, Linkage
  <1>. USE DEF LocalTypes, Linkage, AskedInv, InQuestion, CallbackInv, BetweenInv, FlagInv,
               LateInv, MultiInv, MultiBulletRecordsNothing, userVars
  <1>2. CASE Begin
    <2>1. CASE bullet
      <3>1. TP!IInv' /\ UNCHANGED timerVars
        BY <1>1, <1>2, <2>1, Unmoved DEF Begin
      <3>. QED
        BY <1>1, <1>2, <2>1, <3>1 DEF Begin, timerVars
    <2>2. CASE ~bullet
      <3>1. T!EnterStop("Start")
        BY <1>2, <2>2 DEF Begin
      <3>2. TP!IInv' /\ tm'.thread = tm.thread /\ fired' = fired
        BY <1>1, <3>1, StopEffect
      <3>. QED
        BY <1>1, <1>2, <2>2, <3>2 DEF Begin
    <2>. QED
      BY <2>1, <2>2
  <1>3. CASE NextQuestion
    <2>1. TP!IInv' /\ UNCHANGED timerVars
      BY <1>1, <1>3, Unmoved DEF NextQuestion
    <2>2. AskedInv'
      BY <1>1, <1>3, GradingAssumption DEF NextQuestion, Questions
    <2>3. CallbackInv' /\ BetweenInv' /\ FlagInv'
      BY <1>1, <1>3, <2>1 DEF NextQuestion, timerVars
    <2>4. LateInv' /\ MultiInv'
      BY <1>1, <1>3 DEF NextQuestion
    <2>. QED
      BY <2>1, <2>2, <2>3, <2>4
  <1>4. CASE StartTimer
    <2>1. /\ TP!IInv' /\ tm'.thread = tm.thread /\ fired' = fired
          /\ tm.thread = "none" => pc' = "flags"
      BY <1>1, <1>4, StopEffect DEF StartTimer
    <2>2. AskedInv' /\ CallbackInv' /\ FlagInv'
      BY <1>1, <1>4, <2>1 DEF StartTimer
    <2>3. BetweenInv'
      BY <1>1, <1>4, <2>1 DEF StartTimer
    <2>4. LateInv' /\ MultiInv'
      BY <1>1, <1>4 DEF StartTimer
    <2>. QED
      BY <2>1, <2>2, <2>3, <2>4
  <1>. QED
    BY <1>2, <1>3, <1>4 DEF Opens

LEMMA AsksStep ==
  ASSUME IInv, Asks
  PROVE  TP!IInv' /\ Linkage'
  <1>. USE DEF At
  <1>1. TP!IInv /\ LocalTypes /\ Linkage
    BY DEF IInv, MainInv, Linkage
  <1>. USE DEF LocalTypes, Linkage, AskedInv, InQuestion, CallbackInv, BetweenInv, FlagInv,
               LateInv, MultiInv, MultiBulletRecordsNothing, userVars
  <1>2. TP!IInv' /\ UNCHANGED timerVars
    BY <1>1, Unmoved DEF Asks, Wait, ReadLine
  <1>3. /\ at \in {"wait", "input"} /\ at' \in {"wait", "input", "given"}
        /\ multi /\ at' = "given" => vTimedOut
        /\ UNCHANGED <<bullet, multi, ques, vTimedOut, userVars>>
    BY DEF Asks, Wait, ReadLine
  <1>4. pc = "idle" /\ UNCHANGED <<tm, pc, call, asked, fired>>
    BY <1>2 DEF Asks, Wait, ReadLine, timerVars
  <1>. QED
    BY <1>1, <1>2, <1>3, <1>4

LEMMA ClosesStep ==
  ASSUME IInv, Closes
  PROVE  TP!IInv' /\ Linkage'
  <1>. USE DEF At
  <1>1. TP!IInv /\ LocalTypes /\ Linkage
    BY DEF IInv, MainInv, Linkage
  <1>. USE DEF LocalTypes, Linkage, AskedInv, InQuestion, CallbackInv, BetweenInv, FlagInv,
               LateInv, MultiInv, MultiBulletRecordsNothing, userVars
  <1>2. CASE Given /\ bullet
    <2>1. T!EnterStop("Stop") /\ UNCHANGED <<bullet, multi, ques, vTimedOut, userVars>>
          /\ at = "given" /\ at' = "judge" /\ pc = "idle"
      BY <1>2 DEF Given
    <2>2. /\ TP!IInv' /\ tm'.thread = tm.thread /\ fired' = fired
          /\ IF tm.thread \in {"spawned", "waiting"} THEN asked' = asked \cup {"ANSWERED"}
             ELSE asked' = asked
          /\ IF tm.thread # "none" THEN pc' \in {"join", "joinLocked"} /\ call' = "Stop"
             ELSE pc' = "idle"
      BY <1>1, <2>1, StopEffect
    <2>3. AskedInv' /\ CallbackInv' /\ LateInv' /\ MultiInv'
      BY <1>1, <2>1, <2>2
    <2>4. BetweenInv'
      BY <1>1, <1>2, <2>1, <2>2
    <2>5. FlagInv'
      BY <1>1, <1>2, <2>1, <2>2
    <2>. QED
      BY <2>2, <2>3, <2>4, <2>5
  <1>3. CASE Given /\ ~bullet
    <2>1. UNCHANGED timerVars /\ TP!IInv'
      BY <1>1, <1>3, Unmoved DEF Given
    <2>2. /\ at = "given" /\ at' = "verdict" /\ late' = IF vTimedOut THEN late + 1 ELSE late
          /\ UNCHANGED <<bullet, multi, ques, vTimedOut>>
      BY <1>3 DEF Given, Record
    <2>. QED
      BY <1>1, <1>3, <2>1, <2>2 DEF timerVars
  <1>4. CASE Judge
    <2>1. UNCHANGED timerVars /\ TP!IInv'
      BY <1>1, <1>4, Unmoved DEF Judge
    <2>2. at = "judge" /\ pc = "idle" /\ UNCHANGED <<bullet, multi, ques, vTimedOut>>
      BY <1>4 DEF Judge
    <2>3. \/ at' = "next" /\ UNCHANGED userVars
          \/ at' = "verdict" /\ ~vTimedOut /\ UNCHANGED late
      BY <1>4 DEF Judge, Record
    <2>. QED
      BY <1>1, <2>1, <2>2, <2>3 DEF timerVars
  <1>5. CASE Verdict
    <2>1. UNCHANGED timerVars /\ TP!IInv'
      BY <1>1, <1>5, Unmoved DEF Verdict
    <2>. QED
      BY <1>1, <1>5, <2>1 DEF Verdict, timerVars
  <1>6. CASE End
    <2>1. CASE bullet
      <3>1. UNCHANGED timerVars /\ TP!IInv'
        BY <1>1, <1>6, <2>1, Unmoved DEF End
      <3>. QED
        BY <1>1, <1>6, <2>1, <3>1 DEF End, timerVars
    <2>2. CASE ~bullet
      <3>1. TP!IInv' /\ tm'.thread = tm.thread /\ fired' = fired
        BY <1>1, <1>6, <2>2, StopEffect DEF End
      <3>. QED
        BY <1>1, <1>6, <2>2, <3>1 DEF End
    <2>. QED
      BY <2>1, <2>2
  <1>7. CASE Leave
    <2>1. TP!IInv' /\ tm'.thread = tm.thread /\ fired' = fired
      BY <1>1, <1>7, DestroyEffect DEF Leave
    <2>2. pc' # "flags" /\ pc' # "spawn"
      BY <1>7 DEF Leave, T!EnterForceStop
    <2>. QED
      BY <1>1, <1>7, <2>1, <2>2 DEF Leave
  <1>. QED
    BY <1>2, <1>3, <1>4, <1>5, <1>6, <1>7 DEF Closes

-----------------------------------------------------------------------------
(* Inside the timer's calls, and the timer thread. *)
LEMMA TimerCallStep ==
  ASSUME IInv, TimerCall
  PROVE  TP!IInv' /\ Linkage'
  <1>. USE DEF LocalTypes, AskedInv, InQuestion, CallbackInv, BetweenInv, FlagInv,
               LateInv, MultiInv, MultiBulletRecordsNothing, Others, userVars, waitVars
  <1>1. TP!IInv /\ LocalTypes /\ Linkage
    BY DEF IInv, MainInv, Linkage
  <1>2. TP!OwnerStep /\ UNCHANGED <<Others, vTimedOut>>
    BY SameOwnerStep DEF TimerCall
  <1>3. TP!IInv'
    BY <1>1, <1>2, TimerAssumption, TP!OwnerStepIInv
  <1>4. AskedInv' /\ LateInv' /\ MultiInv'
    BY <1>1, <1>2 DEF Linkage
  <1>5. CASE TP!Join
    <2>1. /\ pc \in {"join", "joinLocked"} /\ tm.thread = "done" /\ tm'.thread = "none"
          /\ UNCHANGED <<asked, fired>>
      BY <1>1, <1>5 DEF TP!Join, TP!Joined, TP!IInv, TP!TypeOK, TP!Timer
    <2>2. pc' \in {"idle", "flags", "gone"} /\ (call = "Stop" => pc' = "idle")
      BY <1>5 DEF TP!Join, TP!Goto, TP!AfterJoin
    <2>3. CallbackInv' /\ BetweenInv' /\ FlagInv'
      BY <1>1, <1>2, <2>1, <2>2 DEF Linkage
    <2>. QED
      BY <1>3, <1>4, <2>3 DEF Linkage
  <1>6. CASE TP!StartFlags
    <2>1. /\ pc = "flags" /\ pc' = "spawn" /\ tm'.thread = tm.thread /\ tm.thread = "none"
      BY <1>1, <1>6, TimerFacts
         DEF TP!StartFlags, TP!ResetFlags, TP!Goto, TP!IInv, TP!TypeOK, TP!Timer
    <2>2. CallbackInv' /\ BetweenInv' /\ FlagInv'
      BY <1>1, <1>2, <2>1 DEF Linkage
    <2>. QED
      BY <1>3, <1>4, <2>2 DEF Linkage
  <1>7. CASE TP!StartThread
    <2>1. /\ pc = "spawn" /\ pc' = "idle" /\ tm'.thread = "spawned"
          /\ UNCHANGED <<asked, fired>>
      BY <1>1, <1>7 DEF TP!StartThread, TP!Spawn, TP!Goto, TP!IInv, TP!TypeOK, TP!Timer
    <2>2. tm.running /\ fired = {} /\ asked = {}
      BY <1>1, <2>1 DEF TP!IInv, TP!FlagsInv
    <2>3. CallbackInv' /\ BetweenInv' /\ FlagInv'
      BY <1>1, <1>2, <2>1, <2>2 DEF Linkage
    <2>. QED
      BY <1>3, <1>4, <2>3 DEF Linkage
  <1>. QED
    BY <1>2, <1>5, <1>6, <1>7 DEF TP!OwnerStep

LEMMA TimerThreadStep ==
  ASSUME IInv, TimerThread
  PROVE  TP!IInv' /\ Linkage'
  <1>. USE DEF LocalTypes, AskedInv, InQuestion, CallbackInv, BetweenInv, FlagInv,
               LateInv, MultiInv, MultiBulletRecordsNothing, Others, userVars, waitVars
  <1>1. TP!IInv /\ LocalTypes /\ Linkage
    BY DEF IInv, MainInv, Linkage
  <1>2. /\ TP!ThreadEnter \/ TP!Deadline \/ TP!ThreadWake
        /\ UNCHANGED <<Others, vTimedOut>>
    BY SameThreadEnter, SameDeadline, SameThreadWake DEF TimerThread
  <1>3. TP!IInv'
    BY <1>1, <1>2, TimerAssumption, TP!ThreadStepIInv DEF TP!ThreadStep
  <1>4. AskedInv' /\ LateInv' /\ MultiInv'
    BY <1>1, <1>2 DEF Linkage
  <1>5. tm \in TP!Timer
    BY <1>1 DEF TP!IInv, TP!TypeOK
  <1>6. UNCHANGED <<pc, call, asked>> /\ tm.thread \in {"spawned", "waiting"}
    BY <1>2 DEF TP!ThreadEnter, TP!Deadline, TP!ThreadWake, TP!MayWake
  <1>7. CASE tm'.thread \in {"spawned", "waiting"} /\ fired' = fired
    <2>1. CallbackInv' /\ BetweenInv' /\ FlagInv'
      BY <1>1, <1>2, <1>6, <1>7, TimerFacts DEF Linkage
    <2>. QED
      BY <1>3, <1>4, <2>1 DEF Linkage
  <1>8. CASE /\ tm' = TP!Decide(tm, FALSE)
             /\ fired' = fired \cup ({tm'.thread} \cap {"timeoutCb", "forceCb"})
    <2>1. /\ tm'.thread \in {"timeoutCb", "done"}
          /\ tm'.thread = "done" => tm.forced \/ tm.answered
      BY <1>5, <1>8 DEF TP!Decide, TP!Timer
    <2>2. fired' = IF tm'.thread = "timeoutCb" THEN {"timeoutCb"} ELSE {}
      BY <1>1, <1>6, <1>8, <2>1, TimerFacts
    <2>3. CallbackInv' /\ BetweenInv' /\ FlagInv'
      BY <1>1, <1>2, <1>6, <2>1, <2>2, TimerFacts DEF Linkage
    <2>. QED
      BY <1>3, <1>4, <2>3 DEF Linkage
  <1>9. CASE TP!Deadline
    BY <1>5, <1>7, <1>9 DEF TP!Deadline, TP!Expired, TP!Timer
  <1>10. CASE TP!ThreadWake
    BY <1>8, <1>10 DEF TP!ThreadWake
  <1>11. CASE TP!ThreadEnter
    BY <1>5, <1>7, <1>8, <1>11 DEF TP!ThreadEnter, TP!Enter, TP!Timer
  <1>. QED
    BY <1>2, <1>9, <1>10, <1>11

LEMMA OnTimerExpiredStep ==
  ASSUME IInv, OnTimerExpired
  PROVE  TP!IInv' /\ Linkage' /\ LocalTypes'
  <1>. USE DEF LocalTypes, AskedInv, InQuestion, CallbackInv, BetweenInv, FlagInv,
               LateInv, MultiInv, MultiBulletRecordsNothing, Others, userVars, waitVars
  <1>1. TP!IInv /\ LocalTypes /\ Linkage
    BY DEF IInv, MainInv, Linkage
  <1>2. TP!CallbackReturns /\ vTimedOut' = TRUE /\ UNCHANGED Others
    BY SameCallbackReturns DEF OnTimerExpired
  <1>3. TP!IInv'
    BY <1>1, <1>2, TimerAssumption, TP!ThreadStepIInv DEF TP!ThreadStep
  <1>4. /\ tm.thread = "timeoutCb" /\ tm'.thread = "done"
        /\ UNCHANGED <<pc, call, asked, fired>>
    BY <1>1, <1>2
       DEF TP!CallbackReturns, TP!HoldsCallback, TP!CallbackDone, TP!IInv, TP!TypeOK, TP!Timer,
           Linkage
  <1>5. AskedInv' /\ LateInv' /\ MultiInv' /\ LocalTypes'
    BY <1>1, <1>2 DEF Linkage
  <1>6. CallbackInv' /\ BetweenInv' /\ FlagInv'
    BY <1>1, <1>2, <1>4, TimerFacts DEF Linkage
  <1>. QED
    BY <1>3, <1>5, <1>6 DEF Linkage

LEMMA NextIInv == IInv /\ [Next]_vars => IInv'
  <1>. SUFFICES ASSUME IInv, [Next]_vars PROVE IInv'
    OBVIOUS
  <1>1. TP!IInv' /\ Linkage' /\ LocalTypes' => IInv'
    BY DEF IInv, MainInv, Linkage
  <1>2. CASE Opens \/ Asks \/ Closes
    BY <1>1, <1>2, LocalTypesStep, OpensStep, AsksStep, ClosesStep
  <1>3. CASE TimerCall \/ TimerThread
    <2>1. LocalTypes'
      BY <1>3 DEF TimerCall, TimerThread, Others, userVars, waitVars, IInv, MainInv, LocalTypes
    <2>. QED
      BY <1>1, <1>3, <2>1, TimerCallStep, TimerThreadStep
  <1>4. CASE OnTimerExpired
    BY <1>1, <1>4, OnTimerExpiredStep
  <1>5. CASE Tick \/ UNCHANGED vars
    <2>1. UNCHANGED <<timerVars, bullet, multi, at, ques, vTimedOut, waitVars, userVars>>
      BY <1>5 DEF Tick, vars
    <2>2. TP!IInv'
      BY <2>1, Unmoved DEF IInv
    <2>3. clock' \in 0..MaxTime
      BY <1>5, QuizMgrAssumption DEF Tick, vars, IInv, MainInv, LocalTypes
    <2>4. LocalTypes'
      BY <2>1, <2>3 DEF IInv, MainInv, LocalTypes, waitVars, userVars
    <2>5. Linkage'
      BY <2>1 DEF IInv, MainInv, Linkage, AskedInv, InQuestion, CallbackInv, BetweenInv,
                  FlagInv, LateInv, MultiInv, MultiBulletRecordsNothing, timerVars, userVars
    <2>. QED
      BY <1>1, <2>2, <2>4, <2>5
  <1>. QED
    BY <1>2, <1>3, <1>4, <1>5
       DEF Next, MainThread, User, Opens, Asks, Closes, Terminated

THEOREM Invariance == Spec => []IInv
  BY InitIInv, NextIInv, PTL DEF Spec

-----------------------------------------------------------------------------
(* The timer's types and those of StartQuiz's variables, for any number of  *)
(* questions.                                                               *)
THEOREM TypeCorrect == Spec => []TypeOK
  <1>1. IInv => TypeOK
    <2>1. TP!IInv => T!TypeOK
      BY DEF TP!IInv, TP!TypeOK, T!TypeOK, TP!Timer, T!Timer, TP!Threads, T!Threads,
             TP!TimerStates, T!TimerStates, TP!Pcs, T!Pcs, TP!Calls, T!Calls
    <2>. QED
      BY <2>1 DEF IInv, MainInv, LocalTypes, TypeOK
  <1>. QED
    BY <1>1, Invariance, PTL

(* Bullet mode drops an answer exactly if it lost the race in the timer:    *)
(* the one flag shared by the timers of all questions is never stale.       *)
THEOREM VerdictCorrect == Spec => []VerdictIsTheRace
  <1>1. IInv => VerdictIsTheRace
    <2>. SUFFICES ASSUME IInv, bullet, at = "judge", pc = "idle"
                  PROVE  vTimedOut <=> "ANSWERED" \notin asked
      BY DEF VerdictIsTheRace
    <2>1. tm.thread = "none"
      BY DEF IInv, MainInv, BetweenInv
    <2>2. /\ vTimedOut <=> "timeoutCb" \in fired
          /\ "ANSWERED" \in asked \/ "timeoutCb" \in fired
      BY <2>1 DEF IInv, MainInv, FlagInv, InQuestion
    <2>3. vTimedOut \in BOOLEAN /\ (asked # {} => "timeoutCb" \notin fired)
      BY TimerFacts DEF IInv, MainInv, LocalTypes
    <2>. QED
      BY <2>2, <2>3
  <1>. QED
    BY <1>1, Invariance, PTL

(* At most one answer of a quiz counts although it was given too late.      *)
THEOREM OneLateAnswer == Spec => []AtMostOneLate
  <1>1. IInv => AtMostOneLate
    BY DEF IInv, MainInv, LateInv, AtMostOneLate
  <1>. QED
    BY <1>1, Invariance, PTL

(* Bullet mode with multiple answers never records an answer, whatever is   *)
(* typed and whatever the bank.                                             *)
THEOREM NothingIsRecorded == Spec => []MultiBulletRecordsNothing
  <1>1. IInv => MultiBulletRecordsNothing
    BY DEF IInv, MainInv, MultiInv
  <1>. QED
    BY <1>1, Invariance, PTL

-----------------------------------------------------------------------------
(* Every step of the program is a step of its timer, or leaves it alone.    *)
LEMMA TimerStep == ASSUME IInv, [Next]_vars PROVE [TP!Next]_(TP!vars)
  <1>1. CASE UNCHANGED timerVars
    BY <1>1 DEF timerVars, TP!vars
  <1>2. ASSUME NEW c \in {"Start", "Stop"}, T!EnterStop(c) PROVE TP!Next
    <2>1. TP!EnterStop(c) /\ c \in TP!Calls
      BY <1>2, SameEnterStop DEF TP!Calls
    <2>. QED
      BY <2>1 DEF TP!Next, TP!OwnerCall
  <1>3. ASSUME T!EnterForceStop("Destroy") PROVE TP!Next
    <2>1. TP!EnterForceStop("Destroy") /\ "Destroy" \in TP!Calls
      BY <1>3, SameDestroy DEF TP!Calls
    <2>. QED
      BY <2>1 DEF TP!Next, TP!OwnerCall
  <1>4. CASE TimerCall \/ TimerThread \/ OnTimerExpired
    BY <1>4, SameOwnerStep, SameThreadEnter, SameDeadline, SameThreadWake, SameCallbackReturns
       DEF TimerCall, TimerThread, OnTimerExpired, TP!Next, TP!ThreadStep
  <1>5. CASE Begin \/ StartTimer \/ Given \/ End
    BY <1>1, <1>2, <1>5 DEF Begin, StartTimer, Given, End
  <1>6. CASE Leave
    BY <1>3, <1>6 DEF Leave
  <1>7. CASE NextQuestion \/ Wait \/ Judge \/ Verdict \/ Tick \/ (\E s \in Lines : ReadLine(s))
    BY <1>1, <1>7 DEF NextQuestion, Wait, Judge, Verdict, Tick, ReadLine
  <1>8. CASE UNCHANGED vars
    BY <1>1, <1>8 DEF vars
  <1>. QED
    BY <1>4, <1>5, <1>6, <1>7, <1>8 DEF Next, MainThread, User, Terminated

(* The program uses its timer as a OneShot, in every mode and for any       *)
(* number of questions: no callback is cut off by the Stop, the Start or    *)
(* the destructor that follows it, and each question has one outcome.       *)
THEOREM TimerIsOneShot == Spec => TP!ImplementsOneShot
  <1>1. Init => TP!Init
    BY DEF Init, T!Init, TP!Init, T!NewTimer, TP!NewTimer
  <1>2. IInv /\ [Next]_vars => [TP!Next]_(TP!vars)
    BY TimerStep
  <1>3. TP!Init /\ [][TP!Next]_(TP!vars) => TP!ImplementsOneShot
    BY TimerAssumption, TP!StepsAreOneShot
  <1>. QED
    BY <1>1, <1>2, <1>3, Invariance, PTL DEF Spec
-----------------------------------------------------------------------------
(* What of QuizEnds is a matter of safety: the program is never stuck.      *)

(* Only the destructor's call leaves the program for good. *)
DoneInv ==
  IF at = "done" THEN pc \in {"join", "gone"} /\ call = "Destroy"
  ELSE pc # "gone" /\ call # "Destroy"

LEMMA DoneStep == ASSUME DoneInv, [Next]_vars PROVE DoneInv'
  <1>1. ASSUME UNCHANGED <<pc, call>>, at' = at \/ (at # "done" /\ at' # "done") PROVE DoneInv'
    BY <1>1 DEF DoneInv
  <1>2. ASSUME NEW c \in {"Start", "Stop"}, T!EnterStop(c), at # "done", at' # "done"
        PROVE  DoneInv'
    BY <1>2 DEF T!EnterStop, DoneInv
  <1>3. CASE Leave
    BY <1>3 DEF Leave, T!EnterForceStop, DoneInv
  <1>4. CASE TimerCall
    BY <1>4 DEF TimerCall, Others, T!OwnerStep, T!Join, T!AfterJoin, T!StartFlags, T!StartThread,
                T!Goto, DoneInv
  <1>5. CASE Begin \/ StartTimer \/ Given \/ End
    BY <1>1, <1>2, <1>5 DEF Begin, StartTimer, Given, End, At, Record, timerVars
  <1>6. CASE NextQuestion \/ Wait \/ Judge \/ Verdict \/ (\E s \in Lines : ReadLine(s))
    BY <1>1, <1>6 DEF NextQuestion, Wait, Judge, Verdict, ReadLine, At, Record, timerVars
  <1>7. CASE TimerThread \/ OnTimerExpired
    BY <1>1, <1>7 DEF TimerThread, OnTimerExpired, Others, T!ThreadEnter, T!Deadline,
                      T!ThreadWake, T!CallbackReturns
  <1>8. CASE Tick \/ UNCHANGED vars
    BY <1>1, <1>8 DEF Tick, vars, timerVars
  <1>. QED
    BY <1>3, <1>4, <1>5, <1>6, <1>7, <1>8 DEF Next, MainThread, User, Terminated

(* The quiz has ended, or the main thread is between two calls on its timer *)
(* and goes on (at "input": with the next line typed), or it is in a call   *)
(* that one of the two threads takes nearer to its return.  The callback,   *)
(* which the main thread waits for, never waits for the main thread.        *)
THEOREM NeverStuck ==
  Spec => [](\/ at = "done" /\ pc = "gone"
             \/ at # "done" /\ pc = "idle"
             \/ pc \notin {"idle", "gone"} /\ TP!SomebodyGoesOn /\ TP!Work \in 0..11)
  <1> DEFINE Inv == IInv /\ DoneInv
  <1>1. Init => Inv
    BY InitIInv DEF Init, T!Init, DoneInv
  <1>2. Inv /\ [Next]_vars => Inv'
    BY NextIInv, DoneStep
  <1>3. Inv => \/ at = "done" /\ pc = "gone"
               \/ at # "done" /\ pc = "idle"
               \/ pc \notin {"idle", "gone"} /\ TP!SomebodyGoesOn /\ TP!Work \in 0..11
    <2>1. TP!IInv => TP!SomebodyGoesOn
      BY TimerAssumption, TP!CallsGoOn
    <2>2. TP!Work \in 0..11
      BY TimerAssumption, TP!WorkIsNat
    <2>. QED
      BY <2>1, <2>2 DEF IInv, DoneInv
  <1>. HIDE DEF Inv
  <1>. QED
    BY <1>1, <1>2, <1>3, PTL DEF Spec
=============================================================================

---------------------- MODULE QuizStateManagerProofs ----------------------
(***************************************************************************)
(* Proofs about QuizStateManager, for any number of callers, quizzes and   *)
(* timers, any of its operations and both outcomes of the relock.          *)
(***************************************************************************)
EXTENDS QuizStateManager, TLAPS

(* Nobody calls Stop, so a timer thread always ends in a callback, and a    *)
(* callback ends only with state_mutex in hand.                             *)
TimersInv ==
  \A t \in Timers :
    /\ ~timers[t].answered
    /\ timers[t].thread # "done"
    /\ timers[t].running <=> timers[t].thread \in {"spawned", "waiting"}
    /\ timers[t].thread = "forceCb" => timers[t].forced

(* The places at which an actor holds state_mutex, and joins under it.      *)
Holding == {"arm", "erase", "sweep", "hung"}

PlacesInv ==
  /\ \A a \in Actors : th[a].pc \in Holding <=> mutex = a
  /\ \A a \in Actors : th[a].pc \notin {"arm", "erase", "sweep"} => th[a].victim = NoTimer
  /\ \A t \in Timers :
       \/ /\ timers[t].thread = "timeoutCb" /\ th[t].quiz = quizOf[t]
          /\ th[t].pc = "end" \/ (th[t].pc = "erase" /\ ~alive)
       \/ timers[t].thread = "forceCb" /\ th[t].pc = "notify"
       \/ timers[t].thread \notin {"timeoutCb", "forceCb"} /\ th[t].pc = "idle"

(* A timer in the map is of its quiz and alive, or about to be started; a   *)
(* timer that is alive is in the map, or joined.                            *)
Owned ==
  \A q \in Quizzes : quizTimers[q] # NoTimer =>
    /\ quizOf[quizTimers[q]] = q
    /\ Live(quizTimers[q]) \/ (HolderAt("arm") /\ th[mutex].quiz = q)
Stray  == \A t \in Timers : Live(t) => quizTimers[quizOf[t]] = t \/ Joins(t)
Joined1 == \A t \in Timers : Joins(t) => Live(t)

(* Until somebody joins or sweeps, the states agree with the map and no     *)
(* timer has been told to stop.                                             *)
ArmInv ==
  HolderAt("arm") => /\ quizTimers[th[mutex].quiz] # NoTimer
                     /\ timers[quizTimers[th[mutex].quiz]].thread = "none"
EraseInv == HolderAt("erase") => th[mutex].victim = quizTimers[th[mutex].quiz]
StatesInv ==
  Calm => \A q \in Quizzes : /\ states[q] \in {"NOT_STARTED", "IN_PROGRESS"}
                             /\ Active(q) <=> quizTimers[q] # NoTimer
ForcedInv == Calm => \A t \in Timers : ~timers[t].forced

MapInv == Owned /\ Stray /\ Joined1 /\ ArmInv /\ EraseInv /\ StatesInv /\ ForcedInv

IInv == TypeOK /\ TimersInv /\ PlacesInv /\ (alive => MapInv)

-----------------------------------------------------------------------------
LEMMA IdleFacts ==
  /\ Idle \in Frame
  /\ Idle.pc = "idle" /\ Idle.victim = NoTimer
  BY QuizStateManagerAssumption DEF Idle, FrameOf, Frame, Pcs

LEMMA FrameFacts ==
  ASSUME NEW label \in Pcs, NEW op \in Operations \cup {"none"}, NEW q \in Quizzes
  PROVE  /\ FrameOf(label, op, q) \in Frame
         /\ FrameOf(label, op, q).pc = label /\ FrameOf(label, op, q).quiz = q
         /\ FrameOf(label, op, q).victim = NoTimer
  BY DEF FrameOf, Frame

LEMMA NewTimerFacts ==
  /\ NewTimer \in Timer
  /\ NewTimer.thread = "none" /\ ~NewTimer.answered /\ ~NewTimer.forced /\ ~NewTimer.running
  BY DEF NewTimer, Timer, Threads, TimerStates

LEMMA ForceStoppedFacts ==
  ASSUME NEW tm \in Timer
  PROVE  /\ ForceStopped(tm) \in Timer
         /\ ForceStopped(tm).thread = tm.thread /\ ForceStopped(tm).running = tm.running
         /\ ForceStopped(tm).answered = tm.answered
         /\ tm.forced => ForceStopped(tm).forced
         /\ ~tm.running => ForceStopped(tm) = tm
  BY DEF ForceStopped, SignalForced, Notify, Timer, Threads, TimerStates

LEMMA StartedFacts ==
  /\ Started(NewTimer) \in Timer
  /\ Started(NewTimer).thread = "spawned" /\ Started(NewTimer).running
  /\ ~Started(NewTimer).answered /\ ~Started(NewTimer).forced
  BY NewTimerFacts DEF Started, Spawn, ResetFlags, Timer, Threads, TimerStates

LEMMA InitIInv == Init => IInv
  <1>. SUFFICES ASSUME Init PROVE IInv
    OBVIOUS
  <1>. USE QuizStateManagerAssumption, IdleFacts, NewTimerFacts
  <1>1. TypeOK
    BY DEF Init, TypeOK, QuizStates
  <1>2. TimersInv
    BY DEF Init, TimersInv
  <1>3. PlacesInv
    BY DEF Init, PlacesInv, Holding, Actors
  <1>4. MapInv
    <2>1. \A t \in Timers : ~Live(t) /\ ~timers[t].forced
      BY DEF Init, Live
    <2>. QED
      BY <2>1 DEF Init, MapInv, Owned, Stray, Joined1, ArmInv, EraseInv, StatesInv, ForcedInv,
                  HolderAt, Joins, Active
  <1>. QED
    BY <1>1, <1>2, <1>3, <1>4 DEF IInv

-----------------------------------------------------------------------------
(* A caller's step outside the mutex. *)
LEMMA QuietStep ==
  ASSUME IInv, NEW a \in Callers, NEW f \in Frame, th' = [th EXCEPT ![a] = f],
         th[a].pc \notin Holding, f.pc \notin Holding, f.victim = NoTimer,
         UNCHANGED <<states, quizTimers, timers, quizOf, mutex, alive>>
  PROVE  IInv'
  <1>1. a \in Actors /\ a \notin Timers /\ mutex # a
    BY QuizStateManagerAssumption DEF Actors, IInv, PlacesInv
  <1>2. th \in [Actors -> Frame]
    BY DEF IInv, TypeOK
  <1>3. TypeOK'
    BY <1>1, <1>2 DEF IInv, TypeOK
  <1>4. TimersInv'
    BY DEF IInv, TimersInv
  <1>5. PlacesInv'
    <2>1. th'[a] = f /\ \A b \in Actors : b # a => th'[b] = th[b]
      BY <1>1, <1>2
    <2>. QED
      BY <1>1, <2>1 DEF IInv, PlacesInv, Holding, Actors
  <1>6. alive' => MapInv'
    <2>1. mutex # Nobody => mutex \in Actors /\ th'[mutex] = th[mutex]
      BY <1>1, <1>2 DEF IInv, TypeOK
    <2>. QED
      BY <2>1 DEF IInv, MapInv, Owned, Stray, Joined1, ArmInv, EraseInv, StatesInv,
                  ForcedInv, Calm, HolderAt, Joins, Live, Active
  <1>. QED
    BY <1>3, <1>4, <1>5, <1>6 DEF IInv

LEMMA QuietSteps ==
  ASSUME IInv, NEW a \in Actors, Call(a) \/ Check(a) \/ RegisterClient(a)
  PROVE  IInv'
  <1>1. th \in [Actors -> Frame] /\ a \in Callers /\ th[a] \in Frame
    BY DEF IInv, TypeOK, PlacesInv, Call, Check, RegisterClient, At, Actors
  <1>2. PICK f \in Frame : /\ th' = [th EXCEPT ![a] = f]
                           /\ f.pc \notin Holding /\ f.victim = NoTimer
    <2>1. CASE Call(a)
      <3>1. PICK q \in Quizzes, op \in Operations :
              th' = [th EXCEPT ![a] = FrameOf(EntryPoint[op], op, q)]
        BY <2>1, QuizStateManagerAssumption DEF Call
      <3>2. EntryPoint[op] \in {"start", "check", "end", "endAll"}
        BY DEF EntryPoint
      <3>3. EntryPoint[op] \in Pcs /\ op \in Operations \cup {"none"}
        BY <3>2 DEF Pcs
      <3>4. LET f == FrameOf(EntryPoint[op], op, q)
            IN  f \in Frame /\ f.pc = EntryPoint[op] /\ f.victim = NoTimer
        BY <3>3, FrameFacts
      <3>. QED
        BY <3>1, <3>2, <3>4 DEF Holding
    <2>2. CASE th' = [th EXCEPT ![a] = Idle]
      BY <2>2, IdleFacts DEF Holding
    <2>3. CASE Check(a) /\ Goto(a, "start")
      <3>1. [th[a] EXCEPT !.pc = "start"] \in Frame
        BY <1>1 DEF Frame, Pcs
      <3>2. th[a].victim = NoTimer
        BY <2>3 DEF Check, At, IInv, PlacesInv
      <3>3. /\ [th[a] EXCEPT !.pc = "start"].pc = "start"
            /\ [th[a] EXCEPT !.pc = "start"].victim = NoTimer
        BY <1>1, <3>2 DEF Frame
      <3>4. th' = [th EXCEPT ![a] = [th[a] EXCEPT !.pc = "start"]]
        BY <1>1, <2>3 DEF Goto
      <3>. QED
        BY <3>1, <3>3, <3>4 DEF Holding
    <2>. QED
      BY <2>1, <2>2, <2>3 DEF Check, RegisterClient, Return
  <1>3. th[a].pc \notin Holding
    BY DEF Call, Check, RegisterClient, At, Holding
  <1>4. UNCHANGED <<states, quizTimers, timers, quizOf, mutex, alive>>
    BY DEF Call, Check, RegisterClient
  <1>. QED
    BY <1>1, <1>2, <1>3, <1>4, QuietStep

-----------------------------------------------------------------------------
(* The thread that a holder of the mutex joins never returns, so a holder   *)
(* that goes on joins nobody; and it is no timer.                           *)
LEMMA GoesOnAlone ==
  ASSUME IInv, NEW a \in Actors, alive, th[a].pc \in Holding
  PROVE  /\ mutex = a /\ a # Nobody /\ a \in Callers /\ a \notin Timers
         /\ JoinReturns(a) => th[a].victim = NoTimer /\ AfterJoin(a) = timers
  <1>1. mutex = a /\ a # Nobody
    BY QuizStateManagerAssumption DEF IInv, PlacesInv, Actors
  <1>2. a \notin Timers
    BY DEF IInv, PlacesInv, Holding
  <1>3. ASSUME JoinReturns(a) PROVE th[a].victim = NoTimer
    <2>1. th[a].victim \in Timers \cup {NoTimer}
      BY DEF IInv, TypeOK, Frame
    <2>2. CASE th[a].victim \in Timers
      <3>1. timers[th[a].victim].thread # "done"
        BY <2>2 DEF IInv, TimersInv
      <3>. QED
        BY <1>3, <3>1 DEF JoinReturns
    <2>. QED
      BY <2>1, <2>2
  <1>4. ASSUME th[a].victim = NoTimer PROVE AfterJoin(a) = timers
    <2>1. timers \in [Timers -> Timer]
      BY DEF IInv, TypeOK
    <2>2. \A t \in Timers : t # th[a].victim
      BY <1>4, QuizStateManagerAssumption
    <2>. QED
      BY <2>1, <2>2 DEF AfterJoin
  <1>. QED
    BY <1>1, <1>2, <1>3, <1>4 DEF Actors

(* A change of th at one actor. *)
LEMMA ThChange ==
  ASSUME IInv, NEW a \in Actors, NEW f \in Frame, th' = [th EXCEPT ![a] = f]
  PROVE  /\ th' \in [Actors -> Frame] /\ th'[a] = f
         /\ \A b \in Actors : b # a => th'[b] = th[b]
  BY DEF IInv, TypeOK

LEMMA StartQuizStep ==
  ASSUME IInv, NEW a \in Actors, StartQuiz(a) PROVE IInv'
  <1> DEFINE q == th[a].quiz
             old == quizTimers[q]
             f == [th[a] EXCEPT !.pc = "arm", !.victim = old]
  <1>1. PICK t \in Timers :
          /\ Unused(t) /\ quizOf[t] = q
          /\ quizTimers' = [quizTimers EXCEPT ![q] = t]
          /\ timers' = IF old = NoTimer THEN timers
                       ELSE [timers EXCEPT ![old] = ForceStopped(@)]
          /\ th' = [th EXCEPT ![a].pc = "arm", ![a].victim = old]
    BY DEF StartQuiz
  <1>2. /\ alive /\ th[a].pc = "start" /\ mutex = Nobody /\ mutex' = a /\ UNCHANGED <<quizOf, alive>>
        /\ states' = [states EXCEPT ![q] = "IN_PROGRESS"]
    BY DEF StartQuiz, At
  <1>3. /\ a \in Callers /\ a \notin Timers /\ a # Nobody
        /\ th[a] \in Frame /\ q \in Quizzes /\ old \in Timers \cup {NoTimer}
        /\ timers \in [Timers -> Timer] /\ quizTimers \in [Quizzes -> Timers \cup {NoTimer}]
        /\ quizOf \in [Timers -> Quizzes] /\ th \in [Actors -> Frame]
        /\ states \in [Quizzes -> QuizStates]
    BY <1>2, QuizStateManagerAssumption DEF IInv, PlacesInv, TypeOK, Frame, Actors
  <1>4. /\ f \in Frame /\ f.pc = "arm" /\ f.victim = old /\ f.quiz = q
        /\ th' = [th EXCEPT ![a] = f]
    BY <1>1, <1>3 DEF Frame, Pcs
  <1>. HIDE DEF f
  <1>5. /\ th' \in [Actors -> Frame] /\ th'[a] = f
        /\ \A b \in Actors : b # a => th'[b] = th[b]
    BY <1>4, ThChange
  <1>6. \A x \in Timers :
          /\ timers'[x] \in Timer
          /\ timers'[x].thread = timers[x].thread /\ timers'[x].running = timers[x].running
          /\ timers'[x].answered = timers[x].answered
          /\ timers[x].forced => timers'[x].forced
          /\ x # old => timers'[x] = timers[x]
    BY <1>1, <1>3, ForceStoppedFacts
  <1>7. TypeOK'
    <2>1. timers' \in [Timers -> Timer]
      BY <1>1, <1>3, ForceStoppedFacts
    <2>2. quizTimers' \in [Quizzes -> Timers \cup {NoTimer}] /\ states' \in [Quizzes -> QuizStates]
      BY <1>1, <1>2, <1>3 DEF QuizStates
    <2>. QED
      BY <1>2, <1>3, <1>5, <2>1, <2>2 DEF IInv, TypeOK
  <1>8. TimersInv'
    BY <1>6 DEF IInv, TimersInv
  <1>9. PlacesInv'
    <2>1. \A b \in Actors : th'[b].pc \in Holding <=> mutex' = b
      BY <1>2, <1>4, <1>5, QuizStateManagerAssumption DEF IInv, PlacesInv, Holding, Actors
    <2>2. \A b \in Actors : th'[b].pc \notin {"arm", "erase", "sweep"} => th'[b].victim = NoTimer
      BY <1>4, <1>5 DEF IInv, PlacesInv
    <2>3. \A x \in Timers : th'[x] = th[x]
      BY <1>3, <1>5 DEF Actors
    <2>. QED
      BY <1>2, <1>6, <2>1, <2>2, <2>3 DEF IInv, PlacesInv
  <1>10. MapInv'
    <2>1. MapInv /\ Calm
      BY <1>2 DEF IInv, Calm
    <2>2. \A x \in Timers : Live(x)' <=> Live(x)
      BY <1>6 DEF Live
    <2>3. /\ mutex' # Nobody /\ th'[mutex'].pc = "arm" /\ th'[mutex'].victim = old
          /\ th'[mutex'].quiz = q
      BY <1>2, <1>3, <1>4, <1>5
    <2>4. \A p \in Quizzes : quizTimers'[p] = IF p = q THEN t ELSE quizTimers[p]
      BY <1>1, <1>3
    <2>5. \A p \in Quizzes : quizTimers[p] # t
      BY <1>1 DEF Unused
    <2>6. timers[t].thread = "none" /\ t # NoTimer
      BY <1>1, NewTimerFacts, QuizStateManagerAssumption DEF Unused
    <2>7. Owned'
      <3>. SUFFICES ASSUME NEW p \in Quizzes, quizTimers'[p] # NoTimer
                    PROVE  /\ quizOf'[quizTimers'[p]] = p
                           /\ Live(quizTimers[p])' \/ (HolderAt("arm")' /\ th'[mutex'].quiz = p)
        BY DEF Owned
      <3>1. CASE p = q
        BY <1>1, <1>2, <2>3, <2>4, <3>1 DEF HolderAt
      <3>2. CASE p # q
        <4>1. quizTimers'[p] = quizTimers[p] /\ quizTimers[p] \in Timers
          BY <1>3, <2>4, <3>2
        <4>2. quizOf[quizTimers[p]] = p /\ Live(quizTimers[p])
          BY <1>2, <2>1, <4>1 DEF MapInv, Owned, HolderAt
        <4>. QED
          BY <1>2, <1>6, <4>1, <4>2 DEF Live
      <3>. QED
        BY <3>1, <3>2
    <2>8. Stray'
      <3>. SUFFICES ASSUME NEW x \in Timers, Live(x)
                    PROVE  quizTimers'[quizOf'[x]] = x \/ Joins(x)'
        BY <2>2 DEF Stray
      <3>1. quizTimers[quizOf[x]] = x /\ quizOf[x] \in Quizzes
        BY <1>2, <1>3, <2>1 DEF MapInv, Stray, Joins
      <3>. QED
        BY <1>2, <2>3, <2>4, <3>1 DEF Joins
    <2>9. Joined1'
      <3>1. ASSUME NEW x \in Timers, Joins(x)' PROVE Live(x)
        <4>1. x = old /\ old # NoTimer
          BY <2>3, <3>1, QuizStateManagerAssumption DEF Joins
        <4>. QED
          BY <1>2, <1>3, <2>1, <4>1 DEF MapInv, Owned, HolderAt
      <3>. QED
        BY <2>2, <3>1 DEF Joined1
    <2>10. ArmInv'
      BY <1>3, <1>6, <2>3, <2>4, <2>6 DEF ArmInv
    <2>11. EraseInv'
      BY <2>3 DEF EraseInv, HolderAt
    <2>12. StatesInv'
      BY <1>2, <1>3, <2>1, <2>4, <2>6 DEF MapInv, StatesInv, Active
    <2>13. ForcedInv'
      <3>1. Calm' => old = NoTimer
        BY <2>3 DEF Calm, HolderAt, Joins
      <3>2. old = NoTimer => timers' = timers
        BY <1>1
      <3>. QED
        BY <2>1, <3>1, <3>2 DEF MapInv, ForcedInv
    <2>. QED
      BY <2>7, <2>8, <2>9, <2>10, <2>11, <2>12, <2>13 DEF MapInv
  <1>. QED
    BY <1>7, <1>8, <1>9, <1>10 DEF IInv

LEMMA ArmStep ==
  ASSUME IInv, NEW a \in Actors, Arm(a) PROVE IInv'
  <1> DEFINE q == th[a].quiz
             t == quizTimers[q]
  <1>1. alive /\ th[a].pc = "arm" /\ JoinReturns(a)
    BY DEF Arm, At
  <1>2. /\ mutex = a /\ a # Nobody /\ a \in Callers /\ a \notin Timers
        /\ th[a].victim = NoTimer /\ AfterJoin(a) = timers
    BY <1>1, GoesOnAlone DEF Holding
  <1>3. /\ timers' = [timers EXCEPT ![t] = Started(NewTimer)]
        /\ mutex' = Nobody /\ UNCHANGED <<states, quizTimers, quizOf, alive>>
    BY <1>2 DEF Arm
  <1>4. /\ th[a] \in Frame /\ q \in Quizzes
        /\ timers \in [Timers -> Timer] /\ quizTimers \in [Quizzes -> Timers \cup {NoTimer}]
        /\ quizOf \in [Timers -> Quizzes] /\ th \in [Actors -> Frame]
    BY DEF IInv, TypeOK, Frame
  <1>5. /\ MapInv /\ HolderAt("arm") /\ Calm /\ t \in Timers /\ timers[t].thread = "none"
        /\ quizOf[t] = q
    BY <1>1, <1>2, <1>4 DEF IInv, HolderAt, Calm, Joins, MapInv, ArmInv, Owned
  <1>6. PICK f \in Frame : /\ th' = [th EXCEPT ![a] = f] /\ f.victim = NoTimer
                           /\ f.pc \in {"idle", "register"}
    <2> DEFINE g == [th[a] EXCEPT !.pc = "register", !.victim = NoTimer]
    <2>1. g \in Frame /\ g.pc = "register" /\ g.victim = NoTimer
      BY <1>4 DEF Frame, Pcs
    <2>2. th' = [th EXCEPT ![a] = g] \/ th' = [th EXCEPT ![a] = Idle]
      BY <1>4 DEF Arm, Return
    <2>. HIDE DEF g
    <2>. QED
      BY <2>1, <2>2, IdleFacts
  <1>7. /\ th' \in [Actors -> Frame] /\ th'[a] = f
        /\ \A b \in Actors : b # a => th'[b] = th[b]
    BY <1>6, ThChange
  <1>8. /\ timers' \in [Timers -> Timer]
        /\ \A x \in Timers : timers'[x] = IF x = t THEN Started(NewTimer) ELSE timers[x]
    BY <1>3, <1>4, <1>5, StartedFacts
  <1>. HIDE DEF t, q
  <1>9. TypeOK'
    BY <1>3, <1>7, <1>8 DEF IInv, TypeOK
  <1>10. TimersInv'
    BY <1>8, StartedFacts DEF IInv, TimersInv
  <1>11. PlacesInv'
    <2>1. \A b \in Actors : th'[b].pc \in Holding <=> mutex' = b
      BY <1>2, <1>3, <1>6, <1>7, QuizStateManagerAssumption
         DEF IInv, PlacesInv, Holding, Actors
    <2>2. \A b \in Actors : th'[b].pc \notin {"arm", "erase", "sweep"} => th'[b].victim = NoTimer
      BY <1>6, <1>7 DEF IInv, PlacesInv
    <2>3. \A x \in Timers : th'[x] = th[x]
      BY <1>2, <1>7 DEF Actors
    <2>. QED
      BY <1>3, <1>5, <1>8, <2>1, <2>2, <2>3, StartedFacts DEF IInv, PlacesInv
  <1>12. MapInv'
    <2>1. \A x \in Timers : /\ Live(x)' <=> x = t \/ Live(x)
                            /\ ~Live(t)
      BY <1>5, <1>8, StartedFacts DEF Live
    <2>2. Owned'
      <3>. SUFFICES ASSUME NEW p \in Quizzes, quizTimers[p] # NoTimer
                    PROVE  quizOf[quizTimers[p]] = p /\ Live(quizTimers[p])'
        BY <1>3 DEF Owned
      <3>1. quizTimers[p] \in Timers
        BY <1>4
      <3>. QED
        BY <1>2, <1>3, <1>5, <2>1, <3>1 DEF MapInv, Owned, HolderAt, Live, t, q
    <2>3. Stray'
      BY <1>2, <1>3, <1>5, <2>1, QuizStateManagerAssumption DEF MapInv, Stray, Joins, t, q
    <2>4. Joined1' /\ ArmInv' /\ EraseInv'
      BY <1>3 DEF Joined1, ArmInv, EraseInv, HolderAt, Joins
    <2>5. StatesInv'
      BY <1>3, <1>5 DEF MapInv, StatesInv, Active
    <2>6. ForcedInv'
      BY <1>5, <1>8, StartedFacts DEF MapInv, ForcedInv
    <2>. QED
      BY <2>2, <2>3, <2>4, <2>5, <2>6 DEF MapInv
  <1>. QED
    BY <1>9, <1>10, <1>11, <1>12 DEF IInv

LEMMA EndQuizStep ==
  ASSUME IInv, NEW a \in Actors, EndQuiz(a) PROVE IInv'
  <1> DEFINE q == th[a].quiz
             old == quizTimers[q]
             f == [th[a] EXCEPT !.pc = "erase", !.victim = old]
  <1>1. /\ alive /\ th[a].pc = "end" /\ mutex = Nobody /\ mutex' = a
        /\ UNCHANGED <<quizTimers, quizOf>>
        /\ alive' = (old # a)
        /\ timers' = IF old = NoTimer THEN timers ELSE [timers EXCEPT ![old] = ForceStopped(@)]
        /\ th' = [th EXCEPT ![a].pc = "erase", ![a].victim = old]
        /\ states' = [states EXCEPT ![q] = IF @ = "NOT_STARTED" THEN @ ELSE EndState(a)]
    BY DEF EndQuiz, At
  <1>2. /\ a # Nobody /\ th[a] \in Frame /\ q \in Quizzes /\ old \in Timers \cup {NoTimer}
        /\ timers \in [Timers -> Timer] /\ quizTimers \in [Quizzes -> Timers \cup {NoTimer}]
        /\ quizOf \in [Timers -> Quizzes] /\ th \in [Actors -> Frame]
        /\ states \in [Quizzes -> QuizStates]
    BY QuizStateManagerAssumption DEF IInv, TypeOK, Frame, Actors
  <1>3. MapInv /\ Calm
    BY <1>1 DEF IInv, Calm
  <1>4. a \in Timers => old = a
    <2>. SUFFICES ASSUME a \in Timers PROVE old = a
      OBVIOUS
    <2>1. timers[a].thread = "timeoutCb" /\ q = quizOf[a]
      BY <1>1 DEF IInv, PlacesInv
    <2>. QED
      BY <1>1, <1>3, <2>1 DEF MapInv, Stray, Live, Joins
  <1>5. /\ f \in Frame /\ f.pc = "erase" /\ f.victim = old /\ f.quiz = q
        /\ th' = [th EXCEPT ![a] = f]
    BY <1>1, <1>2 DEF Frame, Pcs
  <1>. HIDE DEF f
  <1>6. /\ th' \in [Actors -> Frame] /\ th'[a] = f
        /\ \A b \in Actors : b # a => th'[b] = th[b]
    BY <1>5, ThChange
  <1>7. \A x \in Timers :
          /\ timers'[x].thread = timers[x].thread /\ timers'[x].running = timers[x].running
          /\ timers'[x].answered = timers[x].answered
          /\ timers[x].forced => timers'[x].forced
    BY <1>1, <1>2, ForceStoppedFacts
  <1>8. TypeOK'
    <2>1. timers' \in [Timers -> Timer]
      BY <1>1, <1>2, ForceStoppedFacts
    <2>2. states' \in [Quizzes -> QuizStates] /\ alive' \in BOOLEAN
      BY <1>1, <1>2 DEF QuizStates, EndState
    <2>. QED
      BY <1>1, <1>2, <1>6, <2>1, <2>2 DEF IInv, TypeOK
  <1>9. TimersInv'
    BY <1>7 DEF IInv, TimersInv
  <1>10. PlacesInv'
    <2>1. \A b \in Actors : th'[b].pc \in Holding <=> mutex' = b
      BY <1>1, <1>5, <1>6, QuizStateManagerAssumption DEF IInv, PlacesInv, Holding, Actors
    <2>2. \A b \in Actors : th'[b].pc \notin {"arm", "erase", "sweep"} => th'[b].victim = NoTimer
      BY <1>5, <1>6 DEF IInv, PlacesInv
    <2>3. \A x \in Timers : x # a =>
            \/ /\ timers[x].thread = "timeoutCb" /\ th[x].quiz = quizOf[x] /\ th[x].pc = "end"
            \/ timers[x].thread = "forceCb" /\ th[x].pc = "notify"
            \/ timers[x].thread \notin {"timeoutCb", "forceCb"} /\ th[x].pc = "idle"
      BY <1>1 DEF IInv, PlacesInv
    <2>4. a \in Timers => /\ timers[a].thread = "timeoutCb" /\ q = quizOf[a] /\ ~alive'
      BY <1>1, <1>4 DEF IInv, PlacesInv
    <2>. QED
      BY <1>1, <1>5, <1>6, <1>7, <2>1, <2>2, <2>3, <2>4 DEF PlacesInv, Actors
  <1>11. ASSUME alive' PROVE MapInv'
    <2>1. \A x \in Timers : Live(x)' <=> Live(x)
      BY <1>7 DEF Live
    <2>2. /\ mutex' # Nobody /\ th'[mutex'].pc = "erase" /\ th'[mutex'].victim = old
          /\ th'[mutex'].quiz = q
      BY <1>1, <1>2, <1>5, <1>6
    <2>3. Owned'
      <3>. SUFFICES ASSUME NEW p \in Quizzes, quizTimers[p] # NoTimer
                    PROVE  quizOf[quizTimers[p]] = p /\ Live(quizTimers[p])'
        BY <1>1 DEF Owned
      <3>1. quizTimers[p] \in Timers /\ quizOf[quizTimers[p]] = p /\ Live(quizTimers[p])
        BY <1>1, <1>2, <1>3 DEF MapInv, Owned, HolderAt
      <3>. QED
        BY <1>1, <1>7, <3>1 DEF Live
    <2>4. Stray'
      BY <1>1, <1>3, <2>1 DEF MapInv, Stray, Joins
    <2>5. Joined1'
      <3>1. ASSUME NEW x \in Timers, Joins(x)' PROVE Live(x)
        <4>1. x = old /\ old # NoTimer
          BY <2>2, <3>1, QuizStateManagerAssumption DEF Joins
        <4>. QED
          BY <1>1, <1>2, <1>3, <4>1 DEF MapInv, Owned, HolderAt
      <3>. QED
        BY <2>1, <3>1 DEF Joined1
    <2>6. ArmInv' /\ EraseInv'
      BY <1>1, <2>2 DEF ArmInv, EraseInv, HolderAt
    <2>7. StatesInv' /\ ForcedInv'
      <3>. SUFFICES ASSUME Calm' PROVE StatesInv' /\ ForcedInv'
        BY DEF StatesInv, ForcedInv
      <3>1. old = NoTimer
        BY <2>2 DEF Calm, HolderAt, Joins
      <3>2. states[q] = "NOT_STARTED"
        BY <1>2, <1>3, <3>1 DEF MapInv, StatesInv, Active
      <3>3. states' = states /\ timers' = timers
        BY <1>1, <1>2, <3>1, <3>2
      <3>. QED
        BY <1>1, <1>3, <3>3 DEF MapInv, StatesInv, ForcedInv, Active
    <2>. QED
      BY <2>3, <2>4, <2>5, <2>6, <2>7 DEF MapInv
  <1>. QED
    BY <1>8, <1>9, <1>10, <1>11 DEF IInv

LEMMA EraseStep ==
  ASSUME IInv, NEW a \in Actors, Erase(a) PROVE IInv'
  <1> DEFINE f == [th[a] EXCEPT !.pc = "notify", !.victim = NoTimer]
  <1>1. alive /\ th[a].pc = "erase" /\ JoinReturns(a)
    BY DEF Erase, At
  <1>2. /\ mutex = a /\ a # Nobody /\ a \in Callers /\ a \notin Timers
        /\ th[a].victim = NoTimer /\ AfterJoin(a) = timers
    BY <1>1, GoesOnAlone DEF Holding
  <1>3. /\ th[a] \in Frame /\ quizTimers \in [Quizzes -> Timers \cup {NoTimer}]
        /\ th \in [Actors -> Frame]
    BY DEF IInv, TypeOK
  <1>4. MapInv /\ Calm /\ quizTimers[th[a].quiz] = NoTimer
    BY <1>1, <1>2 DEF IInv, HolderAt, Calm, Joins, MapInv, EraseInv
  <1>5. /\ mutex' = Nobody /\ UNCHANGED <<states, quizOf, alive, timers, quizTimers>>
    BY <1>2, <1>3, <1>4 DEF Erase
  <1>6. /\ f \in Frame /\ f.pc = "notify" /\ f.victim = NoTimer
        /\ th' = [th EXCEPT ![a] = f]
    BY <1>3 DEF Erase, Frame, Pcs
  <1>. HIDE DEF f
  <1>7. /\ th' \in [Actors -> Frame] /\ th'[a] = f
        /\ \A b \in Actors : b # a => th'[b] = th[b]
    BY <1>6, ThChange
  <1>8. TypeOK' /\ TimersInv'
    BY <1>5, <1>7 DEF IInv, TypeOK, TimersInv
  <1>9. PlacesInv'
    BY <1>2, <1>5, <1>6, <1>7, QuizStateManagerAssumption DEF IInv, PlacesInv, Holding, Actors
  <1>10. MapInv'
    <2>1. ~HolderAt("arm") /\ \A x \in Timers : ~Joins(x)
      BY <1>1, <1>2, QuizStateManagerAssumption DEF HolderAt, Joins
    <2>2. Owned' /\ Stray'
      BY <1>4, <1>5, <2>1 DEF MapInv, Owned, Stray, Live
    <2>3. Joined1' /\ ArmInv' /\ EraseInv'
      BY <1>5 DEF Joined1, ArmInv, EraseInv, HolderAt, Joins
    <2>4. StatesInv' /\ ForcedInv'
      BY <1>4, <1>5 DEF MapInv, StatesInv, ForcedInv, Active
    <2>. QED
      BY <2>2, <2>3, <2>4 DEF MapInv
  <1>. QED
    BY <1>8, <1>9, <1>10 DEF IInv

(* A callback never gets here: a timer that was told to stop is joined      *)
(* under the mutex it waits for.                                            *)
LEMMA NoCallbackNotifies ==
  ASSUME IInv, NEW a \in Actors, NotifyClients(a) PROVE a \notin Timers
  <1>1. alive /\ th[a].pc = "notify" /\ mutex = Nobody
    BY DEF NotifyClients, At
  <1>. SUFFICES ASSUME a \in Timers PROVE FALSE
    OBVIOUS
  <1>2. timers[a].forced
    BY <1>1 DEF IInv, PlacesInv, TimersInv
  <1>. QED
    BY <1>1, <1>2 DEF IInv, MapInv, ForcedInv, Calm

LEMMA NotifyClientsStep ==
  ASSUME IInv, NEW a \in Actors, NotifyClients(a) PROVE IInv'
  <1>1. alive /\ th[a].pc = "notify" /\ mutex = Nobody
    BY DEF NotifyClients, At
  <1>2. a \notin Timers
    BY NoCallbackNotifies
  <1>3. a \in Callers /\ UNCHANGED <<states, quizTimers, timers, quizOf, mutex, alive>>
    BY <1>2 DEF NotifyClients, Actors
  <1>4. th' = [th EXCEPT ![a] = Idle]
    BY DEF NotifyClients, Return
  <1>. QED
    BY <1>1, <1>3, <1>4, IdleFacts, QuietStep DEF Holding

LEMMA EndAllStep ==
  ASSUME IInv, NEW a \in Actors, EndAll(a) PROVE IInv'
  <1> DEFINE left == {quizTimers[q] : q \in Quizzes} \ {NoTimer}
             f == [th[a] EXCEPT !.pc = "sweep", !.todo = left]
  <1>1. /\ alive /\ th[a].pc = "endAll" /\ mutex = Nobody /\ mutex' = a
        /\ UNCHANGED <<quizTimers, timers, quizOf, alive>>
    BY DEF EndAll, At
  <1>2. /\ a \in Callers /\ a \notin Timers /\ a # Nobody /\ th[a].victim = NoTimer
        /\ th[a] \in Frame /\ quizTimers \in [Quizzes -> Timers \cup {NoTimer}]
        /\ states \in [Quizzes -> QuizStates] /\ th \in [Actors -> Frame]
    BY <1>1, QuizStateManagerAssumption DEF IInv, PlacesInv, TypeOK, Actors
  <1>3. left \subseteq Timers
    BY <1>2
  <1>4. th' = [th EXCEPT ![a] = f]
    BY <1>2 DEF EndAll
  <1>. HIDE DEF left
  <1>5. f \in Frame /\ f.pc = "sweep" /\ f.victim = NoTimer
    BY <1>2, <1>3 DEF Frame, Pcs
  <1>. HIDE DEF f
  <1>6. /\ th' \in [Actors -> Frame] /\ th'[a] = f
        /\ \A b \in Actors : b # a => th'[b] = th[b]
    BY <1>4, <1>5, ThChange
  <1>7. states' \in [Quizzes -> QuizStates]
    BY <1>2 DEF EndAll, QuizStates
  <1>8. TypeOK' /\ TimersInv'
    BY <1>1, <1>2, <1>6, <1>7 DEF IInv, TypeOK, TimersInv
  <1>9. PlacesInv'
    BY <1>1, <1>2, <1>5, <1>6, QuizStateManagerAssumption DEF IInv, PlacesInv, Holding, Actors
  <1>10. MapInv'
    <2>1. MapInv /\ ~HolderAt("arm") /\ \A x \in Timers : ~Joins(x)
      BY <1>1 DEF IInv, HolderAt, Joins
    <2>2. th'[mutex'].pc = "sweep" /\ th'[mutex'].victim = NoTimer
      BY <1>1, <1>5, <1>6
    <2>3. Owned' /\ Stray'
      BY <1>1, <2>1 DEF MapInv, Owned, Stray, Live
    <2>4. Joined1' /\ ArmInv' /\ EraseInv' /\ StatesInv' /\ ForcedInv'
      BY <1>1, <1>2, <2>2, QuizStateManagerAssumption
         DEF Joined1, ArmInv, EraseInv, StatesInv, ForcedInv, Calm, HolderAt, Joins
    <2>. QED
      BY <2>3, <2>4 DEF MapInv
  <1>. QED
    BY <1>8, <1>9, <1>10 DEF IInv

LEMMA SweepStep ==
  ASSUME IInv, NEW a \in Actors, Sweep(a) PROVE IInv'
  <1>1. alive /\ th[a].pc = "sweep" /\ JoinReturns(a)
    BY DEF Sweep, At
  <1>2. /\ mutex = a /\ a # Nobody /\ a \in Callers /\ a \notin Timers
        /\ th[a].victim = NoTimer /\ AfterJoin(a) = timers
    BY <1>1, GoesOnAlone DEF Holding
  <1>3. /\ th[a] \in Frame /\ th[a].todo \subseteq Timers /\ th \in [Actors -> Frame]
        /\ timers \in [Timers -> Timer]
    BY DEF IInv, TypeOK, Frame
  <1>4. PICK t \in th[a].todo :
          /\ timers' = [timers EXCEPT ![t] = ForceStopped(@)]
          /\ th' = [th EXCEPT ![a].victim = IF timers[t].running THEN t ELSE NoTimer,
                              ![a].todo = @ \ {t}]
    BY <1>2 DEF Sweep
  <1> DEFINE v == IF timers[t].running THEN t ELSE NoTimer
             f == [th[a] EXCEPT !.victim = v, !.todo = @ \ {t}]
  <1>5. t \in Timers /\ UNCHANGED <<states, quizTimers, quizOf, mutex, alive>>
    BY <1>3 DEF Sweep
  <1>6. f \in Frame /\ f.pc = "sweep" /\ f.victim = v /\ th' = [th EXCEPT ![a] = f]
    BY <1>1, <1>3, <1>4, <1>5 DEF Frame
  <1>. HIDE DEF f
  <1>7. /\ th' \in [Actors -> Frame] /\ th'[a] = f
        /\ \A b \in Actors : b # a => th'[b] = th[b]
    BY <1>6, ThChange
  <1>8. /\ timers' \in [Timers -> Timer]
        /\ \A x \in Timers :
             /\ timers'[x].thread = timers[x].thread /\ timers'[x].running = timers[x].running
             /\ timers'[x].answered = timers[x].answered
             /\ timers[x].forced => timers'[x].forced
    BY <1>3, <1>4, <1>5, ForceStoppedFacts
  <1>9. TypeOK' /\ TimersInv'
    BY <1>5, <1>7, <1>8 DEF IInv, TypeOK, TimersInv
  <1>10. PlacesInv'
    <2>1. \A x \in Timers : th'[x] = th[x]
      BY <1>2, <1>7 DEF Actors
    <2>2. \A b \in Actors : th'[b].pc = th[b].pc
      BY <1>1, <1>6, <1>7
    <2>3. \A b \in Actors : th'[b].pc \notin {"arm", "erase", "sweep"} => th'[b].victim = NoTimer
      BY <1>6, <1>7 DEF IInv, PlacesInv
    <2>. QED
      BY <1>5, <1>8, <2>1, <2>2, <2>3 DEF IInv, PlacesInv
  <1>11. MapInv'
    <2>1. MapInv /\ ~HolderAt("arm") /\ \A x \in Timers : ~Joins(x)
      BY <1>1, <1>2, QuizStateManagerAssumption DEF IInv, HolderAt, Joins
    <2>2. th'[mutex'].pc = "sweep" /\ th'[mutex'].victim = v
      BY <1>2, <1>5, <1>6, <1>7
    <2>3. Owned'
      <3>. SUFFICES ASSUME NEW q \in Quizzes, quizTimers[q] # NoTimer
                    PROVE  quizOf[quizTimers[q]] = q /\ Live(quizTimers[q])'
        BY <1>5 DEF Owned
      <3>1. quizTimers[q] \in Timers
        BY DEF IInv, TypeOK
      <3>. QED
        BY <1>5, <1>8, <2>1, <3>1 DEF MapInv, Owned, Live
    <2>4. Stray'
      BY <1>5, <1>8, <2>1 DEF MapInv, Stray, Live
    <2>5. Joined1'
      <3>1. timers[t].running => timers'[t].thread \in {"spawned", "waiting"}
        BY <1>5, <1>8 DEF IInv, TimersInv
      <3>. QED
        BY <2>2, <3>1, QuizStateManagerAssumption DEF Joined1, Joins, Live
    <2>6. ArmInv' /\ EraseInv' /\ StatesInv' /\ ForcedInv'
      BY <1>2, <1>5, <2>2 DEF ArmInv, EraseInv, StatesInv, ForcedInv, Calm, HolderAt
    <2>. QED
      BY <2>1, <2>3, <2>4, <2>5, <2>6 DEF MapInv
  <1>. QED
    BY <1>9, <1>10, <1>11 DEF IInv

LEMMA NotifyAllClientsStep ==
  ASSUME IInv, NEW a \in Actors, NotifyAllClients(a) PROVE IInv'
  <1>1. /\ alive /\ th[a].pc = "sweep" /\ JoinReturns(a)
        /\ UNCHANGED <<states, quizTimers, timers, quizOf, mutex>>
    BY DEF NotifyAllClients, At
  <1>2. mutex = a /\ a # Nobody /\ a \notin Timers /\ th[a].victim = NoTimer
    BY <1>1, GoesOnAlone DEF Holding
  <1>3. CASE alive' = FALSE /\ UNCHANGED th
    BY <1>1, <1>3 DEF IInv, TypeOK, TimersInv, PlacesInv
  <1>4. CASE Goto(a, "hung") /\ UNCHANGED alive
    <2> DEFINE f == [th[a] EXCEPT !.pc = "hung"]
    <2>1. th[a] \in Frame /\ th \in [Actors -> Frame]
      BY DEF IInv, TypeOK
    <2>2. f \in Frame /\ f.pc = "hung" /\ f.victim = NoTimer /\ th' = [th EXCEPT ![a] = f]
      BY <1>2, <1>4, <2>1 DEF Frame, Pcs, Goto
    <2>. HIDE DEF f
    <2>3. /\ th' \in [Actors -> Frame] /\ th'[a] = f
          /\ \A b \in Actors : b # a => th'[b] = th[b]
      BY <2>2, ThChange
    <2>4. TypeOK' /\ TimersInv'
      BY <1>1, <1>4, <2>3 DEF IInv, TypeOK, TimersInv
    <2>5. PlacesInv'
      BY <1>1, <1>2, <1>4, <2>2, <2>3 DEF IInv, PlacesInv, Holding, Actors
    <2>6. MapInv'
      <3>1. MapInv /\ ~HolderAt("arm") /\ \A x \in Timers : ~Joins(x)
        BY <1>1, <1>2, QuizStateManagerAssumption DEF IInv, HolderAt, Joins
      <3>2. th'[mutex'].pc = "hung" /\ th'[mutex'].victim = NoTimer
        BY <1>1, <1>2, <2>2, <2>3
      <3>3. Owned' /\ Stray'
        BY <1>1, <3>1 DEF MapInv, Owned, Stray, Live
      <3>4. Joined1' /\ ArmInv' /\ EraseInv' /\ StatesInv' /\ ForcedInv'
        BY <1>1, <1>2, <3>2, QuizStateManagerAssumption
           DEF Joined1, ArmInv, EraseInv, StatesInv, ForcedInv, Calm, HolderAt, Joins
      <3>. QED
        BY <3>3, <3>4 DEF MapInv
    <2>. QED
      BY <2>4, <2>5, <2>6 DEF IInv
  <1>. QED
    BY <1>3, <1>4 DEF NotifyAllClients

-----------------------------------------------------------------------------
(* What a timer thread makes of its timer, and the callback it enters.      *)
LEMMA TimerThreadFacts ==
  ASSUME IInv, NEW t \in Timers, TimerThread(t)
  PROVE  /\ timers[t].thread \in {"spawned", "waiting"}
         /\ \E tm \in Timer :
              /\ timers' = [timers EXCEPT ![t] = tm]
              /\ tm.answered = timers[t].answered /\ tm.forced = timers[t].forced
              /\ tm.running <=> tm.thread \in {"spawned", "waiting"}
              /\ \/ tm.thread \in {"spawned", "waiting"} /\ UNCHANGED th
                 \/ /\ tm.thread = "timeoutCb"
                    /\ th' = [th EXCEPT ![t] = FrameOf("end", "none", quizOf[t])]
                 \/ /\ tm.thread = "forceCb" /\ tm.forced
                    /\ th' = [th EXCEPT ![t] = FrameOf("notify", "none", quizOf[t])]
  <1> DEFINE old == timers[t]
  <1>1. old \in Timer /\ ~old.answered /\ (old.running <=> old.thread \in {"spawned", "waiting"})
    BY DEF IInv, TypeOK, TimersInv
  <1>2. old.thread \in {"spawned", "waiting"}
    BY DEF TimerThread, MayWake
  <1>3. CASE Decided(t, Decide(old, TRUE))
    <2> DEFINE tm == Decide(old, TRUE)
    <2>1. /\ tm \in Timer /\ tm.answered = old.answered /\ tm.forced = old.forced
          /\ ~tm.running /\ tm.thread = IF old.forced THEN "forceCb" ELSE "timeoutCb"
      BY <1>1 DEF Decide, Timer, Threads, TimerStates
    <2>. HIDE DEF tm
    <2>. QED
      BY <1>2, <1>3, <2>1 DEF Decided, tm
  <1>4. CASE timers[t].thread = "spawned" /\ Decided(t, Enter(old, TRUE))
    <2>1. CASE old.forced
      BY <1>3, <1>4, <2>1 DEF Enter
    <2>2. CASE ~old.forced
      <3> DEFINE tm == [old EXCEPT !.thread = "waiting"]
      <3>1. /\ tm \in Timer /\ tm.answered = old.answered /\ tm.forced = old.forced
            /\ tm.running = old.running /\ tm.thread = "waiting"
        BY <1>1 DEF Timer, Threads
      <3>2. Enter(old, TRUE) = tm
        BY <1>1, <2>2 DEF Enter
      <3>. HIDE DEF tm
      <3>3. timers' = [timers EXCEPT ![t] = tm] /\ UNCHANGED th
        BY <1>4, <3>1, <3>2 DEF Decided
      <3>. QED
        BY <1>1, <1>2, <3>1, <3>3
    <2>. QED
      BY <2>1, <2>2
  <1>5. CASE timers' = [timers EXCEPT ![t] = Expired(@)] /\ UNCHANGED th
    <2> DEFINE tm == Expired(old)
    <2>1. /\ tm \in Timer /\ tm.answered = old.answered /\ tm.forced = old.forced
          /\ tm.running = old.running /\ tm.thread = old.thread
      BY <1>1 DEF Expired, Timer
    <2>2. timers' = [timers EXCEPT ![t] = tm]
      BY <1>5
    <2>. HIDE DEF tm
    <2>. QED
      BY <1>1, <1>2, <1>5, <2>1, <2>2
  <1>. QED
    BY <1>3, <1>4, <1>5 DEF TimerThread

LEMMA TimerThreadStep ==
  ASSUME IInv, NEW t \in Timers, TimerThread(t) PROVE IInv'
  <1>1. alive /\ UNCHANGED <<states, quizTimers, quizOf, mutex, alive>>
    BY DEF TimerThread
  <1>2. PICK tm \in Timer :
          /\ timers' = [timers EXCEPT ![t] = tm]
          /\ tm.answered = timers[t].answered /\ tm.forced = timers[t].forced
          /\ tm.running <=> tm.thread \in {"spawned", "waiting"}
          /\ \/ tm.thread \in {"spawned", "waiting"} /\ UNCHANGED th
             \/ /\ tm.thread = "timeoutCb"
                /\ th' = [th EXCEPT ![t] = FrameOf("end", "none", quizOf[t])]
             \/ /\ tm.thread = "forceCb" /\ tm.forced
                /\ th' = [th EXCEPT ![t] = FrameOf("notify", "none", quizOf[t])]
    BY TimerThreadFacts
  <1>3. /\ timers[t].thread \in {"spawned", "waiting"} /\ th[t].pc = "idle"
        /\ timers \in [Timers -> Timer] /\ quizOf[t] \in Quizzes /\ t \in Actors
        /\ th \in [Actors -> Frame]
    BY TimerThreadFacts DEF IInv, TypeOK, PlacesInv, Actors
  <1>4. mutex # t
    BY <1>3 DEF IInv, PlacesInv, Holding
  <1>5. \A b \in Actors : b # t => th'[b] = th[b]
    BY <1>2, <1>3
  <1>6. /\ th' \in [Actors -> Frame]
        /\ \/ tm.thread \in {"spawned", "waiting"} /\ th'[t] = th[t]
           \/ /\ th'[t].victim = NoTimer
              /\ \/ tm.thread = "timeoutCb" /\ th'[t].pc = "end" /\ th'[t].quiz = quizOf[t]
                 \/ tm.thread = "forceCb" /\ th'[t].pc = "notify"
    <2>1. \A label \in {"end", "notify"} :
            LET f == FrameOf(label, "none", quizOf[t])
            IN  f \in Frame /\ f.pc = label /\ f.quiz = quizOf[t] /\ f.victim = NoTimer
      BY <1>3, FrameFacts DEF Pcs
    <2>. QED
      BY <1>2, <1>3, <2>1
  <1>7. \A x \in Timers : timers'[x] = IF x = t THEN tm ELSE timers[x]
    BY <1>2, <1>3
  <1>8. TypeOK' /\ TimersInv'
    BY <1>1, <1>2, <1>3, <1>6, <1>7 DEF IInv, TypeOK, TimersInv
  <1>9. PlacesInv'
    <2>1. \A b \in Actors : th'[b].pc \in Holding <=> mutex' = b
      BY <1>1, <1>3, <1>4, <1>5, <1>6 DEF IInv, PlacesInv, Holding
    <2>2. \A b \in Actors : th'[b].pc \notin {"arm", "erase", "sweep"} => th'[b].victim = NoTimer
      BY <1>3, <1>5, <1>6 DEF IInv, PlacesInv
    <2>3. \A x \in Timers : x # t => th'[x] = th[x]
      BY <1>5 DEF Actors
    <2>. QED
      BY <1>1, <1>3, <1>6, <1>7, <2>1, <2>2, <2>3 DEF IInv, PlacesInv
  <1>10. MapInv'
    <2>1. MapInv
      BY <1>1 DEF IInv
    <2>2. mutex # Nobody => th'[mutex] = th[mutex]
      BY <1>4, <1>5 DEF IInv, TypeOK
    <2>3. \A x \in Timers : Live(x)' <=> Live(x)
      BY <1>2, <1>3, <1>7 DEF Live
    <2>4. Owned'
      <3>. SUFFICES ASSUME NEW q \in Quizzes, quizTimers[q] # NoTimer
                    PROVE  /\ quizOf[quizTimers[q]] = q
                           /\ Live(quizTimers[q])' \/ (HolderAt("arm")' /\ th'[mutex'].quiz = q)
        BY <1>1 DEF Owned
      <3>1. quizTimers[q] \in Timers
        BY DEF IInv, TypeOK
      <3>2. Live(quizTimers[q]) => Live(quizTimers[q])'
        BY <1>1, <1>2, <1>3, <1>7, <3>1 DEF Live
      <3>. QED
        BY <1>1, <2>1, <2>2, <3>2 DEF MapInv, Owned, HolderAt
    <2>5. Stray' /\ Joined1' /\ EraseInv'
      BY <1>1, <2>1, <2>2, <2>3 DEF MapInv, Stray, Joined1, EraseInv, Joins, HolderAt
    <2>6. ArmInv'
      <3>. SUFFICES ASSUME HolderAt("arm")' PROVE ArmInv'
        BY DEF ArmInv
      <3>1. /\ HolderAt("arm") /\ th'[mutex] = th[mutex] /\ th[mutex] \in Frame
        BY <1>1, <2>2 DEF HolderAt, IInv, TypeOK
      <3>2. quizTimers[th[mutex].quiz] \in Timers /\ timers[quizTimers[th[mutex].quiz]].thread = "none"
        BY <2>1, <3>1 DEF MapInv, ArmInv, IInv, TypeOK, Frame
      <3>. QED
        BY <1>1, <1>3, <1>7, <2>1, <3>1, <3>2 DEF ArmInv, MapInv
    <2>7. Calm' <=> Calm
      BY <1>1, <2>2 DEF Calm, HolderAt, Joins
    <2>8. StatesInv' /\ ForcedInv'
      BY <1>1, <1>2, <1>7, <2>1, <2>7 DEF MapInv, StatesInv, ForcedInv, Active
    <2>. QED
      BY <2>4, <2>5, <2>6, <2>8 DEF MapInv
  <1>. QED
    BY <1>8, <1>9, <1>10 DEF IInv

LEMMA NextIInv == IInv /\ [Next]_vars => IInv'
  <1>1. ASSUME IInv, UNCHANGED vars PROVE IInv'
    BY <1>1 DEF vars, IInv, TypeOK, TimersInv, PlacesInv, MapInv, Owned, Stray, Joined1, ArmInv,
                EraseInv, StatesInv, ForcedInv, Calm, HolderAt, Joins, Live, Active
  <1>2. ASSUME IInv, NEW a \in Actors, Step(a) \/ Call(a) PROVE IInv'
    BY <1>2, QuietSteps, StartQuizStep, ArmStep, EndQuizStep, EraseStep, NotifyClientsStep,
       EndAllStep, SweepStep, NotifyAllClientsStep DEF Step
  <1>3. Callers \subseteq Actors
    BY DEF Actors
  <1>. QED
    BY <1>1, <1>2, <1>3, TimerThreadStep DEF Next

THEOREM Invariance == Spec => []IInv
  BY InitIInv, NextIInv, PTL DEF Spec

-----------------------------------------------------------------------------
(* The maps, timers and frames keep their types.                           *)
THEOREM TypeCorrect == Spec => []TypeOK
  <1>1. IInv => TypeOK
    BY DEF IInv
  <1>. QED
    BY <1>1, Invariance, PTL

(* No request ever sees an ended quiz, for any number of quizzes.           *)
THEOREM NoEndedState == Spec => []EndedNeverSeen
  <1>1. IInv => EndedNeverSeen
    BY DEF IInv, MapInv, StatesInv, Calm, EndedNeverSeen
  <1>. QED
    BY <1>1, Invariance, PTL

(* Between calls every quiz in progress has a live timer of its own, and no *)
(* other quiz has one.                                                      *)
THEOREM ActiveHasTimer == Spec => []ActiveIsTimed
  <1>1. IInv => ActiveIsTimed
    <2>. SUFFICES ASSUME IInv, alive, mutex = Nobody, NEW q \in Quizzes
                  PROVE  Active(q) <=> \E t \in Timers : quizTimers[q] = t /\ quizOf[t] = q /\ Live(t)
      BY DEF ActiveIsTimed
    <2>1. quizTimers[q] \in Timers \cup {NoTimer} /\ (Active(q) <=> quizTimers[q] # NoTimer)
      BY DEF IInv, TypeOK, MapInv, StatesInv, Calm
    <2>2. quizTimers[q] # NoTimer => quizOf[quizTimers[q]] = q /\ Live(quizTimers[q])
      BY DEF IInv, MapInv, Owned, HolderAt
    <2>. QED
      BY <2>1, <2>2, QuizStateManagerAssumption
  <1>. QED
    BY <1>1, Invariance, PTL

(* A timer that was replaced is never left running behind the new one.      *)
THEOREM NoTimerStrays == Spec => []NoStrayTimer
  <1>1. IInv => NoStrayTimer
    BY DEF IInv, MapInv, Stray, Joins, NoStrayTimer
  <1>. QED
    BY <1>1, Invariance, PTL

(* Whoever joins a timer thread under state_mutex never gets on, whatever   *)
(* the other callers and timers do: every replacement and every end of a    *)
(* quiz with a timer blocks the server.                                     *)
THEOREM JoinBlocks == Spec => JoinUnderLockBlocks
  <1>1. ASSUME IInv, Next, mutex # Nobody, th[mutex].victim # NoTimer
        PROVE  mutex' = mutex /\ th'[mutex] = th[mutex]
    <2>1. mutex \in Actors /\ th \in [Actors -> Frame] /\ th[mutex].pc \in Holding
      BY <1>1 DEF IInv, TypeOK, PlacesInv
    <2>2. ASSUME NEW a \in Actors, alive, th[a].pc \in Holding PROVE ~JoinReturns(a)
      BY <1>1, <2>2, GoesOnAlone
    <2>3. ASSUME NEW a \in Callers, Call(a) PROVE mutex' = mutex /\ th'[mutex] = th[mutex]
      <3>1. a # mutex
        BY <2>1, <2>3 DEF Call, At, Holding
      <3>. QED
        BY <2>1, <2>3, <3>1 DEF Call
    <2>4. ASSUME NEW a \in Actors, Step(a) PROVE FALSE
      <3>1. CASE Check(a) \/ StartQuiz(a) \/ RegisterClient(a) \/ EndQuiz(a)
                 \/ NotifyClients(a) \/ EndAll(a)
        BY <1>1, <3>1 DEF Check, StartQuiz, RegisterClient, EndQuiz, NotifyClients, EndAll
      <3>2. CASE Arm(a) \/ Erase(a) \/ Sweep(a) \/ NotifyAllClients(a)
        BY <2>2, <3>2 DEF Arm, Erase, Sweep, NotifyAllClients, At, Holding
      <3>. QED
        BY <2>4, <3>1, <3>2 DEF Step
    <2>5. ASSUME NEW t \in Timers, TimerThread(t)
          PROVE  mutex' = mutex /\ th'[mutex] = th[mutex]
      <3>1. timers[t].thread \in {"spawned", "waiting"}
        BY <1>1, <2>5, TimerThreadFacts
      <3>2. th[t].pc = "idle"
        BY <1>1, <3>1 DEF IInv, PlacesInv
      <3>3. t # mutex
        BY <2>1, <3>2 DEF Holding
      <3>. QED
        BY <1>1, <2>1, <2>5, <3>3, TimerThreadFacts DEF TimerThread
    <2>. QED
      BY <1>1, <2>3, <2>4, <2>5 DEF Next
  <1>2. IInv /\ [Next]_vars
          => [mutex # Nobody /\ th[mutex].victim # NoTimer
                => mutex' = mutex /\ th'[mutex] = th[mutex]]_vars
    BY <1>1
  <1>. QED
    BY <1>2, Invariance, PTL DEF Spec, JoinUnderLockBlocks

-----------------------------------------------------------------------------
(* Each timer is a OneShot.                                                 *)

(* What state says, thread by thread. *)
ShotsInv ==
  \A t \in Timers :
    LET tm == timers[t]
    IN  /\ tm.thread = "none" => tm.state = "NOT_STARTED"
        /\ tm.running => tm.state = IF tm.forced THEN "FORCE_STOPPED" ELSE "RUNNING"
        /\ tm.thread = "timeoutCb" => tm.state = "TIMED_OUT"
        /\ tm.thread = "forceCb" => tm.state = "FORCE_STOPPED"

LEMMA ShotKept ==
  ASSUME NEW t \in Timers, timers'[t].thread = timers[t].thread,
         timers'[t].state = timers[t].state, Joins(t)' <=> Joins(t)
  PROVE  UNCHANGED Shot(t)!vars
  <1>1. UNCHANGED Joinable(timers[t])
    BY DEF Joinable
  <1>2. UNCHANGED Joins(t)
    BY DEF Joins
  <1>. QED
    BY <1>1, <1>2 DEF Shot!vars

(* A step that leaves the timers alone, and who joins them. *)
LEMMA ShotsKept ==
  ASSUME ShotsInv, timers' = timers, \A t \in Timers : Joins(t)' <=> Joins(t)
  PROVE  ShotsInv' /\ \A t \in Timers : [Shot(t)!Next]_(Shot(t)!vars)
  BY ShotKept DEF ShotsInv

(* A timer that is to be destroyed, or stopped while it runs, is joined.    *)
LEMMA ShotEnds ==
  ASSUME IInv, ShotsInv, NEW old \in Timers, Joinable(timers[old]),
         timers' = [timers EXCEPT ![old] = ForceStopped(@)],
         \A t \in Timers : ~Joins(t),
         \A t \in Timers : Joins(t)' <=> t = old
  PROVE  ShotsInv' /\ \A t \in Timers : [Shot(t)!Next]_(Shot(t)!vars)
  <1>1. /\ timers \in [Timers -> Timer] /\ timers[old] \in Timer
        /\ timers[old].thread # "done"
        /\ timers[old].running <=> timers[old].thread \in {"spawned", "waiting"}
    BY DEF IInv, TypeOK, TimersInv
  <1>2. /\ timers'[old] = ForceStopped(timers[old])
        /\ \A t \in Timers : t # old => timers'[t] = timers[t]
    BY <1>1
  <1>3. ForceStopped(timers[old]).state =
          IF timers[old].running THEN "FORCE_STOPPED" ELSE timers[old].state
    BY <1>1 DEF ForceStopped, SignalForced, Notify, Timer
  <1>4. timers[old].running => ForceStopped(timers[old]).forced
    BY <1>1 DEF ForceStopped, SignalForced, Notify, Timer
  <1>5. /\ timers'[old].thread = timers[old].thread /\ timers'[old].running = timers[old].running
    BY <1>1, <1>2, ForceStoppedFacts
  <1>6. ShotsInv'
    BY <1>1, <1>2, <1>3, <1>4, <1>5 DEF ShotsInv
  <1>7. ASSUME NEW t \in Timers, t # old PROVE UNCHANGED Shot(t)!vars
    BY <1>2, <1>7, ShotKept
  <1>8. ~Joins(old) /\ Joins(old)' /\ timers[old].thread # "none" /\ timers'[old].thread # "none"
    BY <1>5 DEF Joinable
  <1>9. CASE timers[old].running /\ timers[old].state = "RUNNING"
    <2>1. /\ timers'[old].state = "FORCE_STOPPED"
          /\ timers[old].thread \in {"spawned", "waiting"}
      BY <1>1, <1>2, <1>3, <1>9
    <2>2. Shot(old)!Win("FORCE_STOPPED")
      BY <1>5, <1>8, <1>9, <2>1 DEF Shot!Win, Joinable
    <2>. QED
      BY <1>6, <1>7, <2>2 DEF Shot!Next
  <1>10. CASE ~(timers[old].running /\ timers[old].state = "RUNNING")
    <2>1. timers'[old].state = timers[old].state /\ timers[old].state # "RUNNING"
      BY <1>1, <1>2, <1>3, <1>8, <1>10 DEF ShotsInv, Timer, Threads
    <2>2. Shot(old)!ComeLate
      BY <1>5, <1>8, <2>1 DEF Shot!ComeLate, Joinable
    <2>. QED
      BY <1>6, <1>7, <2>2 DEF Shot!Next
  <1>. QED
    BY <1>9, <1>10

(* The thread of a timer that nobody has stopped times out; of one that was *)
(* stopped, it runs the force callback.                                     *)
LEMMA TimerThreadShot ==
  ASSUME IInv, ShotsInv, NEW t \in Timers, TimerThread(t)
  PROVE  ShotsInv' /\ \A x \in Timers : [Shot(x)!Next]_(Shot(x)!vars)
  <1> DEFINE old == timers[t]
             new == timers'[t]
  <1>1. /\ timers \in [Timers -> Timer] /\ old \in Timer /\ ~old.answered
        /\ old.running <=> old.thread \in {"spawned", "waiting"}
        /\ old.thread \in {"spawned", "waiting"}
    BY DEF IInv, TypeOK, TimersInv, TimerThread, MayWake
  <1>2. \A x \in Timers : Joins(x)' <=> Joins(x)
    <2>1. mutex' = mutex /\ th[t].pc = "idle" /\ t \in Actors
      BY <1>1 DEF TimerThread, IInv, PlacesInv, Actors
    <2>2. mutex # t
      BY <2>1 DEF IInv, PlacesInv, Holding
    <2>3. mutex # Nobody => mutex \in Actors /\ th'[mutex] = th[mutex]
      BY <2>2, TimerThreadFacts DEF IInv, TypeOK
    <2>. QED
      BY <2>1, <2>3 DEF Joins
  <1>3. ASSUME NEW x \in Timers, x # t PROVE timers'[x] = timers[x]
    BY <1>1, <1>3 DEF TimerThread, Decided
  <1>4. ASSUME NEW x \in Timers, x # t PROVE UNCHANGED Shot(x)!vars
    BY <1>2, <1>3, <1>4, ShotKept
  <1>5. CASE new.thread \in {"spawned", "waiting"} /\ new.state = old.state
              /\ new.forced = old.forced
    <2>1. UNCHANGED Joinable(timers[t])
      BY <1>1, <1>5 DEF Joinable
    <2>2. UNCHANGED Joins(t)
      BY <1>2 DEF Joins
    <2>3. UNCHANGED Shot(t)!vars
      BY <1>1, <1>5, <2>1, <2>2 DEF Shot!vars
    <2>4. ShotsInv'
      BY <1>1, <1>3, <1>5 DEF ShotsInv
    <2>. QED
      BY <1>4, <2>3, <2>4
  <1>6. CASE Decided(t, Decide(old, TRUE))
    <2>1. /\ ~new.running
          /\ new.thread = IF old.forced THEN "forceCb" ELSE "timeoutCb"
          /\ new.state = IF old.forced THEN "FORCE_STOPPED" ELSE "TIMED_OUT"
      BY <1>1, <1>6 DEF Decided, Decide, Timer
    <2>2. old.state = IF old.forced THEN "FORCE_STOPPED" ELSE "RUNNING"
      BY <1>1 DEF ShotsInv
    <2>3. ShotsInv'
      BY <1>3, <2>1 DEF ShotsInv
    <2>4. Joinable(timers[t]) /\ Joinable(timers[t])'
      BY <1>1, <2>1 DEF Joinable
    <2>5. Joins(t)' = Joins(t)
      BY <1>2 DEF Joins
    <2>6. Shot(t)!TimeOut \/ Shot(t)!ForceCallback
      BY <1>1, <2>1, <2>2, <2>4, <2>5 DEF Shot!TimeOut, Shot!ForceCallback
    <2>. QED
      BY <1>4, <2>3, <2>6 DEF Shot!Next
  <1>7. CASE old.thread = "spawned" /\ Decided(t, Enter(old, TRUE))
    <2>1. CASE old.forced
      BY <1>6, <1>7, <2>1 DEF Enter
    <2>2. CASE ~old.forced
      BY <1>1, <1>5, <1>7, <2>2 DEF Enter, Decided, Timer
    <2>. QED
      BY <2>1, <2>2
  <1>8. CASE timers' = [timers EXCEPT ![t] = Expired(@)]
    BY <1>1, <1>5, <1>8 DEF Expired, Timer
  <1>. QED
    BY <1>6, <1>7, <1>8 DEF TimerThread

LEMMA StepShots ==
  ASSUME IInv, ShotsInv, NEW a \in Actors, Step(a)
  PROVE  ShotsInv' /\ \A t \in Timers : [Shot(t)!Next]_(Shot(t)!vars)
  <1>1. /\ timers \in [Timers -> Timer] /\ th \in [Actors -> Frame]
        /\ th[a] \in Frame /\ a # Nobody
    BY QuizStateManagerAssumption DEF IInv, TypeOK, Actors
  <1>2. CASE Check(a) \/ RegisterClient(a) \/ NotifyClients(a)
    <2>1. mutex = Nobody /\ mutex' = Nobody /\ timers' = timers
      BY <1>2, NoCallbackNotifies DEF Check, RegisterClient, NotifyClients
    <2>. QED
      BY <2>1, ShotsKept DEF Joins
  <1>3. CASE StartQuiz(a) \/ EndQuiz(a)
    <2> DEFINE old == quizTimers[th[a].quiz]
    <2>1. /\ alive /\ mutex = Nobody /\ mutex' = a /\ th'[a].victim = old
          /\ timers' = IF old = NoTimer THEN timers
                       ELSE [timers EXCEPT ![old] = ForceStopped(@)]
      BY <1>1, <1>3 DEF StartQuiz, EndQuiz, At, Frame
    <2>2. \A t \in Timers : ~Joins(t) /\ (Joins(t)' <=> t = old)
      BY <1>1, <2>1 DEF Joins
    <2>3. CASE old = NoTimer
      BY <2>1, <2>2, <2>3, ShotsKept, QuizStateManagerAssumption
    <2>4. CASE old # NoTimer
      <3>1. old \in Timers /\ Live(old)
        BY <1>1, <2>1, <2>4 DEF IInv, TypeOK, MapInv, Owned, HolderAt, Frame
      <3>2. Joinable(timers[old])
        BY <3>1 DEF Live, Joinable
      <3>. QED
        BY <2>1, <2>2, <2>4, <3>1, <3>2, ShotEnds
    <2>. QED
      BY <2>3, <2>4
  <1>4. CASE Arm(a)
    <2>1. alive /\ th[a].pc = "arm" /\ JoinReturns(a)
      BY <1>4 DEF Arm, At
    <2>2. mutex = a /\ th[a].victim = NoTimer /\ AfterJoin(a) = timers
      BY <2>1, GoesOnAlone DEF Holding
    <2>3. PICK t \in Timers : t = quizTimers[th[a].quiz] /\ timers[t].thread = "none"
      BY <1>1, <2>1, <2>2 DEF IInv, TypeOK, MapInv, ArmInv, HolderAt, Frame
    <2>4. timers' = [timers EXCEPT ![t] = Started(NewTimer)] /\ mutex' = Nobody
      BY <1>4, <2>2, <2>3 DEF Arm
    <2>5. \A x \in Timers : ~Joins(x) /\ ~Joins(x)'
      BY <2>2, <2>4, QuizStateManagerAssumption DEF Joins
    <2>6. /\ timers'[t] = Started(NewTimer)
          /\ \A x \in Timers : x # t => timers'[x] = timers[x]
      BY <1>1, <2>4
    <2>7. Started(NewTimer).state = "RUNNING"
      BY DEF Started, Spawn, ResetFlags, NewTimer
    <2>8. ShotsInv'
      BY <2>6, <2>7, StartedFacts DEF ShotsInv
    <2>9. ASSUME NEW x \in Timers, x # t PROVE UNCHANGED Shot(x)!vars
      BY <2>5, <2>6, <2>9, ShotKept
    <2>10. Shot(t)!Start
      <3>1. ~Joinable(timers[t]) /\ Joinable(timers[t])' /\ ~Joins(t) /\ ~Joins(t)'
        BY <2>3, <2>5, <2>6, StartedFacts DEF Joinable
      <3>2. Joinable(timers[t])' = TRUE
        BY <3>1 DEF Joinable
      <3>3. UNCHANGED Joins(t)
        BY <3>1 DEF Joins
      <3>. QED
        BY <2>3, <2>6, <2>7, <3>1, <3>2, <3>3, StartedFacts DEF Shot!Start
    <2>. QED
      BY <2>8, <2>9, <2>10 DEF Shot!Next
  <1>5. CASE Erase(a)
    <2>1. alive /\ th[a].pc = "erase" /\ JoinReturns(a)
      BY <1>5 DEF Erase, At
    <2>2. mutex = a /\ th[a].victim = NoTimer /\ timers' = timers /\ mutex' = Nobody
      BY <1>5, <2>1, GoesOnAlone DEF Erase, Holding
    <2>. QED
      BY <2>2, ShotsKept, QuizStateManagerAssumption DEF Joins
  <1>6. CASE EndAll(a)
    <2>1. /\ mutex = Nobody /\ mutex' = a /\ timers' = timers
          /\ th[a].victim = NoTimer /\ th'[a].victim = th[a].victim
      BY <1>1, <1>6 DEF EndAll, At, IInv, PlacesInv, Frame
    <2>. QED
      BY <2>1, ShotsKept, QuizStateManagerAssumption DEF Joins
  <1>7. CASE Sweep(a)
    <2>1. alive /\ th[a].pc = "sweep" /\ JoinReturns(a)
      BY <1>7 DEF Sweep, At
    <2>2. mutex = a /\ th[a].victim = NoTimer /\ AfterJoin(a) = timers
      BY <2>1, GoesOnAlone DEF Holding
    <2>3. PICK t \in th[a].todo :
            /\ timers' = [timers EXCEPT ![t] = ForceStopped(@)]
            /\ th' = [th EXCEPT ![a].victim = IF timers[t].running THEN t ELSE NoTimer,
                                ![a].todo = @ \ {t}]
            /\ mutex' = mutex
      BY <1>7, <2>2 DEF Sweep
    <2>4. t \in Timers /\ th'[a].victim = IF timers[t].running THEN t ELSE NoTimer
      BY <1>1, <2>3 DEF Frame
    <2>5. \A x \in Timers : ~Joins(x) /\ (Joins(x)' <=> x = t /\ timers[t].running)
      BY <1>1, <2>2, <2>3, <2>4, QuizStateManagerAssumption DEF Joins
    <2>6. CASE timers[t].running
      <3>1. Joinable(timers[t])
        BY <2>4, <2>6 DEF IInv, TimersInv, Joinable
      <3>. QED
        BY <2>3, <2>4, <2>5, <2>6, <3>1, ShotEnds
    <2>7. CASE ~timers[t].running
      <3>1. timers' = timers
        BY <1>1, <2>3, <2>4, <2>7 DEF ForceStopped
      <3>. QED
        BY <2>5, <2>7, <3>1, ShotsKept
    <2>. QED
      BY <2>6, <2>7
  <1>8. CASE NotifyAllClients(a)
    <2>1. mutex' = mutex /\ timers' = timers
      BY <1>8 DEF NotifyAllClients
    <2>2. \A b \in Actors : th'[b].victim = th[b].victim
      BY <1>1, <1>8 DEF NotifyAllClients, Goto, Frame
    <2>3. mutex # Nobody => mutex \in Actors
      BY DEF IInv, TypeOK
    <2>. QED
      BY <2>1, <2>2, <2>3, ShotsKept DEF Joins
  <1>. QED
    BY <1>2, <1>3, <1>4, <1>5, <1>6, <1>7, <1>8 DEF Step

LEMMA NextShots ==
  IInv /\ ShotsInv /\ [Next]_vars
    => ShotsInv' /\ [\A t \in Timers : [Shot(t)!Next]_(Shot(t)!vars)]_vars
  <1>. SUFFICES ASSUME IInv, ShotsInv, [Next]_vars
                PROVE  /\ ShotsInv'
                       /\ (\A t \in Timers : [Shot(t)!Next]_(Shot(t)!vars)) \/ UNCHANGED vars
    OBVIOUS
  <1>1. ASSUME UNCHANGED vars PROVE ShotsInv'
    BY <1>1 DEF vars, ShotsInv
  <1>2. ASSUME NEW a \in Callers, Call(a)
        PROVE  ShotsInv' /\ \A t \in Timers : [Shot(t)!Next]_(Shot(t)!vars)
    <2>1. mutex' = mutex /\ timers' = timers /\ th[a].pc = "idle" /\ a \in Actors
      BY <1>2 DEF Call, At, Actors
    <2>2. a # mutex
      BY <2>1 DEF IInv, PlacesInv, Holding
    <2>3. mutex # Nobody => th'[mutex] = th[mutex]
      BY <1>2, <2>2 DEF Call, IInv, TypeOK
    <2>. QED
      BY <2>1, <2>3, ShotsKept DEF Joins
  <1>. QED
    BY <1>1, <1>2, StepShots, TimerThreadShot DEF Next

LEMMA InitShots == Init => ShotsInv /\ \A t \in Timers : Shot(t)!Init
  <1>. SUFFICES ASSUME Init, NEW t \in Timers
                PROVE  /\ timers[t].thread = "none" /\ timers[t].state = "NOT_STARTED"
                       /\ ~timers[t].running /\ Shot(t)!Init
    BY DEF ShotsInv
  <1>1. timers[t] = NewTimer /\ mutex = Nobody
    BY DEF Init
  <1>2. ~Joinable(timers[t]) /\ ~Joins(t)
    BY <1>1 DEF Joinable, Joins, NewTimer
  <1>. QED
    BY <1>1, <1>2 DEF NewTimer, Shot!Init

(* However the manager's calls and the timer threads interleave, no timer   *)
(* decides its outcome twice, loses a callback it owes, or is let go before *)
(* that callback has returned.                                              *)
THEOREM ManagedTimersAreOneShots == Spec => TimersAreOneShots
  BY InitShots, NextShots, InitIInv, NextIInv, PTL DEF Spec, TimersAreOneShots

-----------------------------------------------------------------------------
(* The manager as its callers see it: QuizGate.                             *)

(* Only ForceEndAllQuizzes sweeps and relocks. *)
SweepInv ==
  \A a \in Actors : th[a].pc \in {"endAll", "sweep", "hung"} => "ForceEndAll" \in Calls

LEMMA NextSweepInv == IInv /\ SweepInv /\ [Next]_vars => SweepInv'
  <1>. SUFFICES ASSUME IInv, SweepInv, [Next]_vars PROVE SweepInv'
    OBVIOUS
  <1>1. th \in [Actors -> Frame] /\ \A a \in Actors : th[a] \in Frame
    BY DEF IInv, TypeOK
  <1>2. ASSUME NEW a \in Actors, NEW f, th' = [th EXCEPT ![a] = f],
               f.pc \in {"endAll", "sweep", "hung"} => "ForceEndAll" \in Calls
        PROVE  SweepInv'
    BY <1>1, <1>2 DEF SweepInv
  <1>3. ASSUME NEW a \in Callers, Call(a) PROVE SweepInv'
    <2>1. a \in Actors
      BY DEF Actors
    <2>2. PICK q \in Quizzes, op \in Calls :
            th' = [th EXCEPT ![a] = FrameOf(EntryPoint[op], op, q)]
      BY <1>3 DEF Call
    <2>3. op \in Operations /\ FrameOf(EntryPoint[op], op, q).pc = EntryPoint[op]
      BY QuizStateManagerAssumption DEF FrameOf
    <2>4. EntryPoint[op] \in {"endAll", "sweep", "hung"} => op = "ForceEndAll"
      BY <2>3 DEF EntryPoint, Operations
    <2>. QED
      BY <1>2, <2>1, <2>2, <2>3, <2>4
  <1>4. ASSUME NEW a \in Actors, Step(a) PROVE SweepInv'
    <2>. USE <1>1
    <2>1. CASE th' = [th EXCEPT ![a] = Idle]
      BY <1>2, <2>1, IdleFacts
    <2>2. CASE Check(a) \/ StartQuiz(a) \/ Arm(a) \/ EndQuiz(a) \/ Erase(a)
      <3>1. th' = [th EXCEPT ![a] = Idle] \/ th'[a].pc \in {"start", "arm", "register", "erase", "notify"}
        BY <2>2 DEF Check, StartQuiz, Arm, EndQuiz, Erase, Return, Goto, Frame
      <3>2. \A b \in Actors : b # a => th'[b] = th[b]
        BY <2>2 DEF Check, StartQuiz, Arm, EndQuiz, Erase, Return, Goto
      <3>. QED
        BY <2>1, <3>1, <3>2 DEF SweepInv
    <2>3. CASE RegisterClient(a) \/ NotifyClients(a)
      BY <2>1, <2>3 DEF RegisterClient, NotifyClients, Return
    <2>4. CASE EndAll(a) \/ Sweep(a) \/ NotifyAllClients(a)
      <3>1. th[a].pc \in {"endAll", "sweep"}
        BY <2>4 DEF EndAll, Sweep, NotifyAllClients, At
      <3>. QED
        BY <3>1 DEF SweepInv
    <2>. QED
      BY <1>4, <2>2, <2>3, <2>4 DEF Step
  <1>5. ASSUME NEW t \in Timers, TimerThread(t) PROVE SweepInv'
    <2>1. th' = th \/ \E label \in {"end", "notify"} :
                         th' = [th EXCEPT ![t] = FrameOf(label, "none", quizOf[t])]
      BY <1>5 DEF TimerThread, Decided
    <2>2. t \in Actors /\ \A label \in {"end", "notify"} :
                           FrameOf(label, "none", quizOf[t]).pc = label
      BY DEF Actors, FrameOf
    <2>. QED
      BY <1>2, <2>1, <2>2 DEF SweepInv
  <1>6. CASE UNCHANGED vars
    BY <1>6 DEF vars, SweepInv
  <1>. QED
    BY <1>3, <1>4, <1>5, <1>6 DEF Next

LEMMA GateKept ==
  ASSUME states' = states, alive' = alive, Calm' <=> Calm
  PROVE  UNCHANGED Gate!vars
  BY DEF Gate!vars

(* While the manager answers, exactly the quizzes with a timer have begun.  *)
LEMMA AnswersFacts ==
  ASSUME IInv, alive, mutex = Nobody, NEW q \in Quizzes
  PROVE  /\ quizTimers[q] = NoTimer => states[q] = "NOT_STARTED"
         /\ quizTimers[q] # NoTimer => states[q] = "IN_PROGRESS"
  BY DEF IInv, MapInv, StatesInv, Calm, Active

LEMMA StepGate ==
  ASSUME IInv, SweepInv, NEW a \in Actors, Step(a) PROVE [Gate!Next]_(Gate!vars)
  <1>1. /\ th \in [Actors -> Frame] /\ states \in [Quizzes -> QuizStates]
        /\ th[a] \in Frame /\ a # Nobody /\ alive
    BY QuizStateManagerAssumption
       DEF IInv, TypeOK, Actors, Step, Check, StartQuiz, Arm, RegisterClient, EndQuiz, Erase,
           NotifyClients, EndAll, Sweep, NotifyAllClients, At
  <1>2. CASE Check(a) \/ RegisterClient(a) \/ NotifyClients(a)
    <2>1. mutex = Nobody /\ mutex' = Nobody /\ states' = states /\ alive' = alive
      BY <1>2 DEF Check, RegisterClient, NotifyClients
    <2>. QED
      BY <2>1, GateKept DEF Calm
  <1>3. CASE StartQuiz(a)
    <2>1. PICK q \in Quizzes : q = th[a].quiz
      BY <1>1 DEF Frame
    <2>2. PICK old \in Timers \cup {NoTimer} : old = quizTimers[q]
      BY DEF IInv, TypeOK
    <2>3. /\ mutex = Nobody /\ mutex' = a /\ alive' = alive
          /\ states' = [states EXCEPT ![q] = "IN_PROGRESS"]
          /\ th'[a].pc = "arm" /\ th'[a].victim = old
      BY <1>1, <1>3, <2>1, <2>2 DEF StartQuiz, Frame
    <2>4. Calm /\ (Calm' <=> old = NoTimer)
      BY <1>1, <2>3 DEF Calm, HolderAt, Joins
    <2>5. CASE old = NoTimer
      <3>1. states[q] = "NOT_STARTED"
        BY <1>1, <2>2, <2>3, <2>5, AnswersFacts
      <3>2. Gate!Start(q)
        BY <1>1, <2>3, <2>4, <2>5, <3>1 DEF Gate!Start
      <3>. QED
        BY <3>2 DEF Gate!Next
    <2>6. CASE old # NoTimer
      <3>1. states[q] = "IN_PROGRESS" /\ states' = states
        BY <1>1, <2>2, <2>3, <2>6, AnswersFacts
      <3>2. Gate!Block
        BY <1>1, <2>3, <2>4, <2>6, <3>1 DEF Gate!Block
      <3>. QED
        BY <3>2 DEF Gate!Next
    <2>. QED
      BY <2>5, <2>6
  <1>4. CASE EndQuiz(a)
    <2>1. PICK q \in Quizzes : q = th[a].quiz
      BY <1>1 DEF Frame
    <2>2. PICK old \in Timers \cup {NoTimer} : old = quizTimers[q]
      BY DEF IInv, TypeOK
    <2>3. /\ mutex = Nobody /\ mutex' = a /\ alive' = (old # a)
          /\ states' = [states EXCEPT ![q] = IF @ = "NOT_STARTED" THEN @ ELSE EndState(a)]
          /\ th'[a].pc = "erase" /\ th'[a].victim = old
      BY <1>1, <1>4, <2>1, <2>2 DEF EndQuiz, Frame
    <2>4. Calm /\ (Calm' <=> old = NoTimer)
      BY <1>1, <2>3 DEF Calm, HolderAt, Joins
    <2>5. CASE old = NoTimer
      <3>1. states[q] = "NOT_STARTED" /\ a # NoTimer
        BY <1>1, <2>2, <2>3, <2>5, AnswersFacts, QuizStateManagerAssumption DEF Actors
      <3>2. states' = states /\ alive' = alive
        BY <1>1, <2>3, <2>5, <3>1
      <3>. QED
        BY <2>4, <2>5, <3>2, GateKept
    <2>6. CASE old # NoTimer
      <3>1. states[q] = "IN_PROGRESS"
        BY <1>1, <2>2, <2>3, <2>6, AnswersFacts
      <3>2. \A p \in Quizzes : states'[p] # "NOT_STARTED" <=> states[p] # "NOT_STARTED"
        BY <1>1, <2>3, <3>1 DEF EndState
      <3>3. Gate!TimeOut \/ Gate!Block
        BY <1>1, <2>3, <2>4, <2>6, <3>1, <3>2 DEF Gate!TimeOut, Gate!Block
      <3>. QED
        BY <3>3 DEF Gate!Next
    <2>. QED
      BY <2>5, <2>6
  <1>5. CASE Arm(a) \/ Erase(a)
    <2>1. th[a].pc \in {"arm", "erase"} /\ JoinReturns(a)
      BY <1>5 DEF Arm, Erase, At
    <2>2. mutex = a /\ th[a].victim = NoTimer
      BY <1>1, <2>1, GoesOnAlone DEF Holding
    <2>3. mutex' = Nobody /\ states' = states /\ alive' = alive
      BY <1>5 DEF Arm, Erase
    <2>. QED
      BY <1>1, <2>1, <2>2, <2>3, GateKept DEF Calm, HolderAt, Joins
  <1>6. CASE EndAll(a)
    <2>1. /\ mutex = Nobody /\ mutex' = a /\ alive' = alive /\ th'[a].pc = "sweep"
          /\ "ForceEndAll" \in Calls
      BY <1>1, <1>6 DEF EndAll, At, SweepInv, Frame
    <2>2. Calm /\ ~Calm'
      BY <1>1, <2>1 DEF Calm, HolderAt
    <2>3. \A p \in Quizzes : states'[p] # "NOT_STARTED" <=> states[p] # "NOT_STARTED"
      BY <1>6 DEF EndAll
    <2>4. Gate!Block
      BY <1>1, <2>1, <2>2, <2>3 DEF Gate!Block
    <2>. QED
      BY <2>4 DEF Gate!Next
  <1>7. CASE Sweep(a) \/ NotifyAllClients(a)
    <2>1. th[a].pc = "sweep" /\ JoinReturns(a) /\ "ForceEndAll" \in Calls
      BY <1>7 DEF Sweep, NotifyAllClients, At, SweepInv
    <2>2. mutex = a /\ mutex' = a /\ states' = states
      BY <1>1, <1>7, <2>1, GoesOnAlone DEF Holding, Sweep, NotifyAllClients
    <2>3. th'[a].pc \in {"sweep", "hung"} /\ (alive' = alive \/ alive' = FALSE)
      <3>1. CASE Sweep(a)
        <4>1. alive' = alive /\ th'[a].pc = th[a].pc
          BY <1>1, <3>1 DEF Sweep, Frame
        <4>. QED
          BY <2>1, <4>1
      <3>2. CASE NotifyAllClients(a)
        <4>1. CASE Goto(a, "hung") /\ UNCHANGED alive
          <5>1. th'[a].pc = "hung"
            BY <1>1, <4>1 DEF Goto, Frame
          <5>. QED
            BY <4>1, <5>1
        <4>2. CASE alive' = FALSE /\ UNCHANGED th
          BY <2>1, <4>2
        <4>. QED
          BY <3>2, <4>1, <4>2 DEF NotifyAllClients
      <3>. QED
        BY <1>7, <3>1, <3>2
    <2>4. ~Calm /\ ~Calm'
      BY <1>1, <2>1, <2>2, <2>3 DEF Calm, HolderAt
    <2>5. CASE alive' = alive
      BY <2>2, <2>4, <2>5, GateKept
    <2>6. CASE alive' = FALSE
      <3>1. Gate!Abort
        BY <1>1, <2>1, <2>2, <2>4, <2>6 DEF Gate!Abort
      <3>. QED
        BY <3>1 DEF Gate!Next
    <2>. QED
      BY <2>3, <2>5, <2>6
  <1>. QED
    BY <1>2, <1>3, <1>4, <1>5, <1>6, <1>7 DEF Step

LEMMA NextGate == IInv /\ SweepInv /\ [Next]_vars => [Gate!Next]_(Gate!vars)
  <1>. SUFFICES ASSUME IInv, SweepInv, [Next]_vars PROVE [Gate!Next]_(Gate!vars)
    OBVIOUS
  <1>1. CASE UNCHANGED vars
    BY <1>1, GateKept DEF vars, Calm, HolderAt, Joins
  <1>2. ASSUME NEW a \in Actors, th[a].pc = "idle", UNCHANGED <<states, mutex, alive>>,
               \A b \in Actors : b # a => th'[b] = th[b]
        PROVE  UNCHANGED Gate!vars
    <2>1. a # mutex
      BY <1>2 DEF IInv, PlacesInv, Holding
    <2>2. mutex # Nobody => th'[mutex] = th[mutex]
      BY <1>2, <2>1 DEF IInv, TypeOK
    <2>. QED
      BY <1>2, <2>2, GateKept DEF Calm, HolderAt, Joins
  <1>3. ASSUME NEW a \in Callers, Call(a) PROVE UNCHANGED Gate!vars
    BY <1>2, <1>3 DEF Call, At, Actors, IInv, TypeOK
  <1>4. ASSUME NEW t \in Timers, TimerThread(t) PROVE UNCHANGED Gate!vars
    <2>1. t \in Actors /\ th[t].pc = "idle"
      BY <1>4, TimerThreadFacts DEF Actors, IInv, PlacesInv
    <2>2. \A b \in Actors : b # t => th'[b] = th[b]
      BY <1>4, TimerThreadFacts DEF IInv, TypeOK
    <2>. QED
      BY <1>2, <1>4, <2>1, <2>2 DEF TimerThread
  <1>. QED
    BY <1>1, <1>3, <1>4, StepGate DEF Next

LEMMA InitGate == Init => SweepInv /\ Gate!Init
  <1>. SUFFICES ASSUME Init PROVE SweepInv /\ Gate!Init
    OBVIOUS
  <1>1. SweepInv
    BY IdleFacts DEF Init, SweepInv
  <1>2. Calm /\ alive
    BY DEF Init, Calm
  <1>. QED
    BY <1>1, <1>2 DEF Gate!Init

(* The manager answers until it has a timer to replace or to end, and never *)
(* again after that: a quiz cannot be restarted, and the end of a quiz, by  *)
(* its clock or by force, is the end of the server.                         *)
THEOREM ManagerIsGate == Spec => ImplementsGate
  BY InitGate, NextGate, NextSweepInv, InitIInv, NextIInv, PTL
     DEF Spec, ImplementsGate, Gate!Spec
=============================================================================

------------------------ MODULE QuestionTimerProofs ------------------------
(***************************************************************************)
(* Proofs about one QuestionTimer, for any number of Start calls and with  *)
(* or without a force-stop callback.                                       *)
(***************************************************************************)
EXTENDS QuestionTimer, TLAPS

(* Where the owner can be, in each state of the thread. *)
OwnerInv ==
  /\ pc = "idle" <=> call = "none"
  /\ pc = "joinLocked" => call \in {"Start", "Stop"} /\ ~tm.running
  /\ pc \in {"join", "joinLocked"} => Joinable(tm)
  /\ pc \in {"flags", "spawn"} => call = "Start" /\ ~Joinable(tm)
  /\ pc = "gone" => call = "Destroy" /\ ~Joinable(tm)

(* While the outcome is open, the flags say what was asked, current_state   *)
(* repeats them, and whoever asked is waiting in join.                      *)
FlagsInv ==
  /\ tm.answered <=> "ANSWERED" \in asked
  /\ tm.forced <=> "FORCE_STOPPED" \in asked
  /\ tm.running =>
       /\ fired = {}
       /\ asked # {} => pc = "join"
       /\ asked # {"ANSWERED", "FORCE_STOPPED"}
       /\ asked = {} => tm.state = "RUNNING"
       /\ "ANSWERED" \in asked => tm.state = "ANSWERED"
       /\ "FORCE_STOPPED" \in asked => tm.state = "FORCE_STOPPED"
  /\ pc = "spawn" => tm.running

IInv ==
  /\ TypeOK
  /\ OwnerInv
  /\ FlagsInv
  /\ OneOutcome
  /\ NoLostWakeup
  /\ RunningIsExact

LEMMA InitIInv == Init => IInv
  BY QuestionTimerAssumption
     DEF Init, IInv, TypeOK, OwnerInv, FlagsInv, OneOutcome, NoLostWakeup,
         RunningIsExact, Timer, NewTimer, Threads, TimerStates, Pcs, Calls, Joinable

LEMMA EnterStopIInv ==
  ASSUME IInv, NEW c \in Calls, EnterStop(c) PROVE IInv'
  <1>. USE DEF IInv, TypeOK, Timer, Threads, TimerStates, Pcs, Calls, Joinable
  <1>1. TypeOK'
    <2>1. starts' \in 0..MaxStarts
      BY QuestionTimerAssumption DEF EnterStop
    <2>2. tm' \in Timer
      BY DEF EnterStop, SignalAnswered, Notify
    <2>3. asked' \subseteq {"ANSWERED", "FORCE_STOPPED"} /\ fired' = fired
      BY DEF EnterStop
    <2>4. pc' \in Pcs /\ call' \in Calls \cup {"none"}
      BY DEF EnterStop
    <2>. QED
      BY <2>1, <2>2, <2>3, <2>4
  <1>2. OwnerInv'
    BY DEF EnterStop, SignalAnswered, Notify, OwnerInv, RunningIsExact
  <1>3. FlagsInv'
    <2>1. CASE tm.running
      <3>1. asked = {}
        BY <2>1 DEF EnterStop, FlagsInv
      <3>2. /\ asked' = {"ANSWERED"} /\ fired' = fired /\ pc' = "join"
            /\ tm' = SignalAnswered(tm)
        BY <2>1, <3>1 DEF EnterStop
      <3>. QED
        BY <2>1, <3>1, <3>2 DEF SignalAnswered, Notify, FlagsInv
    <2>2. CASE ~tm.running
      BY <2>2 DEF EnterStop, OwnerInv, FlagsInv
    <2>. QED
      BY <2>1, <2>2
  <1>4. OneOutcome'
    BY DEF EnterStop, SignalAnswered, Notify, OneOutcome, FlagsInv
  <1>5. NoLostWakeup'
    BY DEF EnterStop, SignalAnswered, Notify, NoLostWakeup
  <1>6. RunningIsExact'
    BY DEF EnterStop, SignalAnswered, Notify, RunningIsExact
  <1>. QED
    BY <1>1, <1>2, <1>3, <1>4, <1>5, <1>6

LEMMA EnterForceStopIInv ==
  ASSUME IInv, NEW c \in Calls, EnterForceStop(c) PROVE IInv'
  <1>. USE DEF IInv, TypeOK, Timer, Threads, TimerStates, Pcs, Calls, Joinable
  <1>1. TypeOK'
    BY DEF EnterForceStop, SignalForced, Notify
  <1>2. OwnerInv'
    BY DEF EnterForceStop, SignalForced, Notify, OwnerInv, RunningIsExact
  <1>3. FlagsInv'
    <2>1. CASE tm.running
      <3>1. asked = {}
        BY <2>1 DEF EnterForceStop, FlagsInv
      <3>2. /\ asked' = {"FORCE_STOPPED"} /\ fired' = fired /\ pc' = "join"
            /\ tm' = SignalForced(tm)
        BY <2>1, <3>1 DEF EnterForceStop
      <3>. QED
        BY <2>1, <3>1, <3>2 DEF SignalForced, Notify, FlagsInv
    <2>2. CASE ~tm.running
      BY <2>2 DEF EnterForceStop, OwnerInv, FlagsInv
    <2>. QED
      BY <2>1, <2>2
  <1>4. OneOutcome'
    BY DEF EnterForceStop, SignalForced, Notify, OneOutcome, FlagsInv
  <1>5. NoLostWakeup'
    BY DEF EnterForceStop, SignalForced, Notify, NoLostWakeup
  <1>6. RunningIsExact'
    BY DEF EnterForceStop, SignalForced, Notify, RunningIsExact
  <1>. QED
    BY <1>1, <1>2, <1>3, <1>4, <1>5, <1>6

LEMMA OwnerStepIInv ==
  ASSUME IInv, OwnerStep PROVE IInv'
  <1>. USE DEF IInv, TypeOK, OwnerInv, FlagsInv, OneOutcome, NoLostWakeup,
               RunningIsExact, Timer, Threads, TimerStates, Pcs, Calls, Joinable, Goto
  <1>1. CASE Join
    BY <1>1 DEF Join, Joined, AfterJoin
  <1>2. CASE StartFlags
    BY <1>2 DEF StartFlags, ResetFlags
  <1>3. CASE StartThread
    BY <1>3 DEF StartThread, Spawn
  <1>. QED
    BY <1>1, <1>2, <1>3 DEF OwnerStep

(* What the thread decides: the timeout only if nobody asked anything, and  *)
(* the running flag is clear from then on.                                  *)
LEMMA DecideFacts ==
  ASSUME NEW t \in Timer
  PROVE  /\ Decide(t, HasForceCallback) \in Timer
         /\ Decide(t, HasForceCallback).thread \in {"timeoutCb", "forceCb", "done"}
         /\ ~Decide(t, HasForceCallback).running
         /\ Decide(t, HasForceCallback).answered = t.answered
         /\ Decide(t, HasForceCallback).forced = t.forced
         /\ Decide(t, HasForceCallback).thread = "timeoutCb" => ~t.answered /\ ~t.forced
         /\ Decide(t, HasForceCallback).thread = "forceCb" => t.forced
         /\ Decide(t, HasForceCallback).state
              = IF t.forced THEN "FORCE_STOPPED"
                ELSE IF t.answered THEN "ANSWERED" ELSE "TIMED_OUT"
  BY DEF Decide, Timer, Threads, TimerStates

LEMMA DecideIInv ==
  ASSUME IInv, tm.thread \in {"spawned", "waiting"},
         tm' = Decide(tm, HasForceCallback),
         fired' = fired \cup ({tm'.thread} \cap {"timeoutCb", "forceCb"}),
         UNCHANGED <<pc, call, starts, asked>>, mtxFree
  PROVE  IInv'
  <1>. tm \in Timer
    BY DEF IInv, TypeOK
  <1>. USE DEF IInv, TypeOK, OwnerInv, FlagsInv, OneOutcome, NoLostWakeup,
               RunningIsExact, Joinable
  <1>1. TypeOK'
    BY DecideFacts
  <1>2. OwnerInv'
    BY DecideFacts DEF mtxFree
  <1>3. FlagsInv'
    BY DecideFacts
  <1>4. OneOutcome'
    BY DecideFacts
  <1>5. NoLostWakeup' /\ RunningIsExact'
    BY DecideFacts
  <1>. QED
    BY <1>1, <1>2, <1>3, <1>4, <1>5

LEMMA ThreadStepIInv ==
  ASSUME IInv, ThreadStep PROVE IInv'
  <1>1. CASE ThreadEnter
    <2>1. CASE tm.answered \/ tm.forced
      BY <1>1, <2>1, DecideIInv DEF ThreadEnter, Enter
    <2>2. CASE ~(tm.answered \/ tm.forced)
      <3>1. tm' = [tm EXCEPT !.thread = "waiting"]
        BY <1>1, <2>2 DEF ThreadEnter, Enter
      <3>2. tm'.thread = "waiting" /\ fired' = fired
        BY <1>1, <3>1 DEF ThreadEnter, IInv, TypeOK, Timer
      <3>. QED
        BY <1>1, <2>2, <3>1, <3>2
           DEF ThreadEnter, IInv, TypeOK, OwnerInv, FlagsInv, OneOutcome,
               NoLostWakeup, RunningIsExact, Timer, Threads, Joinable
    <2>. QED
      BY <2>1, <2>2
  <1>2. CASE Deadline
    BY <1>2 DEF Deadline, Expired, IInv, TypeOK, OwnerInv, FlagsInv, OneOutcome,
                NoLostWakeup, RunningIsExact, Timer, Threads, Joinable
  <1>3. CASE ThreadWake
    BY <1>3, DecideIInv DEF ThreadWake, MayWake
  <1>4. CASE CallbackReturns
    BY <1>4 DEF CallbackReturns, CallbackDone, HoldsCallback, IInv, TypeOK,
                OwnerInv, FlagsInv, OneOutcome, NoLostWakeup, RunningIsExact,
                Timer, Threads, Joinable
  <1>. QED
    BY <1>1, <1>2, <1>3, <1>4 DEF ThreadStep

LEMMA NextIInv == IInv /\ [Next]_vars => IInv'
  <1>. SUFFICES ASSUME IInv, [Next]_vars PROVE IInv'
    OBVIOUS
  <1>1. CASE OwnerCall
    BY <1>1, EnterStopIInv, EnterForceStopIInv DEF OwnerCall
  <1>2. CASE OwnerStep
    BY <1>2, OwnerStepIInv
  <1>3. CASE ThreadStep
    BY <1>3, ThreadStepIInv
  <1>4. CASE UNCHANGED vars
    BY <1>4 DEF vars, IInv, TypeOK, OwnerInv, FlagsInv, OneOutcome, NoLostWakeup,
                RunningIsExact, Joinable
  <1>. QED
    BY <1>1, <1>2, <1>3, <1>4 DEF Next

THEOREM Invariance == Spec => []IInv
  BY InitIInv, NextIInv, PTL DEF Spec

(* Type correctness of the timer and of its owner.                         *)
THEOREM TypeCorrect == Spec => []TypeOK
  <1>1. IInv => TypeOK
    BY DEF IInv
  <1>. QED
    BY <1>1, Invariance, PTL

(* Answer and deadline race for one outcome: a generation that was stopped  *)
(* never runs the timeout callback.                                         *)
THEOREM OutcomeExclusive == Spec => []OneOutcome
  <1>1. IInv => OneOutcome
    BY DEF IInv
  <1>. QED
    BY <1>1, Invariance, PTL

(* cv.notify_one() under mtx loses no signal.                              *)
THEOREM WakeupDelivered == Spec => []NoLostWakeup
  <1>1. IInv => NoLostWakeup
    BY DEF IInv
  <1>. QED
    BY <1>1, Invariance, PTL

(* Start never assigns over a joinable std::thread, the destructor never    *)
(* destroys one.                                                            *)
THEOREM ThreadNeverOverwritten == Spec => []NeverOverwritesThread
  <1>1. IInv => NeverOverwritesThread
    BY DEF IInv, OwnerInv, NeverOverwritesThread
  <1>. QED
    BY <1>1, Invariance, PTL

(* The running flag, on which the early returns of Stop and ForceStop rest, *)
(* is set exactly while the outcome is open.                                *)
THEOREM RunningExact == Spec => []RunningIsExact
  <1>1. IInv => RunningIsExact
    BY DEF IInv
  <1>. QED
    BY <1>1, Invariance, PTL

-----------------------------------------------------------------------------
(* The refinement of OneShot.  Besides IInv it needs to know what the       *)
(* thread leaves behind: a callback that runs is recorded, an outcome that  *)
(* is no longer open is one of the three, and a thread that has returned    *)
(* owes no callback.                                                        *)
ShotInv ==
  /\ Joinable(tm) /\ ~tm.running => tm.state \in {"ANSWERED", "TIMED_OUT", "FORCE_STOPPED"}
  /\ HoldsCallback(tm) => tm.thread \in fired
  /\ tm.thread = "done" =>
       \/ fired # {}
       \/ tm.state = "ANSWERED"
       \/ tm.state = "FORCE_STOPPED" /\ ~HasForceCallback

LEMMA InitShot == Init => ShotInv /\ Shot!Init
  BY DEF Init, NewTimer, ShotInv, Shot!Init, Joinable, HoldsCallback

(* The three ways in which the thread decides, as steps of OneShot.         *)
LEMMA DecideShot ==
  ASSUME IInv, tm.thread \in {"spawned", "waiting"},
         tm' = Decide(tm, HasForceCallback),
         fired' = fired \cup ({tm'.thread} \cap {"timeoutCb", "forceCb"}),
         UNCHANGED <<pc, call, starts, asked>>
  PROVE  ShotInv' /\ [Shot!Next]_(Shot!vars)
  <1>1. /\ tm \in Timer /\ tm.running /\ fired = {}
        /\ tm.answered <=> "ANSWERED" \in asked
        /\ tm.forced <=> "FORCE_STOPPED" \in asked
        /\ asked = {} => tm.state = "RUNNING"
        /\ "ANSWERED" \in asked => tm.state = "ANSWERED"
        /\ "FORCE_STOPPED" \in asked => tm.state = "FORCE_STOPPED"
        /\ asked \subseteq {"ANSWERED", "FORCE_STOPPED"}
    BY DEF IInv, TypeOK, RunningIsExact, FlagsInv
  <1>. USE DEF Joinable, HoldsCallback, ShotInv, Shot!vars, Shot!Next
  <1>2. CASE tm.forced /\ HasForceCallback
    <2>1. tm'.thread = "forceCb" /\ tm'.state = "FORCE_STOPPED" /\ tm.state = "FORCE_STOPPED"
      BY <1>1, <1>2 DEF Decide, Timer
    <2>. QED
      BY <1>1, <1>2, <2>1 DEF Shot!ForceCallback
  <1>3. CASE ~tm.forced /\ ~tm.answered
    <2>1. tm'.thread = "timeoutCb" /\ tm'.state = "TIMED_OUT" /\ tm.state = "RUNNING"
      BY <1>1, <1>3 DEF Decide, Timer
    <2>. QED
      BY <1>1, <2>1 DEF Shot!TimeOut
  <1>4. CASE (tm.forced /\ ~HasForceCallback) \/ (~tm.forced /\ tm.answered)
    <2>1. /\ tm'.thread = "done" /\ tm'.state = tm.state
          /\ tm.state = IF tm.forced THEN "FORCE_STOPPED" ELSE "ANSWERED"
      BY <1>1, <1>4 DEF Decide, Timer
    <2>2. fired' = {} /\ pc' = pc
      BY <1>1, <2>1
    <2>3. UNCHANGED Shot!vars
      BY <1>1, <2>1, <2>2
    <2>. QED
      BY <1>4, <2>1, <2>3
  <1>. QED
    BY <1>2, <1>3, <1>4

LEMMA OwnerCallShot ==
  ASSUME IInv, ShotInv, OwnerCall PROVE ShotInv' /\ [Shot!Next]_(Shot!vars)
  <1>1. /\ tm \in Timer /\ pc = "idle"
        /\ tm.running => tm.state = "RUNNING" /\ Joinable(tm) /\ ~HoldsCallback(tm)
      BY DEF OwnerCall, EnterStop, EnterForceStop, IInv, TypeOK, OwnerInv, FlagsInv,
             RunningIsExact, Joinable, HoldsCallback
  <1>. USE DEF Shot!vars, Shot!Next
  <1>2. CASE /\ tm.running /\ pc' = "join" /\ fired' = fired
             /\ tm' = SignalAnswered(tm) \/ tm' = SignalForced(tm)
    <2>1. /\ tm'.thread = tm.thread /\ tm'.running
          /\ tm'.state = "ANSWERED" \/ tm'.state = "FORCE_STOPPED"
          /\ tm.thread # "done"
      BY <1>1, <1>2 DEF SignalAnswered, SignalForced, Notify, Timer, IInv, RunningIsExact
    <2>2. Shot!Win("ANSWERED") \/ Shot!Win("FORCE_STOPPED")
      BY <1>1, <1>2, <2>1 DEF Shot!Win, Joinable, HoldsCallback
    <2>. QED
      BY <1>1, <1>2, <2>1, <2>2 DEF ShotInv, HoldsCallback
  <1>3. CASE ~tm.running /\ Joinable(tm) /\ UNCHANGED <<tm, fired>> /\ pc' \in {"join", "joinLocked"}
    <2>1. Shot!ComeLate
      BY <1>1, <1>3 DEF Shot!ComeLate, ShotInv, Joinable
    <2>. QED
      BY <1>3, <2>1 DEF ShotInv, HoldsCallback, Joinable
  <1>4. CASE UNCHANGED <<tm, fired>> /\ pc' \notin {"join", "joinLocked", "spawn"}
    BY <1>1, <1>4 DEF ShotInv, HoldsCallback, Joinable
  <1>5. ASSUME NEW c \in Calls, EnterStop(c)
        PROVE  ShotInv' /\ [Shot!Next]_(Shot!vars)
    BY <1>2, <1>3, <1>4, <1>5 DEF EnterStop
  <1>6. ASSUME NEW c \in Calls, EnterForceStop(c)
        PROVE  ShotInv' /\ [Shot!Next]_(Shot!vars)
    BY <1>1, <1>2, <1>3, <1>4, <1>6 DEF EnterForceStop
  <1>. QED
    BY <1>5, <1>6 DEF OwnerCall

LEMMA OwnerStepShot ==
  ASSUME IInv, ShotInv, OwnerStep PROVE ShotInv' /\ [Shot!Next]_(Shot!vars)
  <1>1. tm \in Timer
    BY DEF IInv, TypeOK
  <1>. USE DEF Shot!vars, Shot!Next, ShotInv, HoldsCallback, Joinable
  <1>2. CASE Join
    <2>1. /\ tm'.thread = "none" /\ tm'.state = tm.state /\ fired' = fired
          /\ pc' \in {"flags", "gone", "idle"}
      BY <1>1, <1>2 DEF Join, Joined, Goto, AfterJoin, Timer
    <2>2. Shot!Close
      BY <1>1, <1>2, <2>1 DEF Join, Shot!Close, Shot!Delivered
    <2>. QED
      BY <2>1, <2>2
  <1>3. CASE StartFlags
    <2>1. tm.thread = "none" /\ tm'.thread = "none" /\ tm'.state = "RUNNING" /\ fired' = {}
      BY <1>1, <1>3 DEF StartFlags, ResetFlags, Timer, IInv, OwnerInv
    <2>2. Shot!Start
      BY <1>3, <2>1 DEF StartFlags, Goto, Shot!Start
    <2>. QED
      BY <2>1, <2>2
  <1>4. CASE StartThread
    <2>1. /\ tm.thread = "none" /\ fired = {} /\ tm.running
          /\ tm'.thread = "spawned" /\ tm'.state = tm.state /\ tm'.running
      BY <1>1, <1>4 DEF StartThread, Spawn, Timer, IInv, OwnerInv, FlagsInv
    <2>2. UNCHANGED Shot!vars
      BY <1>4, <2>1 DEF StartThread, Goto
    <2>. QED
      BY <2>1, <2>2
  <1>. QED
    BY <1>2, <1>3, <1>4 DEF OwnerStep

LEMMA ThreadStepShot ==
  ASSUME IInv, ShotInv, ThreadStep PROVE ShotInv' /\ [Shot!Next]_(Shot!vars)
  <1>1. tm \in Timer
    BY DEF IInv, TypeOK
  <1>2. CASE ThreadEnter /\ (tm.answered \/ tm.forced)
    BY <1>2, DecideShot DEF ThreadEnter, Enter
  <1>3. CASE ThreadWake
    BY <1>3, DecideShot DEF ThreadWake, MayWake
  <1>4. CASE CallbackReturns
    <2>1. tm'.thread = "done" /\ tm'.state = tm.state /\ tm'.running = tm.running /\ fired # {}
      BY <1>1, <1>4 DEF CallbackReturns, CallbackDone, Timer, ShotInv
    <2>2. Shot!CallbackReturns
      BY <1>4, <2>1 DEF CallbackReturns, HoldsCallback, Shot!CallbackReturns, Joinable
    <2>. QED
      BY <1>4, <2>1, <2>2 DEF CallbackReturns, HoldsCallback, ShotInv, Joinable, Shot!Next
  <1>5. CASE Deadline \/ (ThreadEnter /\ ~(tm.answered \/ tm.forced))
    <2>1. /\ tm.thread \in {"spawned", "waiting"} /\ tm'.thread = "waiting"
          /\ tm'.state = tm.state /\ tm'.running = tm.running
          /\ fired' = fired /\ pc' = pc
      BY <1>1, <1>5 DEF Deadline, Expired, ThreadEnter, Enter, Timer
    <2>. QED
      BY <2>1 DEF ShotInv, HoldsCallback, Joinable, Shot!vars
  <1>. QED
    BY <1>2, <1>3, <1>4, <1>5 DEF ThreadStep

LEMMA NextShot == IInv /\ ShotInv /\ [Next]_vars => ShotInv' /\ [Shot!Next]_(Shot!vars)
  <1>. SUFFICES ASSUME IInv, ShotInv, [Next]_vars
                PROVE  ShotInv' /\ [Shot!Next]_(Shot!vars)
    OBVIOUS
  <1>1. CASE UNCHANGED vars
    BY <1>1 DEF vars, ShotInv, HoldsCallback, Joinable, Shot!vars
  <1>. QED
    BY <1>1, OwnerCallShot, OwnerStepShot, ThreadStepShot DEF Next

(* The refinement rests on the steps alone, not on their fairness, so the   *)
(* programs that own a timer can cite it.                                   *)
LEMMA StepsAreOneShot == Init /\ [][Next]_vars => ImplementsOneShot
  BY InitShot, NextShot, InitIInv, NextIInv, PTL DEF ImplementsOneShot, Shot!Spec

(* Answer, forced stop and deadline race through mtx, the flags and the     *)
(* condition variable, and each generation still has the one outcome and    *)
(* the one callback that OneShot allows: for any number of generations,     *)
(* with or without a force callback.                                        *)
THEOREM TimerIsOneShot == Spec => ImplementsOneShot
  BY StepsAreOneShot, PTL DEF Spec

-----------------------------------------------------------------------------
(* The safety half of CallsReturn, which needs no fairness.  Work counts    *)
(* the steps that are left in the call and in the thread; the owner's next  *)
(* call is the only thing that adds to it.                                  *)
PcWork ==
  IF pc \in {"idle", "gone"} THEN 0
  ELSE IF pc = "spawn" THEN 5
  ELSE IF pc = "flags" THEN 6
  ELSE IF call = "Start" THEN 7 ELSE 1

ThreadWork ==
  IF tm.thread = "spawned" THEN 4
  ELSE IF tm.thread = "waiting" THEN IF tm.expired THEN 2 ELSE 3
  ELSE IF HoldsCallback(tm) THEN 1 ELSE 0

Work == PcWork + ThreadWork

LEMMA WorkIsNat == PcWork \in 0..7 /\ ThreadWork \in 0..4 /\ Work \in 0..11
  <1>1. PcWork \in 0..7 /\ ThreadWork \in 0..4
    BY DEF PcWork, ThreadWork
  <1>. QED
    BY <1>1 DEF Work

LEMMA WorkFalls ==
  ASSUME PcWork' <= PcWork, ThreadWork' <= ThreadWork,
         PcWork' < PcWork \/ ThreadWork' < ThreadWork
  PROVE  Work' < Work
  <1>1. PcWork' \in Nat /\ ThreadWork' \in Nat /\ PcWork \in Nat /\ ThreadWork \in Nat
    BY DEF PcWork, ThreadWork
  <1>2. \A p, q, t, u \in Nat : p <= q /\ t <= u /\ (p < q \/ t < u) => p + t < q + u
    OBVIOUS
  <1>3. Work' = PcWork' + ThreadWork' /\ Work = PcWork + ThreadWork
    BY DEF Work
  <1>. QED
    BY <1>1, <1>2, <1>3

LEMMA WorkStep == ASSUME IInv, OwnerStep \/ ThreadStep PROVE Work' < Work
  <1>1. tm \in Timer
    BY DEF IInv, TypeOK
    <1>2. CASE OwnerStep
    <2>1. CASE Join
      <3>1. /\ tm.thread = "done" /\ tm'.thread = "none"
            /\ pc \in {"join", "joinLocked"}
            /\ pc' = IF call = "Start" THEN "flags" ELSE IF call = "Destroy" THEN "gone" ELSE "idle"
        BY <1>1, <2>1 DEF Join, Joined, Goto, AfterJoin, Timer
      <3>2. ThreadWork = 0 /\ ThreadWork' = 0
        BY <3>1 DEF ThreadWork, HoldsCallback
      <3>3. PcWork' < PcWork /\ PcWork' <= PcWork
        BY <3>1 DEF PcWork
      <3>. QED
        BY <3>2, <3>3, WorkFalls
    <2>2. CASE StartFlags
      <3>1. ThreadWork = 0 /\ ThreadWork' = 0
        BY <1>1, <2>2 DEF StartFlags, ResetFlags, Timer, IInv, OwnerInv, Joinable, ThreadWork,
                          HoldsCallback
      <3>2. PcWork = 6 /\ PcWork' = 5
        BY <2>2 DEF StartFlags, Goto, PcWork
      <3>. QED
        BY <3>1, <3>2, WorkFalls
    <2>3. CASE StartThread
      <3>1. tm'.thread = "spawned" /\ ThreadWork' = 4
        BY <1>1, <2>3 DEF StartThread, Spawn, Timer, ThreadWork
      <3>2. PcWork = 5 /\ PcWork' = 0
        BY <2>3 DEF StartThread, Goto, PcWork
      <3>. QED
        BY <3>1, <3>2, WorkIsNat DEF Work
    <2>. QED
      BY <1>2, <2>1, <2>2, <2>3 DEF OwnerStep
  <1>3. CASE ThreadStep
    <2>1. PcWork' = PcWork /\ PcWork' <= PcWork
      <3>1. PcWork' = PcWork
        BY <1>3 DEF ThreadStep, ThreadEnter, Deadline, ThreadWake, CallbackReturns, PcWork
      <3>. QED
        BY <3>1, WorkIsNat
    <2>2. ASSUME tm.thread \in {"spawned", "waiting"}, tm' = Decide(tm, HasForceCallback)
          PROVE  ThreadWork' < ThreadWork /\ ThreadWork' <= ThreadWork
      <3>1. tm'.thread \in {"timeoutCb", "forceCb", "done"}
        BY <1>1, <2>2, DecideFacts
      <3>. QED
        BY <2>2, <3>1 DEF ThreadWork, HoldsCallback
    <2>3. CASE ThreadEnter
      <3>1. CASE tm.answered \/ tm.forced
        BY <2>1, <2>2, <2>3, <3>1, WorkFalls DEF ThreadEnter, Enter
      <3>2. CASE ~(tm.answered \/ tm.forced)
        <4>1. ThreadWork = 4 /\ ThreadWork' \in {2, 3}
          BY <1>1, <2>3, <3>2 DEF ThreadEnter, Enter, Timer, ThreadWork
        <4>. QED
          BY <2>1, <4>1, WorkFalls
      <3>. QED
        BY <3>1, <3>2
    <2>4. CASE Deadline
      <3>1. ThreadWork = 3 /\ ThreadWork' = 2
        BY <1>1, <2>4 DEF Deadline, Expired, Timer, ThreadWork
      <3>. QED
        BY <2>1, <3>1, WorkFalls
    <2>5. CASE ThreadWake
      BY <2>1, <2>2, <2>5, WorkFalls DEF ThreadWake, MayWake
    <2>6. CASE CallbackReturns
      <3>1. ThreadWork = 1 /\ ThreadWork' = 0
        BY <1>1, <2>6 DEF CallbackReturns, CallbackDone, HoldsCallback, Timer, ThreadWork
      <3>. QED
        BY <2>1, <3>1, WorkFalls
    <2>. QED
      BY <1>3, <2>3, <2>4, <2>5, <2>6 DEF ThreadStep
  <1>. QED
    BY <1>2, <1>3

(* Whatever a call waits for can happen: the guard of one of OwnerStep's or *)
(* ThreadStep's actions holds.  A join under mtx, in particular, meets only *)
(* threads that need mtx no more.                                           *)
SomebodyGoesOn ==
  pc \notin {"idle", "gone"} =>
    \/ pc \in {"flags", "spawn"}
    \/ tm.thread = "done"
    \/ HoldsCallback(tm)
    \/ mtxFree /\ (tm.thread = "spawned" \/ MayWake(tm))
    \/ tm.thread = "waiting" /\ ~tm.expired

LEMMA CallsGoOn == IInv => SomebodyGoesOn
  BY DEF IInv, TypeOK, Pcs, OwnerInv, RunningIsExact, Timer, Threads, SomebodyGoesOn,
         Joinable, HoldsCallback, mtxFree, MayWake

(* A call is bounded: after eleven steps of the two threads at most it has  *)
(* returned, unless the owner has made another one, and until then one of   *)
(* the two can take the next step.                                          *)
THEOREM CallsAreBounded ==
  Spec => /\ [][OwnerCall \/ Work' < Work]_vars
          /\ [](Work \in 0..11 /\ SomebodyGoesOn)
  <1>1. IInv /\ [Next]_vars => [OwnerCall \/ Work' < Work]_vars
    BY WorkStep DEF Next
  <1>2. IInv => Work \in 0..11 /\ SomebodyGoesOn
    BY WorkIsNat, CallsGoOn
  <1>. QED
    BY <1>1, <1>2, Invariance, PTL DEF Spec
=============================================================================

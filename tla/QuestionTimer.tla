--------------------------- MODULE QuestionTimer ---------------------------
(***************************************************************************)
(* One QuestionTimer, the thread that owns it and the timer thread.  The   *)
(* owner calls Start, Stop, ForceStop and the destructor in any order; the *)
(* timer thread waits, decides the outcome of the generation (one Start)   *)
(* and runs a callback.  A section under mtx is one step, except the join  *)
(* that Stop makes while it holds mtx.                                     *)
(***************************************************************************)
EXTENDS TimerOps, Naturals

CONSTANTS
  HasForceCallback,  \* was a force_stop_callback given to the constructor?
  MaxStarts          \* bound on the number of Start calls

ASSUME QuestionTimerAssumption ==
  HasForceCallback \in BOOLEAN /\ MaxStarts \in Nat

Calls == {"Start", "Stop", "ForceStop", "Destroy"}

(* idle        no call in progress        joinLocked  Stop: join under mtx  *)
(* join        join after a signal        flags       Start: Stop returned  *)
(* spawn       Start: flags are set       gone        destroyed             *)
Pcs == {"idle", "joinLocked", "join", "flags", "spawn", "gone"}

VARIABLES
  tm,      \* the QuestionTimer
  pc,      \* where the owner is
  call,    \* the call it is executing ("none" when idle)
  starts,  \* Start calls so far
  asked,   \* history: signals that took effect in this generation
  fired    \* history: callbacks begun in this generation

vars == <<tm, pc, call, starts, asked, fired>>

(* The timer record, the owner's place in a call, and the two histories.    *)
TypeOK ==
  /\ tm \in Timer
  /\ pc \in Pcs
  /\ call \in Calls \cup {"none"}
  /\ starts \in 0..MaxStarts
  /\ asked \subseteq {"ANSWERED", "FORCE_STOPPED"}
  /\ fired \subseteq {"timeoutCb", "forceCb"}

Init ==
  /\ tm = NewTimer
  /\ pc = "idle"
  /\ call = "none"
  /\ starts = 0
  /\ asked = {}
  /\ fired = {}

-----------------------------------------------------------------------------
(* The owner. *)

mtxFree == pc # "joinLocked"

Goto(label) ==
  /\ pc' = label
  /\ call' = IF label = "idle" THEN "none" ELSE call

(* Mutant: Stop() without the inner block, joining before it releases mtx. *)
EnterStopKeepsLock(c) ==
  /\ pc = "idle"
  /\ c \in {"Start", "Stop"}
  /\ c = "Start" => starts < MaxStarts
  /\ starts' = IF c = "Start" THEN starts + 1 ELSE starts
  /\ tm' = IF tm.running THEN SignalAnswered(tm) ELSE tm
  /\ asked' = IF tm.running THEN asked \cup {"ANSWERED"} ELSE asked
  /\ pc' = IF Joinable(tm) THEN "joinLocked" ELSE IF c = "Start" THEN "flags" ELSE "idle"
  /\ call' = IF Joinable(tm) \/ c = "Start" THEN c ELSE "none"
  /\ UNCHANGED fired

(* Stop(), also the first thing Start() does. *)
EnterStop(c) ==
  /\ pc = "idle"
  /\ c \in {"Start", "Stop"}
  /\ c = "Start" => starts < MaxStarts
  /\ starts' = IF c = "Start" THEN starts + 1 ELSE starts
  /\ UNCHANGED fired
  /\ \/ /\ tm.running
        /\ tm' = SignalAnswered(tm)
        /\ asked' = asked \cup {"ANSWERED"}
        /\ pc' = "join" /\ call' = c
     \/ /\ ~tm.running /\ Joinable(tm)
        /\ pc' = "joinLocked" /\ call' = c
        /\ UNCHANGED <<tm, asked>>
     \/ /\ ~tm.running /\ ~Joinable(tm)
        /\ pc' = IF c = "Start" THEN "flags" ELSE "idle"
        /\ call' = IF c = "Start" THEN c ELSE "none"
        /\ UNCHANGED <<tm, asked>>

(* ForceStop(); the destructor calls it only while running is set. *)
EnterForceStop(c) ==
  /\ pc = "idle"
  /\ c \in {"ForceStop", "Destroy"}
  /\ UNCHANGED <<starts, fired>>
  /\ \/ /\ tm.running
        /\ tm' = SignalForced(tm)
        /\ asked' = asked \cup {"FORCE_STOPPED"}
        /\ pc' = "join" /\ call' = c
     \/ /\ ~tm.running
        /\ UNCHANGED <<tm, asked>>
        /\ \/ /\ c = "ForceStop"
              /\ UNCHANGED <<pc, call>>
           \/ /\ c = "Destroy" /\ Joinable(tm)
              /\ pc' = "join" /\ call' = c
           \/ /\ c = "Destroy" /\ ~Joinable(tm)
              /\ pc' = "gone" /\ call' = c

AfterJoin(c) ==
  IF c = "Start" THEN "flags" ELSE IF c = "Destroy" THEN "gone" ELSE "idle"

(* Mutant: the call goes on without waiting for the thread. *)
JoinDetached ==
  /\ pc \in {"join", "joinLocked"}
  /\ tm' = [tm EXCEPT !.running = FALSE]
  /\ Goto(AfterJoin(call))
  /\ UNCHANGED <<starts, asked, fired>>

(* The join returns once the thread has; running is then cleared. *)
Join ==
  /\ pc \in {"join", "joinLocked"}
  /\ tm.thread = "done"
  /\ tm' = Joined(tm)
  /\ Goto(AfterJoin(call))
  /\ UNCHANGED <<starts, asked, fired>>

(* The rest of Start(): the flags under mtx, then the thread. *)
StartFlags ==
  /\ pc = "flags"
  /\ tm' = ResetFlags(tm)
  /\ asked' = {} /\ fired' = {}
  /\ Goto("spawn")
  /\ UNCHANGED starts

StartThread ==
  /\ pc = "spawn"
  /\ tm' = Spawn(tm)
  /\ Goto("idle")
  /\ UNCHANGED <<starts, asked, fired>>

-----------------------------------------------------------------------------
(* The timer thread. *)

ThreadEnter ==
  /\ tm.thread = "spawned" /\ mtxFree
  /\ tm' = Enter(tm, HasForceCallback)
  /\ fired' = fired \cup ({tm'.thread} \cap {"timeoutCb", "forceCb"})
  /\ UNCHANGED <<pc, call, starts, asked>>

(* time_limit_ms go by. *)
Deadline ==
  /\ tm.thread = "waiting" /\ ~tm.expired
  /\ tm' = Expired(tm)
  /\ UNCHANGED <<pc, call, starts, asked, fired>>

ThreadWake ==
  /\ MayWake(tm) /\ mtxFree
  /\ tm' = Decide(tm, HasForceCallback)
  /\ fired' = fired \cup ({tm'.thread} \cap {"timeoutCb", "forceCb"})
  /\ UNCHANGED <<pc, call, starts, asked>>

(* The callback of the single-user program, OnTimerExpired, only sets a     *)
(* flag: it returns whatever the owner is doing.                            *)
CallbackReturns ==
  /\ HoldsCallback(tm)
  /\ tm' = CallbackDone(tm)
  /\ UNCHANGED <<pc, call, starts, asked, fired>>

-----------------------------------------------------------------------------
OwnerCall  == (\E c \in Calls : EnterStop(c) \/ EnterForceStop(c))
OwnerStep  == Join \/ StartFlags \/ StartThread
ThreadStep == ThreadEnter \/ Deadline \/ ThreadWake \/ CallbackReturns

Next == OwnerCall \/ OwnerStep \/ ThreadStep

(* A call that has begun is executed, threads are scheduled and time        *)
(* passes; nothing obliges the owner to make another call.                  *)
Fairness == WF_vars(OwnerStep) /\ WF_vars(ThreadStep)

Spec == Init /\ [][Next]_vars /\ Fairness

-----------------------------------------------------------------------------
(* A Stop or ForceStop that took effect excludes the timeout of the same    *)
(* generation, and only a ForceStop runs the force callback: the race of    *)
(* answer and deadline has one winner.                                      *)
OneOutcome ==
  /\ asked # {} => "timeoutCb" \notin fired
  /\ "forceCb" \in fired => "FORCE_STOPPED" \in asked
  /\ Joinable(tm) => asked # {"ANSWERED", "FORCE_STOPPED"}

(* A signal is never lost: a thread that sleeps although Stop or ForceStop  *)
(* has set its flag has been notified, it need not wait for the deadline.   *)
NoLostWakeup ==
  tm.thread = "waiting" /\ (tm.answered \/ tm.forced) => tm.notified

(* Start() assigns timer_thread only when it is not joinable (assigning     *)
(* over a joinable std::thread terminates the process), and the destructor  *)
(* leaves no joinable thread behind.                                        *)
NeverOverwritesThread == pc \in {"spawn", "gone"} => ~Joinable(tm)

(* Outside Start's own two steps the running flag is exact: set while the   *)
(* outcome is open, clear once it is decided, so the early returns of Stop  *)
(* and ForceStop skip no thread that could still time out.                  *)
RunningIsExact ==
  /\ tm.thread \in {"spawned", "waiting"} => tm.running
  /\ tm.running /\ pc \notin {"spawn"} => tm.thread \in {"spawned", "waiting"}

(* The object, its thread and the calls in progress implement OneShot:      *)
(* whatever the interleaving, an outcome is decided by a call of the owner  *)
(* or by the clock and never replaced within its generation, and the one    *)
(* callback it asks for begins and returns before the generation is joined. *)
Shot ==
  INSTANCE OneShot WITH
    open <- Joinable(tm) \/ pc = "spawn",
    outcome <- tm.state,
    callback <- IF tm.thread = "timeoutCb" THEN "timeout"
                ELSE IF tm.thread = "forceCb" THEN "force"
                ELSE IF fired = {} THEN "due" ELSE "over",
    waits <- pc \in {"join", "joinLocked"}

ImplementsOneShot == Shot!Spec

(* Every call returns, the join under mtx included: Stop never holds mtx    *)
(* against a thread that still needs it.                                    *)
CallsReturn == pc \in {"join", "joinLocked", "flags", "spawn"} ~> pc \in {"idle", "gone"}
=============================================================================

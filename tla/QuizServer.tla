----------------------------- MODULE QuizServer -----------------------------
(***************************************************************************)
(* The quiz server: QuizController with the SessionManager and User        *)
(* objects it works on, driven by the websocket callbacks of               *)
(* ConnectionManager on a pool of threads.                                 *)
(*                                                                         *)
(* A handler is a sequence of critical sections of session_mutex and of    *)
(* unlocked work on one User; each is a step, and steps of different       *)
(* connections interleave.  The callbacks of one connection are serialised *)
(* by its strand, so a connection's own session entry is stable while its  *)
(* handler runs and ValidateSession and GetUsername form one step.         *)
(*                                                                         *)
(* Two parameters stand for what the source leaves open.  ReentryOutcomes: *)
(* AddSession calls IsUserLoggedIn with session_mutex held, a relock whose *)
(* behaviour C++ leaves undefined ("hang" and "throw" are what libraries   *)
(* do, "grant" is what the author expects).  HostStartsQuiz: whether the   *)
(* host has called QuizStateManager::StartQuiz, as InitializeQuiz does in  *)
(* the usage example of QuizStateManager.cpp; nothing in the server does   *)
(* before a START_QUIZ is let through.                                     *)
(***************************************************************************)
EXTENDS Grading

CONSTANTS
  Conns,            \* connection handles
  Names,            \* user names that clients log in with
  NoName,           \* the empty user name, what GetUsername returns for none
  NoSession,        \* "no entry in hdl_to_username"
  Mode,             \* QuizConfig::GetQuizMode()
  TimeAllowed,      \* QuizConfig::GetTimeAllowedBasedOnQuizMode()
  ReentryOutcomes,  \* what the relock in AddSession does
  HostStartsQuiz,   \* does the host start the quiz when the server starts?
  QuizDuration,     \* the duration the host starts it with
  AllowRelogin,     \* may a logged-in connection send LOGIN again?
  NumThreads,       \* size of ConnectionManager::thread_pool
  RawSelections,    \* the sets of option indices a request may carry
  Reports,          \* the values of time_to_attempt_in_ms a request may carry
  MaxTime,          \* bound on the clock
  MaxElapsed        \* bound on the elapsed time that reports may lead to

Modes    == {"BULLET", "TIME_BOUND", "STRICT"}
Outcomes == {"hang", "throw", "grant"}

ASSUME QuizServerAssumption ==
  /\ NoName \notin Names
  /\ NoSession \notin Names \cup {NoName}
  /\ Mode \in Modes
  /\ TimeAllowed \in Nat \ {0}
  /\ ReentryOutcomes \subseteq Outcomes /\ ReentryOutcomes # {}
  /\ HostStartsQuiz \in BOOLEAN
  /\ QuizDuration \in Nat \ {0}
  /\ AllowRelogin \in BOOLEAN
  /\ NumThreads \in Nat \ {0}
  /\ RawSelections \subseteq SUBSET Int
  /\ Reports \subseteq Int
  /\ MaxTime \in Nat \ {0}
  /\ MaxElapsed \in Nat

Commands == {"START_QUIZ", "CONTINUE_QUIZ", "END_QUIZ", "FETCH_QUESTION",
             "FETCH_UNATTEMPTED", "SUBMIT_ANSWER", "LOGOUT", "UNKNOWN"}

Keys == Names \cup {NoName}

VARIABLES
  session,    \* SessionManager::hdl_to_username
  users,      \* SessionManager::username_to_user
  h,          \* the handler of each connection: where it is, the command it
              \* executes ("CLOSE": OnDisconnect) and the username it has read
  quizState,  \* QuizStateManager::GetQuizState("global_quiz")
  quizEnd,    \* when the quiz timer expires
  now,        \* the clock
  alive,      \* FALSE once the process has terminated
  online      \* history: for how long each user has been logged in

vars == <<session, users, h, quizState, quizEnd, now, alive, online>>
quizVars    == <<quizState, quizEnd>>
envVars     == <<now, alive, online>>

(* closed    no connection         idle      no handler running            *)
(* gate      ProcessRequest        precheck  HandleLogin: IsUserLoggedIn   *)
(* add       AddSession            lookup    ValidateSession, GetUsername  *)
(* getuser   GetUser               create    CreateUser                    *)
(* body      work on the User      drop      RemoveSession                 *)
(* hung      blocked in AddSession's relock, holding session_mutex         *)
Pcs == {"closed", "idle", "gate", "precheck", "add", "lookup", "getuser",
        "create", "body", "drop", "hung"}

Handler ==
  [ at  : Pcs,
    cmd : Commands \cup {"LOGIN", "CLOSE", "NONE"},
    usr : Keys ]

NoHandler(label) == [at |-> label, cmd |-> "NONE", usr |-> NoName]

(* vLastActivityTime (0: none), vTotalTimeElapsed, vTotalTimeLimit,         *)
(* vEndTime and the Result.  vEndTime is uninitialised unless the mode is   *)
(* STRICT; nothing but a reply depends on it then, and it stays 0 here.     *)
(* charged is history: the part of elapsed that the server has added by its *)
(* own clock.  The rest is what clients have reported, of either sign.      *)
User ==
  [ exists  : BOOLEAN,
    limit   : Nat,
    end     : Nat,
    last    : Nat,
    elapsed : Int,
    charged : Nat,
    res     : Results ]

NoUser ==
  [ exists |-> FALSE, limit |-> 0, end |-> 0, last |-> 0, elapsed |-> 0,
    charged |-> 0, res |-> EmptyResult ]

(* The maps, the handler places, the clock and the history have their types. *)
TypeOK ==
  /\ session \in [Conns -> Keys \cup {NoSession}]
  /\ users \in [Keys -> User]
  /\ h \in [Conns -> Handler]
  /\ quizState \in {"NOT_STARTED", "IN_PROGRESS"}
  /\ quizEnd \in Nat
  /\ now \in Nat
  /\ alive \in BOOLEAN
  /\ online \in [Keys -> Nat]

(* The clock starts at 1: vLastActivityTime = 0 means "no activity".        *)
Init ==
  /\ session = [c \in Conns |-> NoSession]
  /\ users = [u \in Keys |-> NoUser]
  /\ h = [c \in Conns |-> NoHandler("closed")]
  /\ quizState = IF HostStartsQuiz THEN "IN_PROGRESS" ELSE "NOT_STARTED"
  /\ quizEnd = IF HostStartsQuiz THEN 1 + QuizDuration ELSE 0
  /\ now = 1
  /\ alive = TRUE
  /\ online = [u \in Keys |-> 0]

-----------------------------------------------------------------------------
(* Helpers. *)

LoggedIn(c) == session[c] # NoSession
Busy == {c \in Conns : h[c].at \notin {"closed", "idle"}}

(* session_mutex can be taken: no handler sleeps while it holds it.         *)
sessionMutexFree == \A c \in Conns : h[c].at # "hung"

At(c, label) == alive /\ h[c].at = label
Goto(c, label) == h' = [h EXCEPT ![c].at = label]
Return(c, label) == h' = [h EXCEPT ![c] = NoHandler(label)]
Reply(c) == Return(c, "idle")

(* SessionManager::GetUsername and IsUserLoggedIn. *)
GetUsername(c) == IF LoggedIn(c) THEN session[c] ELSE NoName
IsUserLoggedIn(u) == \E c \in Conns : session[c] = u

ByHandle == {"END_QUIZ", "FETCH_QUESTION", "FETCH_UNATTEMPTED", "SUBMIT_ANSWER"}

(* Mutant: GetUserByHandle does not ask whether the name is empty. *)
FindsUserOfAnyName(c) == users[h[c].usr].exists

(* SessionManager::GetUser; GetUserByHandle answers null for the empty name *)
(* without looking.  GetUser is called directly by the other handlers.      *)
FindsUser(c) ==
  /\ users[h[c].usr].exists
  /\ ~(h[c].cmd \in ByHandle /\ h[c].usr = NoName)

(* QuizController::CheckTimeElapsed. *)
TimeElapsed(user) ==
  \/ Mode = "STRICT" /\ now >= user.end
  \/ Mode = "TIME_BOUND" /\ user.elapsed >= user.limit

(* QuizController::IsCommandAllowed, and the exception ProcessRequest makes *)
(* for LOGIN.  Of the QuizState values only these two are ever visible, see *)
(* QuizStateManager.                                                        *)
IsCommandAllowed(command) ==
  quizState = "IN_PROGRESS" \/ command = "LOGIN"

-----------------------------------------------------------------------------
(* ConnectionManager: OnOpen, OnMessage and OnClose. *)

Connect(c) ==
  /\ At(c, "closed")
  /\ Reply(c)
  /\ UNCHANGED <<session, users, quizVars, envVars>>

FreeThread == Cardinality(Busy) < NumThreads

(* A message arrives and a thread of the pool takes it.                     *)
Receive(c) ==
  /\ At(c, "idle") /\ FreeThread
  /\ \/ \E command \in Commands :
          h' = [h EXCEPT ![c] = [at |-> "gate", cmd |-> command, usr |-> NoName]]
     \/ \E u \in Keys :
          /\ AllowRelogin \/ ~LoggedIn(c)
          /\ h' = [h EXCEPT ![c] = [at |-> "gate", cmd |-> "LOGIN", usr |-> u]]
  /\ UNCHANGED <<session, users, quizVars, envVars>>

(* The connection goes away; OnDisconnect runs like any other handler.      *)
Disconnect(c) ==
  /\ At(c, "idle") /\ FreeThread
  /\ h' = [h EXCEPT ![c] = [at |-> "lookup", cmd |-> "CLOSE", usr |-> NoName]]
  /\ UNCHANGED <<session, users, quizVars, envVars>>

(* ProcessRequest: parse, gate, dispatch.                                   *)
Gate(c) ==
  /\ At(c, "gate")
  /\ IF ~IsCommandAllowed(h[c].cmd) \/ h[c].cmd = "UNKNOWN" THEN Reply(c)
     ELSE IF h[c].cmd = "LOGIN" THEN Goto(c, "precheck")
     ELSE Goto(c, "lookup")
  /\ UNCHANGED <<session, users, quizVars, envVars>>

-----------------------------------------------------------------------------
(* HandleLogin. *)

(* The password, then IsUserLoggedIn under a shared lock.                   *)
LoginPrecheck(c) ==
  /\ At(c, "precheck") /\ sessionMutexFree
  /\ \/ Reply(c)  \* wrong password
     \/ IF IsUserLoggedIn(h[c].usr) THEN Reply(c) ELSE Goto(c, "add")
  /\ UNCHANGED <<session, users, quizVars, envVars>>

(* AddSession when the relock is granted: check and insert under one        *)
(* exclusive lock.  The insert overwrites the entry the handle had.         *)
AddSessionUnchecked(c) ==
  /\ session' = [session EXCEPT ![c] = h[c].usr]
  /\ Reply(c)

AddSession(c) ==
  /\ session' = IF IsUserLoggedIn(h[c].usr) THEN session
                ELSE [session EXCEPT ![c] = h[c].usr]
  /\ Reply(c)

(* Mutant: the relock as the libraries implement it. *)
LoginAddBlocks(c) ==
  /\ At(c, "add") /\ sessionMutexFree
  /\ Goto(c, "hung")
  /\ UNCHANGED <<session, users, quizVars, envVars>>

(* AddSession takes session_mutex and IsUserLoggedIn takes it again: the    *)
(* handler sleeps for ever, or the exception becomes an error reply, or the *)
(* lock is granted.                                                         *)
LoginAdd(c) ==
  /\ At(c, "add") /\ sessionMutexFree
  /\ \/ "grant" \in ReentryOutcomes /\ AddSession(c)
     \/ "throw" \in ReentryOutcomes /\ Reply(c) /\ UNCHANGED session
     \/ "hang" \in ReentryOutcomes /\ Goto(c, "hung") /\ UNCHANGED session
  /\ UNCHANGED <<users, quizVars, envVars>>

-----------------------------------------------------------------------------
(* The common head of the other handlers. *)

(* Mutant: RemoveSession before the time is charged. *)
LookupRemovesFirst(c) ==
  /\ At(c, "lookup") /\ sessionMutexFree
  /\ IF LoggedIn(c) \/ h[c].cmd \in {"LOGOUT", "CLOSE"}
     THEN h' = [h EXCEPT ![c].at = "getuser", ![c].usr = GetUsername(c)]
     ELSE Reply(c)
  /\ session' = IF h[c].cmd \in {"LOGOUT", "CLOSE"}
                THEN [session EXCEPT ![c] = NoSession] ELSE session
  /\ UNCHANGED <<users, quizVars, envVars>>

(* ValidateSession, then GetUsername: a handle without a session is         *)
(* refused, except by HandleLogout and OnDisconnect, which go on with "".   *)
Lookup(c) ==
  /\ At(c, "lookup") /\ sessionMutexFree
  /\ IF LoggedIn(c) \/ h[c].cmd \in {"LOGOUT", "CLOSE"}
     THEN h' = [h EXCEPT ![c].at = "getuser", ![c].usr = GetUsername(c)]
     ELSE Reply(c)
  /\ UNCHANGED <<session, users, quizVars, envVars>>

AfterGetUser(c) ==
  IF h[c].cmd = "START_QUIZ" THEN IF FindsUser(c) THEN "idle" ELSE "create"
  ELSE IF FindsUser(c) THEN "body"
  ELSE IF h[c].cmd \in {"LOGOUT", "CLOSE"} THEN "drop"
  ELSE "idle"

GetUser(c) ==
  /\ At(c, "getuser") /\ sessionMutexFree
  /\ IF AfterGetUser(c) = "idle" THEN Reply(c) ELSE Goto(c, AfterGetUser(c))
  /\ UNCHANGED <<session, users, quizVars, envVars>>

(* CreateUser refuses a name that has a User by now. *)
CreateUser(c) ==
  /\ At(c, "create") /\ sessionMutexFree
  /\ IF users[h[c].usr].exists
     THEN UNCHANGED users /\ Reply(c)
     ELSE /\ users' = [users EXCEPT ![h[c].usr] = [NoUser EXCEPT !.exists = TRUE]]
          /\ Goto(c, "body")
  /\ UNCHANGED <<session, quizVars, envVars>>

-----------------------------------------------------------------------------
(* The work on the User, outside every lock. *)

(* HandleStartQuiz after CreateUser.  limit: the duration of a question in  *)
(* BULLET mode, of the whole quiz otherwise.  The quiz is in progress, or   *)
(* the gate would have refused the command, so the StartQuiz of the STRICT  *)
(* branch is not reached; the test is kept.                                 *)
Configured(user) ==
  [user EXCEPT
     !.limit = IF Mode = "BULLET" THEN TimeAllowed * NumQuestions ELSE TimeAllowed,
     !.end   = IF Mode = "STRICT" THEN now + TimeAllowed ELSE 0]

ConfigureUser(c) ==
  /\ h[c].cmd = "START_QUIZ"
  /\ users' = [users EXCEPT ![h[c].usr] = Configured(@)]
  /\ IF Mode = "STRICT" /\ quizState # "IN_PROGRESS"
     THEN quizState' = "IN_PROGRESS" /\ quizEnd' = now + TimeAllowed
     ELSE UNCHANGED quizVars
  /\ Reply(c)

(* HandleContinueQuiz, HandleEndQuiz and HandleFetchUnattempted read.       *)
ReadUser(c) ==
  /\ h[c].cmd \in {"CONTINUE_QUIZ", "END_QUIZ"}
  /\ UNCHANGED <<users, quizVars>>
  /\ Reply(c)

FetchUnattempted(c) ==
  /\ h[c].cmd = "FETCH_UNATTEMPTED"
  /\ UNCHANGED <<users, quizVars>>
  /\ Reply(c)

(* HandleFetchQuestion, for a valid or an invalid question id.              *)
FetchQuestion(c) ==
  /\ h[c].cmd = "FETCH_QUESTION"
  /\ \/ UNCHANGED users  \* invalid question ID
     \/ /\ ~TimeElapsed(users[h[c].usr])
        /\ users' = [users EXCEPT ![h[c].usr].last = now]
  /\ UNCHANGED quizVars
  /\ Reply(c)

(* HandleSubmitAnswer once the request has been accepted: the report is     *)
(* added as it is, whatever its sign and whatever the clock says.           *)
(* Its mutant forgets to take the old reward back.                          *)
AnsweredUngraded(user, q, sel, report) ==
  [user EXCEPT !.last = now, !.elapsed = @ + report,
               !.res = [AddAnswer(@, q, sel) EXCEPT !.score = @ + Reward(Grade(q, sel))]]

Answered(user, q, sel, report) ==
  [user EXCEPT !.last = now, !.elapsed = @ + report, !.res = AddAnswer(@, q, sel)]

(* A request with selected_options or time_to_attempt_in_ms of another type *)
(* throws after the activity has been noted; ProcessRequest turns the       *)
(* exception into an error reply.                                           *)
SubmitAnswer(c) ==
  /\ h[c].cmd = "SUBMIT_ANSWER"
  /\ \/ UNCHANGED users  \* time has elapsed, or invalid question ID
     \/ /\ ~TimeElapsed(users[h[c].usr])
        /\ \/ users' = [users EXCEPT ![h[c].usr].last = now]
           \/ \E q \in Questions, raw \in RawSelections, report \in Reports :
                /\ users[h[c].usr].elapsed + report \in -MaxElapsed..MaxElapsed
                /\ users' = [users EXCEPT
                               ![h[c].usr] = Answered(@, q, SelectedOps(raw), report)]
  /\ UNCHANGED quizVars
  /\ Reply(c)

(* user->AddToElapsedTimeInQuiz, for the time since the last activity.      *)
AddCharge(user) ==
  [user EXCEPT !.elapsed = @ + (now - user.last), !.charged = @ + (now - user.last)]

(* Mutants of the charge: put in place of the time so far, last activity    *)
(* kept.                                                                    *)
ChargedInPlace(user) ==
  IF user.last = 0 THEN user
  ELSE IF Mode = "TIME_BOUND"
  THEN [AddCharge(user) EXCEPT !.elapsed = now - user.last, !.last = 0]
  ELSE [user EXCEPT !.last = 0]

ChargedKeepsLast(user) ==
  IF user.last = 0 \/ Mode # "TIME_BOUND" THEN user ELSE AddCharge(user)

(* CalculateElapsedTimeOnDisconnection. *)
Charged(user) ==
  IF user.last = 0 THEN user
  ELSE IF Mode = "TIME_BOUND" THEN [AddCharge(user) EXCEPT !.last = 0]
  ELSE [user EXCEPT !.last = 0]

(* HandleLogout and OnDisconnect, before RemoveSession. *)
ChargeUser(c) ==
  /\ h[c].cmd \in {"LOGOUT", "CLOSE"}
  /\ users' = [users EXCEPT ![h[c].usr] = Charged(@)]
  /\ UNCHANGED quizVars
  /\ Goto(c, "drop")

Body(c) ==
  /\ At(c, "body")
  /\ \/ ConfigureUser(c) \/ ReadUser(c) \/ FetchUnattempted(c)
     \/ FetchQuestion(c) \/ SubmitAnswer(c) \/ ChargeUser(c)
  /\ UNCHANGED <<session, envVars>>

RemoveSession(c) ==
  /\ At(c, "drop") /\ sessionMutexFree
  /\ session' = [session EXCEPT ![c] = NoSession]
  /\ Return(c, IF h[c].cmd = "CLOSE" THEN "closed" ELSE "idle")
  /\ UNCHANGED <<users, quizVars, envVars>>

-----------------------------------------------------------------------------
(* The environment. *)

(* The clock, and the history of who has been logged in while it ran. *)
Tick ==
  /\ alive /\ now < MaxTime
  /\ now' = now + 1
  /\ online' = [u \in Keys |-> IF IsUserLoggedIn(u) THEN online[u] + 1 ELSE online[u]]
  /\ UNCHANGED <<session, users, h, quizVars, alive>>

(* The quiz timer runs out: its thread ends the quiz, destroys the timer    *)
(* and with it the std::thread it runs on, and the process terminates (see  *)
(* QuizStateManager).                                                       *)
Expire ==
  /\ alive /\ quizState = "IN_PROGRESS" /\ now >= quizEnd
  /\ alive' = FALSE
  /\ UNCHANGED <<session, users, h, quizVars, now, online>>

Step(c) ==
  \/ Gate(c) \/ LoginPrecheck(c) \/ LoginAdd(c) \/ Lookup(c) \/ GetUser(c)
  \/ CreateUser(c) \/ Body(c) \/ RemoveSession(c)

Next ==
  \/ \E c \in Conns : Connect(c) \/ Receive(c) \/ Disconnect(c) \/ Step(c)
  \/ Tick
  \/ Expire

(* A handler that a thread of the pool has begun is scheduled.              *)
Spec == Init /\ [][Next]_vars /\ \A c \in Conns : WF_vars(Step(c))

-----------------------------------------------------------------------------
(* No user name is logged in on two connections, although HandleLogin       *)
(* checks, unlocks, and only then calls AddSession.                         *)
SessionsInjective ==
  \A c, d \in Conns : LoggedIn(c) /\ session[c] = session[d] => c = d

(* User and Result have no lock: no two handlers work on one User at a      *)
(* time, a disconnection and a new login of the same name included.  (The   *)
(* empty name is excepted: LOGOUT and OnDisconnect of a handle that never   *)
(* logged in work on the User of "".)                                       *)
Touches(c, u) == h[c].at = "body" /\ h[c].usr = u
UserExclusive ==
  \A c, d \in Conns, u \in Names : Touches(c, u) /\ Touches(d, u) => c = d

(* Between GetUser answering null and CreateUser nobody else creates the    *)
(* User, so "Failed to create user session" is never sent.                  *)
SingleCreation ==
  \A c \in Conns : h[c].at = "create" => ~users[h[c].usr].exists

(* No handler but its own START_QUIZ sees a User that is created and not    *)
(* yet configured, with a zero time limit.                                  *)
ConfiguredBeforeUse ==
  \A c \in Conns :
    h[c].at = "body" /\ h[c].usr \in Names =>
      (users[h[c].usr].limit = 0 <=> h[c].cmd = "START_QUIZ")

(* The score each User reports is the sum of the rewards of its statuses.   *)
ScoresAreSums == \A u \in Keys : users[u].res.score = ScoreOf(users[u].res)

(* A User changes only by a handler of the connection that is logged in     *)
(* under its name.                                                          *)
Isolation ==
  [][ \A u \in Names : users'[u] # users[u] =>
        \E c \in Conns : session[c] = u /\ h'[c] # h[c] ]_vars

(* What a User has done survives logout, disconnection and relogin: it is   *)
(* never replaced, its attempted questions only grow, and nothing takes     *)
(* elapsed time back but an answer of the user's own that reports a         *)
(* negative time, which HandleSubmitAnswer does not refuse.                 *)
ProgressKept ==
  [][ \A u \in Keys :
        users[u].exists =>
          /\ users'[u].exists
          /\ Unattempted(users'[u].res) \subseteq Unattempted(users[u].res)
          /\ users'[u].elapsed < users[u].elapsed =>
               \E c \in Conns : /\ h[c].cmd = "SUBMIT_ANSWER" /\ h'[c] # h[c]
                               /\ session[c] = u ]_vars

(* A LOGIN with the empty name is accepted, and LOGOUT and OnDisconnect of  *)
(* a handle without a session go on with that name too, several at a time   *)
(* and without a lock.  The User of that name never has anything they could *)
(* charge, reset or lose: GetUserByHandle does not return it.               *)
NamelessIsInert ==
  /\ users[NoName].last = 0 /\ users[NoName].elapsed = 0
  /\ users[NoName].res = EmptyResult

(* A user who is not logged in has no pending activity, so that the next    *)
(* disconnection cannot charge for the time in between.                     *)
OfflineClean ==
  \A u \in Names : ~IsUserLoggedIn(u) => users[u].last = 0

(* In TIME_BOUND mode the time that disconnections have charged, and the    *)
(* time that one would charge now, is time during which the user was logged *)
(* in, none of it counted twice.  This is about the server's own clock:     *)
(* what clients report besides is added unchecked, and may well be time     *)
(* that a disconnection has charged already.                                *)
ChargedTimeWasOnline ==
  Mode = "TIME_BOUND" =>
    \A u \in Names :
      users[u].charged + (IF users[u].last = 0 THEN 0 ELSE now - users[u].last)
        <= online[u]

(* Every request a thread has taken is answered, and every close handled,   *)
(* unless the process has terminated.                                       *)
RequestAnswered ==
  \A c \in Conns : c \in Busy ~> (c \notin Busy \/ ~alive)

(* The handlers, interleaved as they are, implement the QuizService.        *)
Service ==
  INSTANCE QuizService WITH
    Users <- Keys, Nobody <- NoSession, who <- session,
    started <- {u \in Keys : users[u].exists},
    grades <- [u \in Keys |-> users[u].res.tracker],
    score <- [u \in Keys |-> users[u].res.score]

ImplementsService == Service!Spec

(* Every connection is a QuizLink, which is what QuizClient has for a       *)
(* server: whatever the other connections do, its user changes only by its  *)
(* own handlers, and nobody begins the quiz in that user's name.            *)
Link(c) ==
  INSTANCE QuizLink WITH
    Users <- Keys, Nobody <- NoSession, who <- session[c],
    hasUser <- {u \in Keys : users[u].exists}

ConnectionsAreLinks ==
  /\ \A c \in Conns : Link(c)!Init
  /\ [][ \A c \in Conns :
            IF h'[c] = h[c] THEN [Link(c)!Elsewhere]_(Link(c)!vars)
            ELSE [Link(c)!Own]_(Link(c)!vars) ]_vars

(* The manager of the quiz is only ever asked what QuizGate answers: the    *)
(* server neither replaces a timer nor ends a quiz, so it never blocks on   *)
(* it.                                                                      *)
Manager ==
  INSTANCE QuizGate WITH
    Quizzes <- {"global_quiz"}, EndsAll <- FALSE,
    mode <- IF alive THEN "up" ELSE "down",
    started <- IF quizState = "NOT_STARTED" THEN {} ELSE {"global_quiz"}

NeverBlocksManager == Manager!Spec

-----------------------------------------------------------------------------
(* Refuted.  "Quiz has ended. Only result checking is allowed." is sent     *)
(* while the quiz has not started.                                          *)
RefusedOnlyAfterEnd ==
  [][ \A c \in Conns :
        h[c].at = "gate" /\ h'[c].at = "idle" /\ h[c].cmd # "UNKNOWN"
          => quizState \notin {"NOT_STARTED", "IN_PROGRESS"} ]_vars
=============================================================================

# Formal models of MultiUserQuiz

TLA+ modules, TLC configurations and TLAPS proofs for the quiz server in
`MultiUserQuiz/`. Paths below are relative to that directory of the repository.

## 1. The system

| Component | State | Operations | Talks to |
|---|---|---|---|
| `ServerApp/ConnectionManager` | thread pool, websocket endpoint | OnOpen, OnMessage, OnClose, StartServer, StopServer | QuizController (one call per callback), QuizStateManager (shutdown) |
| `ServerApp/QuizController` | none of its own | ProcessRequest and eight handlers, OnDisconnect, time accounting | SessionManager, QuizStateManager, User, QuestionBank, QuizConfig |
| `ServerApp/SessionManager` | `hdl_to_username`, `username_to_user`, `session_mutex` | AddSession, RemoveSession, GetUsername, GetUser, CreateUser, IsUserLoggedIn, ValidateSession | owns the User objects |
| `User/User`, `Result/Result` | last activity, end time; score, `tracker_map`, `attempt_map`, elapsed time, time limit | setters, SetAndValidateUserAnswer, AddAnswer, GetUnattemptedQuestionIds | grading; no lock of their own |
| `Answer/Answer`, `QuizDefs` | the selected options | SetSelectedOp, ValidateUserAnswer, MakeQuestionFromExcelRow | QuestionBank |
| `QuestionTimer/QuestionTimer` | three flags, `current_state`, `timer_thread`, `mtx`, `cv` | Start, Stop, ForceStop, destructor | two callbacks on the timer thread |
| `ServerApp/QuizStateManager` | `quiz_states`, `quiz_timers`, `client_callbacks`, `state_mutex` | StartQuiz, EndQuiz, ForceEndQuiz, ForceEndAllQuizzes, RegisterClient, NotifyClients, queries | owns QuestionTimers, is called back by them |
| `QuizMgr` | user, mode, `vTimedOut` | the single-user quiz loop | QuestionTimer, User, QuestionBank |
| `Question/QuestionBank`, `Question` | id to question map | add, update, remove, get, reset | read by everyone |
| `Config/QuizConfig` | mode, limits, rewards | load from an ini file | read by everyone |
| `ClientApp/*` | connection, session data, menu state | connect, send, process response, menus | the server |
| `ServerApp/MultiUserQuizServer`, `ClientApp/MultiUserQuizClient` | none | load the settings, load the questions, serve; the signal handlers | all of the above |

What is hard here:

- **Threads.** `StartServer` runs the websocket loop on a pool. Callbacks of one
  connection are serialised by its strand; callbacks of different connections
  interleave between any two critical sections of `session_mutex`, and the work on
  a User is done outside every lock.
- **Check, unlock, act.** Login (`IsUserLoggedIn`, then `AddSession`), creation of a
  User (`GetUser`, then `CreateUser`, then its configuration) and the start of the
  quiz (`IsQuizActive`, then `StartQuiz`) each take several critical sections.
- **Locks.** `AddSession` and `ForceEndAllQuizzes` lock a mutex they hold;
  `EndQuiz` and `StartQuiz` join a timer thread while they hold the mutex its
  callback needs; a timed-out quiz destroys the timer on whose thread it runs.
- **Time.** An answer or a forced stop races the deadline in QuestionTimer; elapsed
  time comes partly from the client's reports, added unchecked, and partly from what
  the server charges at a disconnection.
- **Reconnection.** A user keeps a User object over logout, disconnection and login.
- **The client waits for no reply.** A menu is chosen from a state that may be out of
  date, and requests of two users of one client may be under way together.
- **Start-up.** The lines of the ini file act in file order; questions are numbered by
  counting; the bank may be edited while a question of it is being read.

Every hazard, at its line and with the properties aimed at it, is listed in
`PROJECT.json`.

## 2. Modules

| Module | Models | State and actions |
|---|---|---|
| `Grading` | `ValidateUserAnswer`, `Answer::SetSelectedOp`, `Result` as a record | operators: `Grade`, `SelectedOps`, `AddAnswer`, `Unattempted` |
| `QuizResult` | a user's Result under any sequence of submissions | `Submit` is `User::SetAndValidateUserAnswer`; `lastSel` is a history variable |
| `TimerOps` | the QuestionTimer object as a record and each of its sections under `mtx` as an operator | used by the next two modules |
| `QuestionTimer` | one timer, its owner and its thread | owner: `EnterStop`, `EnterForceStop`, `Join`, `StartFlags`, `StartThread`; thread: `ThreadEnter`, `Deadline`, `ThreadWake`, `CallbackReturns` |
| `QuizStateManager` | the manager, its callers, several timers with real threads | a frame `th[a]` per thread; one action per section of `state_mutex` and per join |
| `QuizServer` | ConnectionManager, QuizController, SessionManager and the Users | a handler record `h[c]` per connection; one action per critical section or stretch of unlocked work |
| `QuizMgr` | the single-user quiz: `StartQuiz` and `WaitForUserAnswer` on the main thread | one action per stretch between two looks at `vTimedOut`, two calls on the timer or two lines of input; every step of `QuestionTimer` (INSTANCE) inside the timer's calls and on its thread |
| `QuizClient` | the client program: main thread, websocket thread, session manager, the connection, and which reply the server chooses | menus (`ShowMainMenu`, ...), `Disconnect`, `JoinClientThread`; `OnOpen`, `OnClosed`, one action per reply handler; `Server` |
| `QuizService` | what the server promises its users (abstract) | who is logged in, who has started, each user's grades and score |
| `OneShot` | what a QuestionTimer promises its owner (abstract) | a generation that is open or not, its outcome, its callback; `Win`, `ComeLate`, `TimeOut`, `Close` |
| `QuizGate` | what the QuizStateManager promises its callers (abstract) | the started quizzes, and `mode`: it answers, it is stuck, the process is gone |
| `QuizLink` | what the server does for one connection (abstract) | who is logged in on it, who has begun the quiz; `Login`, `Leave`, `Start`, and `Elsewhere` |
| `QuestionBank` | the bank, its questions as objects with holders | one action per operation; `use_count()` is the number of readers and map entries that hold an object, `Destroy` the destructor |
| `QuizConfig` | the settings, their defaults and the parser `ini_parse` calls | `ParseLine` reads one more line |
| `QuizSetup` | the server's `main()` from the ini file over the sheet to requests that read the bank | `ReadLine`, `ConfigLoaded`, `LoadRow`, `BankLoaded`, `AcceptId`, `FetchQuestion`, `ReplySent`, `EditBank` |
| `MCQuizResult`, `MCQuizServer`, `MCQuizMgr`, `MCQuizSetup` | constants for TLC | |
| `GradingProofs`, and `...Proofs` for `QuizResult`, `QuestionTimer`, `QuizServer` (with `QuizService`), `QuizStateManager`, `QuizMgr`, `QuizClient`, `QuizSetup` | lemmas and theorems | |

`QuizServer` EXTENDS `Grading` and its handlers change a User with the operators
that `QuizResult` is checked and proved about. `QuestionTimer` and
`QuizStateManager` share `TimerOps`: the first shows the timer right for an owner
whose callbacks return, the second puts it under a mutex where they cannot.
`QuizMgr` composes `QuestionTimer` itself, through INSTANCE, with the one owner whose
callback does return.  `QuizClient` meets the server at the two queues of a websocket:
its `Server` action chooses a reply, and what it does to the session is an action of
`QuizLink` (INSTANCE). `QuizServer` is shown to be a `QuizLink` on each of its
connections, so what is shown of the client holds beside that server.
`QuizSetup` composes `QuestionBank` and `QuizConfig` (EXTENDS); what it shows of a server
that serves (`ServingIsReady`) is what `QuizServer` and `QuizMgr` assume: questions
`1..NumQuestions`, each with a fixed key.
`QuizServer` takes from `QuizStateManager` what `QuizGate` says: no request sees an ended
quiz (so `quizState` has two values), a timer that runs out terminates the process
(`Expire`), and a query blocks only after a quiz has been ended or replaced. The manager
implements `QuizGate` for any callers; the server's own calls are among those that
leave it answering (`NeverBlocksManager`).

A handler of the server goes through these places; each arrow is a step and other
connections move in between:

    idle -> gate -> precheck -> add -> idle                     LOGIN
                 -> lookup -> getuser -> create -> body -> idle  START_QUIZ
                 -> lookup -> getuser -> body -> idle            the other requests
    idle -> (gate ->) lookup -> getuser -> body -> drop          LOGOUT, close

ValidateSession and the following GetUsername are one step: only the connection's
own handlers change its entry, and they are serialised.

### Modelling decisions

- **The relock in AddSession** (`SessionManager.cpp:18-21`) is undefined behaviour.
  `ReentryOutcomes` lists what it may do: `"hang"`, `"throw"` (an error reply), or
  `"grant"`. The libraries we know hang or throw; `"grant"` is what the code would do
  with the second lock removed. All results about logged-in users are therefore
  about the code *as it behaves once AddSession returns*; `server_relock` shows what
  happens before.
- **The quiz is started by the host** (`HostStartsQuiz`) as `InitializeQuiz` does in
  the usage example at `QuizStateManager.cpp:146`. The shipped main program does
  not, and the gate then refuses every request (`server_gate`).
- **One global quiz id**, as in `ProcessRequest`. **Replies** are reduced to the fact
  that the handler has answered.
- **Time** is an integer clock with `MaxTime` as its bound. What a client reports for an
  answer is any member of `Reports`, a set of integers of either sign, as the server adds
  the number it is sent (`QuizController.cpp:333-334`); `MaxElapsed` bounds the sum. A
  request whose fields have another type notes the activity and records no answer
  (`SubmitAnswer`). `charged` is history: the part of a User's elapsed time that
  disconnections have added by the server's own clock. The time check of a request and
  its update of the User are one step.
- **Scores** are counted in units of the smallest configured reward; the doubles in
  the code represent such values exactly.
- **A timer's deadline** may pass at any moment; a spurious wake-up is no step since
  `wait_for` tests its predicate again.
- **A typed line** is the set of options it parses to; a refused line is the empty
  set. Which lines are refused is the code's rule, not the user's choice.
- **Client data.** Of the quiz data of a client only the state and the name are kept. The
  current question, which an answer is sent for, is left out with its id: it is set when
  a question is requested, and no property of it was found to hold (see the findings).
  The score, the times and the question lists, which are only displayed, are left out
  too. `by` and `shown` are history: the name the client held when it showed the menu.
- **The server of `QuizClient`** may refuse any request but LOGIN, whose reasons
  (time, gate, invalid id) it does not model; a granted LOGIN assumes, as
  `QuizServer` does with `"grant"`, that AddSession returns.
- **A line of the ini file** is a key and a value that parsed; every line the parser
  refuses is one value, since each leaves the settings alone. **A row of the sheet** is
  whether its fields are there, whether its number parses and which option each token
  stands for. **Scores** are counted in half points, so that `posMarking / 2` is exact.
- **The bank and its readers.** `TotalQuestionCount` is read without the mutex; one value
  is read, and the step in which it is used is the step in which it is read. The shared
  pointer the loader itself holds is ignored: loading is over before anybody else runs.
  `HostEdits` lets the bank's public operations run while the server serves; no shipped
  program calls them then.
- **Stop and ForceStop** of QuestionTimer are split at the release of `mtx`; Stop's
  join *under* `mtx` (line 82) is a place of its own, `joinLocked`.

## 3. Runs

| Run | Bounds | Shows |
|---|---|---|
| `quiz_result` | 3 questions (one right option, two, none), 7 selections including none, all and an invalid index | `ScoreIsSumOfStatuses`, `StatusIsGradeOfLast`, `StoredAnswerEarnsStatus` |
| `question_timer` | 4 starts: each kind of end of a generation, followed by another | `OneOutcome`, `NoLostWakeup`, `NeverOverwritesThread`, `RunningIsExact`, that the timer implements `OneShot`, `CallsReturn` |
| `manager` | 2 callers, 2 quizzes, 3 timers: a quiz restarted by either caller while another quiz runs | `EndedNeverSeen`, `ActiveIsTimed`, `NoStrayTimer`, `JoinUnderLockBlocks`, that the manager implements `QuizGate`, that each of its timers is a `OneShot` |
| `server_time_bound` | 2 connections for 1 name (and the empty name), 1 question, clock to 3, a time limit of 2 and reports of -1 and 2 (elapsed time from -2 to 2 by reports), every relock outcome, expiry of the quiz | `SingleCreation`, `ConfiguredBeforeUse`, `ScoresAreSums`, `NamelessIsInert`, `ChargedTimeWasOnline`, `Isolation`, `ProgressKept`, that each connection is a `QuizLink` |
| `server_relogin` | 2 connections, 1 name (and the empty one), LOGIN allowed on a logged-in connection, STRICT mode with a deadline inside the clock of 2, relock granted or thrown | `SessionsInjective`, `UserExclusive`, that `QuizServer` implements `QuizService`, and `RequestAnswered` |
| `quiz_mgr` | 3 questions, 5 kinds of line, clock to 3, both timer modes and both option modes | `VerdictIsTheRace`, `AtMostOneLate`, `MultiBulletRecordsNothing`, `QuizEnds` |
| `quiz_setup` | files of up to 4 of 12 lines, sheets of up to 3 of 7 rows, 3 question objects, 2 readers, with edits of the bank | `ServingIsReady`, `HeldStays`, `AcceptedIdIsFound`, `ConfigFollowsOrder`, `KBCNeedsBullet` |
| `quiz_client` | 2 names, 6 requests, exit, signal or disconnection at any moment | `MenuFitsUser`, `SettledAgrees`, `SubmitCredited`, `ExitCompletes` |
| `server_relock` | relock hangs | refutes `RequestAnswered` |
| `server_gate` | no host | refutes `RefusedOnlyAfterEnd` |
| `server_offline` | LOGIN allowed on a logged-in connection | refutes `ChargedTimeWasOnline` |
| `manager_timeout` | 1 caller, 1 timer | refutes `TimeoutSurvived` |

Why the bounds are enough: the interesting races are between two handlers (a login
against a login, against a disconnection, a START_QUIZ against another), so two
connections meet all of them; names matter only as equal or different; one question
lets an answer be given and corrected, and three cover the interplay of rewards in
`quiz_result`. A clock of three allows activity, absence and return; one report takes
time back and the other uses up the limit at once. The other runs of the server, whose
properties are not about elapsed time, report 0. Three questions
let a timeout of one question reach the next and the one after it. Six requests are
the shortest way through LOGIN, CONTINUE_QUIZ, LOGOUT, LOGIN as somebody else,
CONTINUE_QUIZ and SUBMIT_ANSWER, all sent before the first reply if the user likes. Four
lines are a mode, a reward,
a line that depends on one of them, and one that changes it afterwards. Three objects
are a question that is held, the one that replaces it and one more.
Readers and objects in `quiz_setup`, and connections in `server_time_bound`, are
interchangeable (SYMMETRY, in runs without liveness properties).
The theorems of section 4 hold without these bounds.

Deadlock checking is off in `manager*`, `server_relock` and `server_time_bound`
(the modelled process terminates or hangs), in `question_timer` (the owner may
destroy the timer and stop) and in `quiz_setup` (`main()` may give up or crash).

**Fairness.** `QuestionTimer`: weak fairness of the owner's unfinished call and of
the timer thread, i.e. the OS schedules threads and time passes; nothing forces the
owner to call. `QuizServer`: weak fairness of each handler that has begun (a pool
thread runs it, and `session_mutex` is never held across a step unless a handler is
hung). `QuizStateManager`: weak fairness of each call in progress and each timer
thread. `QuizMgr`: weak fairness of both threads, of the deadline and of the user's
next line, because `getline` blocks and no timer interrupts it; the line need not be
acceptable. `QuizClient`: weak fairness of the main thread outside the menus and of the
closing handshake (websocketpp ends it by a timeout if the peer does not answer).

### Findings

`PROJECT.json` quotes the lines. In short:

1. AddSession locks `session_mutex` twice; where that blocks, the first login stops
   the server (`server_relock`).
2. Before a quiz is in progress every command but LOGIN is refused with "Quiz has
   ended", and the command that starts a quiz is among them (`server_gate`).
3. LOGIN on a logged-in connection leaves the previous user's last activity in
   place, and a later disconnection charges the absence (`server_offline`). The
   client's menu allows this: it offers LOGIN until LOGIN_OK arrives.
4. A quiz that times out terminates the server (`manager_timeout`).

Seen while modelling, without a run of their own:

- ForceEndAllQuizzes never returns, with or without active quizzes: it calls
  NotifyAllClients, which locks the mutex again (`NotifyAllClients` of
  `QuizStateManager` has no third outcome). ForceStop of an active quiz never returns
  either: that is `JoinUnderLockBlocks`, which holds.
- A blank answer is graded as incorrect: the test at `QuizDefs.cpp:17`, commented "No
  answer selected" and returning UNATTEMPTED, is never true; `Answer/Answer.h:16,23`
  call a blank answer unattempted too. `Grade` does what the code does;
  `StatusIsGradeOfLast` makes no claim about a question whose last submission is blank.
- `attempt_map` keeps the older of two answers with equal status;
  `StoredAnswerEarnsStatus` says only that it earns the same status.
- A client may report any time, negative ones included, and it is added: elapsed time can
  go back (`ProgressKept` says: only by an answer of that user's own). Nor are reports
  matched against what disconnections have charged: a question fetched before a
  disconnection and answered after the next login counts the interval twice, and so does
  a corrected answer. `ChargedTimeWasOnline` is about the server's own clock only.
- LOGIN with the empty name is accepted, and LOGOUT and the close of a connection without
  a session work on the User of that name, several at once and without a lock. They find
  nothing there (`NamelessIsInert`), because GetUserByHandle does not return it.
- ForceStop of a QuestionTimer returns at once when the timer has been decided, while its
  timeout callback may still be running or not have begun; it does not join.
- Each user of a STRICT quiz has an end time of their own although `QuizDefs.h:11`
  describes a hard common one.
- `QuizMgr` adds the timer's whole elapsed time after every question (line 123); with
  multiple options allowed, a valid line does not end the wait (line 205), so bullet
  mode records nothing at all (`MultiBulletRecordsNothing`, which holds), and a time
  limit passing between two questions has the next one graded as a blank answer.
- In the ini file IsKBCMode before a QuizMode that is not BULLET leaves KBC on in a mode
  that `Config/QuizConfig.h:62` forbids it in: `KBCNeedsBullet` holds under the premise
  that the mode comes first, and `ConfigFollowsOrder` makes no claim about KBC. A
  positive IncorrectPenalty is accepted.
- The default time limit `15*1000` is meant as 15 seconds (`QuizConfig.cpp:165`) and
  multiplied by 1000 again in the server (`QuizController.cpp:132`, `:409`); TimeAllowed
  is in seconds and used as milliseconds by QuizMgr (`QuizMgr.cpp:11`).
- Four right options are accepted although MAX_NUMBER_OF_CORRECT_OPTION is 3; "AC"
  without a comma reads as A; a cell "," gives a question without a right option; the
  number of a row only sets `exclquesID`.
- A bad row leaves a partly loaded bank, but `main()` exits. An empty sheet is served,
  and the BULLET limit computed from it is 0. `InitializeQuestionBank` ignores the file
  name it is given.
- After a removal the id of an added question may be taken, so the addition fails, and
  an id that passed the range test may be missing: `QuizController.cpp:260-264`
  dereferences null then. `AcceptedIdIsFound` says that this is the only way.
- A fetch typed in a quiz menu that a LOGOUT_OK has made stale leaves a current question
  (it is refused), which the next user of the client may answer; a second LOGIN_OK
  without LOGOUT keeps the former user's score and current question.
- The client shows neither the id nor the text of a question: the server sends them as
  "id" and "text" (`QuizController.cpp:264-265`), and ShowQuestion reads other keys
  (`QuizClientUI.cpp:208-216`).
- A client whose connection opens more than a second after the attempt never exits:
  `close()` on a connecting connection is refused, and Disconnect joins a thread that
  runs until the peer closes. `ExitCompletes` is about an open connection.

## 4. Proofs

TLAPS checks the following for every value of the constants that satisfies the named
assumptions (`GradingAssumption`, `RawSelectionsAssumption`,
`QuestionTimerAssumption`, `QuizServerAssumption`, `QuizStateManagerAssumption`,
`QuizMgrAssumption`, `QuizClientAssumption`, `QuestionBankAssumption`,
`QuizConfigAssumption`, `QuizSetupAssumption`), which TLC also evaluates. Every safety
property of a passing run has its theorem. Where the theorem `TypeCorrect` shows that the
types are kept, no run repeats it: they hold for all parameters, and the other theorems
of the module rest on them.

- `GradingProofs`: `AddAnswer` moves one question between the four status classes,
  and the score by exactly the difference of the rewards (`AddAnswerScore`, from
  `CountUpdate` on cardinalities and `Distribute`).
- `QuizResultProofs`: the score is a sum of cardinalities, so it is inductive together
  with the types; that a stored answer earns its status needs in addition that the
  early return is taken only when the status is unchanged.
- `QuestionTimerProofs`: `IInv` adds to the run's invariants what the owner's place says
  of the thread (no thread at `flags` and `spawn`, a decided one at `joinLocked`,
  signalled flags at `join`) and which flags each thread state allows. From it:
  exclusive and final outcomes, no lost wake-up, no thread overwritten. Decided outcomes
  and `asked`/`fired` agree only because flags and thread state are related, which is
  why the plain properties are not inductive. `TimerIsOneShot` is the refinement: the
  generation is open while the thread is joinable, its outcome is `current_state`, and
  the owner waits at the two joins; each section under `mtx` is one step of `OneShot` or
  a stutter.
- `QuizServerProofs`, first part: `IInv` is the conjunction of the types,
  `SessionsInjective`, `HandlersInv` (a handler past `lookup` holds exactly the name its
  connection is logged in with; one at `create` or `body` knows whether the User exists),
  `ClockInv` (a last activity is not in the future) and `ScoresAreSums`. The check
  inside AddSession makes sessions injective; injective sessions and stable entries
  make `UserExclusive` and `SingleCreation`. The theorems hold for any number of
  connections and names, all modes and all relock outcomes.
- `QuizServerProofs`, second part: `NextEffect` sorts the steps by what they do to
  sessions and Users, `BodyEffect` does the same for the handlers at work on a User. On
  it rest `Isolation`, `ProgressKept` and `NamelessIsInert`. `ConfiguredBeforeUse` needs
  `InConfiguration` (a User without a limit is in the hands of the START_QUIZ that
  created it) and that a BULLET quiz has questions (`HasQuestions`).
  `ChargedTimeWasOnline` is proved from `Account`: what disconnections have charged and
  what is pending add up to no more than the time online, whatever clients report, and
  only while a session exists is anything pending. It assumes `AllowRelogin = FALSE`;
  `server_offline` refutes it otherwise. The refinement of `QuizService` maps each step
  to one of its steps or a stutter: an answer takes effect in the step that updates the
  User, a login in the one that adds the session.
- `QuizServerProofs`, third part: `EveryConnectionIsLink` reads each connection as a
  `QuizLink`. A step of its own handler is one of the link's own; a step of another is
  `Elsewhere`, because sessions are injective and so no other handler creates this
  connection's user. `ServerSparesManager` maps the server's use of the manager to
  `QuizGate` with one quiz, never ended and never started again: `Admitted` says that a
  handler at work on START_QUIZ passed the gate, hence finds the quiz in progress, so
  that IsQuizActive and StartQuiz (`QuizController.cpp:146`) cannot be torn apart by a
  second START_QUIZ. `Expire` is the gate's `TimeOut`.
- `QuizStateManagerProofs`: nobody calls Stop, so a timer thread never ends without its
  callback, and the callback needs `state_mutex` (`TimersInv`, `PlacesInv`). The map,
  the states and the timers agree only when the mutex is free, or held at two early
  places (`Calm`); a join begun under the mutex never ends, so nothing needs to hold
  after it. This is why the proofs go through in spite of the deadlocks.
  `ManagedTimersAreOneShots` maps each timer by its own state and by whether the holder
  of the mutex joins it. `ManagerIsGate` maps the manager: it is up while `Calm`, stuck
  when the mutex is held elsewhere, down when the process is gone. That nothing leads
  from stuck back to up needs an invariant about the sweep of ForceEndAllQuizzes
  (`SweepInv`) beside `IInv`.
- `QuizMgrProofs`: the invariant of `QuestionTimerProofs` by INSTANCE, plus what each
  place of the main thread knows of the thread and the flag: in bullet mode no thread
  outlives its question (`BetweenInv`), so the flag is this timer's (`FlagInv`);
  otherwise the one timer of the quiz fires once (`LateInv`). `TimerIsOneShot` carries
  the refinement of `OneShot` over to the composition.
- `QuizClientProofs`: the replies and requests under way are read as one stream of
  messages, the next reply first. `SessionInv`: handled in order, the replies turn the
  client's session into the server's, and one that activates the quiz meets a user who
  started it. `StreamInv`: the logins in the stream are neighbours (`NoneBetween`);
  other messages are on one side of them only (`OneSide`), and what is before them was
  sent after a logout (`Older`). What follows for each place of the main thread
  (`LoggedOutInv`, `MenuInv`, `ActiveInv`) is that no quiz reply can meet a session it
  was not meant for. `CreditInv`: no LOGIN comes between a quiz menu and the answer
  typed in it. For any number of users and requests, in any interleaving with replies
  and disconnections. What the server does in these proofs is a `QuizLink`, no more.
- `QuizSetupProofs`: `Named` (an object knows the id it is filed under), `HeldInv` and
  `OrphansInv` (who holds what), `NoGap` (ids are 1 to the count until a removal),
  `Loaded` (the bank has the rows read so far). `OrderDecides` reads each setting off the
  file, by comparing a file with the same file and one more line (`OneMoreLine`); that
  any set of its lines has a last one is part of the invariant, for want of induction.
  `KBCOnlyInBullet` needs beside it that a line accepted for KBC was read in BULLET mode.

  `ServedQuestionsAreConstant`: without edits, the bank that is served satisfies what
  `Grading` assumes of `NumQuestions` and `Correct`, and stays as it is. It is stated
  under `HostEdits = FALSE`, as the shipped programs run; the run `quiz_setup` allows
  edits and so cannot list it.

The models fit together by these theorems: `Grading`'s constants are what `QuizSetup`
serves; the timer that `QuizMgr` and `QuizStateManager` use is the `OneShot` that
`QuestionTimer` is; the manager that `QuizServer` uses is the `QuizGate` that
`QuizStateManager` is; the server that `QuizClient` talks to is the `QuizLink` that each
connection of `QuizServer` is. The last three are refinements over shared abstract
modules and not one composed model: a step of one model is not synchronised with a step
of the other.

**Liveness** itself is out of the prover's reach, and ENABLED with it: `CallsReturn`,
`RequestAnswered`, `QuizEnds` and `ExitCompletes` are model-checked only. What can be
proved of each is the part that is safety. There is a measure that falls with every step
of the threads concerned, and while it has not reached its end one of them may step:
then fair scheduling alone decides.

| Property (TLC) | Theorem (TLAPS) | It proves | What stays with TLC |
|---|---|---|---|
| `CallsReturn` | `CallsAreBounded` | at most 11 steps of the owner's call and the thread; one of the two can always go on | that the thread is scheduled and the deadline passes |
| `RequestAnswered` | `HandlersAreBounded` | at most 6 steps of a handler; only a relock that hangs blocks one, and then no session is opened or closed again | that a pool thread runs the handler |
| `QuizEnds` | `NeverStuck` | done, or between calls, or in a call of the timer that comes nearer its return | that lines are typed and questions run out |
| `ExitCompletes` | `ExitIsBounded` | leaving an open connection closes it; at most 4 steps, one always possible | that the handshake ends and the thread runs |

"May step" is there the conjunction of the actions' guards, written out
(`SomebodyGoesOn`, `MayStep`, `MayLeave`), not ENABLED.

The four runs that expect a violation are TLC's alone. No recursive operator is used.

## 5. Not modelled

TLS, sockets and the JSON codec; console output; `PrintFinalResult`; the time
readings of QuestionTimer; the numeric width of `time_to_attempt_in_ms`; the client's
current question; a signal taken
by a thread of the client other than the main one, or by it inside a locked section; the
old texts `ServerApp/*OLD*` (not built).

`External/` holds copies of nlohmann/json, OpenSSL headers, asio, websocketpp, xlnt and
inih: more than 200 000 of the repository's lines, none of them this project's. They
appear in the models by what the code relies on: callbacks of a connection one at a
time, messages in order, one parser call per line, one row after another. The project's
own code is about 4 200 lines; what remains of it
without a definition is input and output, wiring and the items above.

## 6. Plan

Done, in this order: `Grading` and `QuizResult`; `TimerOps` and `QuestionTimer`;
`QuizServer` with `QuizService`; `QuizStateManager`; `QuizMgr`; `QuizClient`;
`QuestionBank`, `QuizConfig` and `QuizSetup`; proofs of every safety property; the
abstract modules `OneShot`, `QuizGate` and `QuizLink` with their refinements; the safety
part of every liveness property.

What could be added: several clients and the server as one model, where today they share
`QuizLink`; a width model of the JSON conversions of the client's reports; the client's
current question, score and question lists.

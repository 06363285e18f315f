-------------------------- MODULE QuizServerProofs --------------------------
(***************************************************************************)
(* Proofs about QuizServer, for any number of connections, users and       *)
(* threads, every mode, every outcome of the relock in AddSession, and     *)
(* with or without the host and repeated logins.                           *)
(***************************************************************************)
EXTENDS QuizServer, GradingProofs

(* A handler that has read its username works for the user its connection   *)
(* is logged in as; only LOGOUT and OnDisconnect go on without a session.   *)
Holding == {"getuser", "create", "body", "drop"}
Leaving == {"LOGOUT", "CLOSE"}
Linked(c, hd) ==
  hd.at \in Holding =>
    \/ session[c] = hd.usr
    \/ session[c] = NoSession /\ hd.usr = NoName /\ hd.cmd \in Leaving

(* What the place of a handler says about the User it will work on.         *)
Placed(us, hd) ==
  /\ hd.at = "create" => hd.cmd = "START_QUIZ" /\ ~us[hd.usr].exists
  /\ hd.at = "body" => /\ us[hd.usr].exists
                       /\ hd.cmd = "START_QUIZ" => us[hd.usr].limit = 0
                       /\ hd.cmd \in ByHandle => hd.usr # NoName
  /\ hd.at = "drop" => hd.cmd \in Leaving

HandlersInv == \A c \in Conns : Linked(c, h[c]) /\ Placed(users, h[c])

ClockInv == \A u \in Keys : users[u].last <= now

IInv == TypeOK /\ SessionsInjective /\ HandlersInv /\ ClockInv /\ ScoresAreSums

LEMMA NoHandlerType ==
  \A label \in Pcs : /\ NoHandler(label) \in Handler
                     /\ NoHandler(label).at = label
  BY DEF NoHandler, Handler, Keys

LEMMA NoUserType == NoUser \in User /\ NoUser.res = EmptyResult /\ NoUser.last = 0
                    /\ ~NoUser.exists /\ NoUser.limit = 0
                    /\ NoUser.elapsed = 0 /\ NoUser.charged = 0
  BY EmptyResultFacts DEF NoUser, User

LEMMA InitIInv == Init => IInv
  <1>. SUFFICES ASSUME Init PROVE IInv
    OBVIOUS
  <1>. USE QuizServerAssumption, NoUserType
  <1>1. TypeOK
    <2>1. h \in [Conns -> Handler]
      BY NoHandlerType DEF Init, Pcs
    <2>2. users \in [Keys -> User] /\ online \in [Keys -> Nat]
      BY DEF Init
    <2>. QED
      BY <2>1, <2>2 DEF Init, TypeOK, Keys
  <1>2. SessionsInjective
    BY DEF Init, SessionsInjective, LoggedIn
  <1>3. HandlersInv
    BY NoHandlerType DEF Init, HandlersInv, Linked, Placed, Holding, Pcs
  <1>4. ClockInv /\ ScoresAreSums
    BY EmptyResultFacts DEF Init, ClockInv, ScoresAreSums
  <1>. QED
    BY <1>1, <1>2, <1>3, <1>4 DEF IInv

-----------------------------------------------------------------------------
(* A step of one handler that touches no map. *)
LEMMA LocalStep ==
  ASSUME IInv, NEW c \in Conns, NEW g \in Handler, h' = [h EXCEPT ![c] = g],
         UNCHANGED <<session, users, quizVars, envVars>>,
         Linked(c, g), Placed(users, g)
  PROVE  IInv'
  <1>1. TypeOK'
    BY DEF IInv, TypeOK, quizVars, envVars
  <1>2. HandlersInv'
    BY DEF IInv, HandlersInv, TypeOK, Linked, Placed
  <1>3. SessionsInjective'
    BY DEF IInv, SessionsInjective, LoggedIn
  <1>4. ClockInv' /\ ScoresAreSums'
    BY DEF IInv, ClockInv, ScoresAreSums, envVars
  <1>. QED
    BY <1>1, <1>2, <1>3, <1>4 DEF IInv

(* A handler that returns. *)
LEMMA ReturnStep ==
  ASSUME IInv, NEW c \in Conns, Reply(c),
         UNCHANGED <<session, users, quizVars, envVars>>
  PROVE  IInv'
  <1> DEFINE g == NoHandler("idle")
  <1>1. g \in Handler /\ g.at = "idle"
    BY NoHandlerType DEF Pcs
  <1>2. h' = [h EXCEPT ![c] = g]
    BY DEF Reply, Return
  <1>. HIDE DEF g
  <1>3. Linked(c, g) /\ Placed(users, g)
    BY <1>1 DEF Linked, Placed, Holding
  <1>. QED
    BY <1>1, <1>2, <1>3, LocalStep

(* A handler that only moves on, to a place the invariant allows. *)
LEMMA GotoStep ==
  ASSUME IInv, NEW c \in Conns, NEW label \in Pcs, Goto(c, label),
         UNCHANGED <<session, users, quizVars, envVars>>,
         Linked(c, [h[c] EXCEPT !.at = label]), Placed(users, [h[c] EXCEPT !.at = label])
  PROVE  IInv'
  <1>1. [h[c] EXCEPT !.at = label] \in Handler
    BY DEF IInv, TypeOK, Handler
  <1>2. h' = [h EXCEPT ![c] = [h[c] EXCEPT !.at = label]]
    BY DEF Goto, IInv, TypeOK
  <1>. QED
    BY <1>1, <1>2, LocalStep

-----------------------------------------------------------------------------
LEMMA ConnectionSteps ==
  ASSUME IInv, NEW c \in Conns, Connect(c) \/ Receive(c) \/ Disconnect(c)
  PROVE  IInv'
  <1>1. CASE Connect(c)
    BY <1>1, ReturnStep DEF Connect
  <1>2. CASE Receive(c)
    <2>1. PICK g \in Handler : g.at = "gate" /\ h' = [h EXCEPT ![c] = g]
      <3>1. \A command \in Commands \cup {"LOGIN"}, u \in Keys :
              LET g == [at |-> "gate", cmd |-> command, usr |-> u]
              IN  g \in Handler /\ g.at = "gate"
        BY DEF Handler, Pcs
      <3>2. NoName \in Keys
        BY DEF Keys
      <3>. QED
        BY <1>2, <3>1, <3>2 DEF Receive
    <2>2. Linked(c, g) /\ Placed(users, g)
      BY <2>1 DEF Linked, Placed, Holding
    <2>. QED
      BY <1>2, <2>1, <2>2, LocalStep DEF Receive
  <1>3. CASE Disconnect(c)
    <2> DEFINE g == [at |-> "lookup", cmd |-> "CLOSE", usr |-> NoName]
    <2>1. g \in Handler /\ g.at = "lookup"
      BY DEF Handler, Pcs, Keys
    <2>2. h' = [h EXCEPT ![c] = g] /\ UNCHANGED <<session, users, quizVars, envVars>>
      BY <1>3 DEF Disconnect
    <2>. HIDE DEF g
    <2>3. Linked(c, g) /\ Placed(users, g)
      BY <2>1 DEF Linked, Placed, Holding
    <2>. QED
      BY <2>1, <2>2, <2>3, LocalStep
  <1>. QED
    BY <1>1, <1>2, <1>3

(* Places before a username is read carry no obligation. *)
LEMMA EarlyGoto ==
  ASSUME IInv, NEW c \in Conns, NEW label \in {"precheck", "add", "lookup", "hung"},
         Goto(c, label), UNCHANGED <<session, users, quizVars, envVars>>
  PROVE  IInv'
  <1>1. label \in Pcs /\ [h[c] EXCEPT !.at = label].at = label
    BY DEF Pcs, IInv, TypeOK, Handler
  <1>2. Linked(c, [h[c] EXCEPT !.at = label]) /\ Placed(users, [h[c] EXCEPT !.at = label])
    BY <1>1 DEF Linked, Placed, Holding
  <1>. QED
    BY <1>1, <1>2, GotoStep

LEMMA GateStep ==
  ASSUME IInv, NEW c \in Conns, Gate(c) PROVE IInv'
  BY EarlyGoto, ReturnStep DEF Gate

LEMMA LoginSteps ==
  ASSUME IInv, NEW c \in Conns, LoginPrecheck(c) \/ LoginAdd(c)
  PROVE  IInv'
  <1>1. CASE LoginPrecheck(c)
    BY <1>1, EarlyGoto, ReturnStep DEF LoginPrecheck
  <1>2. CASE LoginAdd(c)
    <2>1. CASE UNCHANGED session
      <3>1. Reply(c) \/ Goto(c, "hung")
        BY <1>2 DEF LoginAdd, AddSession
      <3>2. UNCHANGED <<session, users, quizVars, envVars>>
        BY <1>2, <2>1 DEF LoginAdd
      <3>. QED
        BY <3>1, <3>2, EarlyGoto, ReturnStep
    <2>2. CASE session' # session
      <3>1. /\ ~IsUserLoggedIn(h[c].usr)
            /\ session' = [session EXCEPT ![c] = h[c].usr]
            /\ h' = [h EXCEPT ![c] = NoHandler("idle")]
            /\ UNCHANGED <<users, quizVars, envVars>>
        BY <1>2, <2>2 DEF LoginAdd, AddSession, Reply, Return
      <3>2. NoHandler("idle") \in Handler /\ NoHandler("idle").at = "idle"
        BY NoHandlerType DEF Pcs
      <3>3. h[c].usr \in Keys
        BY DEF IInv, TypeOK, Handler
      <3>4. TypeOK'
        BY <3>1, <3>2, <3>3 DEF IInv, TypeOK, quizVars, envVars
      <3>5. SessionsInjective'
        BY <3>1, <3>3 DEF IInv, SessionsInjective, TypeOK, LoggedIn, IsUserLoggedIn
      <3>6. HandlersInv'
        <4>. SUFFICES ASSUME NEW d \in Conns
                      PROVE  Linked(d, h[d])' /\ Placed(users, h[d])'
          BY DEF HandlersInv
        <4>1. CASE d = c
          <5>1. h'[d] = NoHandler("idle")
            BY <3>1, <4>1 DEF IInv, TypeOK
          <5>. QED
            BY <3>2, <5>1 DEF Linked, Placed, Holding
        <4>2. CASE d # c
          BY <3>1, <4>2 DEF IInv, TypeOK, HandlersInv, Linked, Placed
        <4>. QED
          BY <4>1, <4>2
      <3>7. ClockInv' /\ ScoresAreSums'
        BY <3>1 DEF IInv, ClockInv, ScoresAreSums, envVars
      <3>. QED
        BY <3>4, <3>5, <3>6, <3>7 DEF IInv
    <2>. QED
      BY <2>1, <2>2
  <1>. QED
    BY <1>1, <1>2

LEMMA LookupStep ==
  ASSUME IInv, NEW c \in Conns, Lookup(c) PROVE IInv'
  <1> DEFINE g == [h[c] EXCEPT !.at = "getuser", !.usr = GetUsername(c)]
  <1>1. CASE Reply(c)
    BY <1>1, ReturnStep DEF Lookup
  <1>2. CASE ~Reply(c)
    <2>1. LoggedIn(c) \/ h[c].cmd \in Leaving
      BY <1>2 DEF Lookup, Leaving
    <2>2. h[c] \in Handler /\ GetUsername(c) \in Keys
      BY DEF IInv, TypeOK, GetUsername, LoggedIn, Keys
    <2>3. /\ g \in Handler
          /\ g.at = "getuser" /\ g.usr = GetUsername(c) /\ g.cmd = h[c].cmd
      BY <2>2 DEF Handler, Pcs
    <2>4. h' = [h EXCEPT ![c] = g] /\ UNCHANGED <<session, users, quizVars, envVars>>
      BY <1>2 DEF Lookup, IInv, TypeOK
    <2>. HIDE DEF g
    <2>5. Linked(c, g) /\ Placed(users, g)
      BY <2>1, <2>3 DEF Linked, Placed, Holding, Leaving, GetUsername, LoggedIn
    <2>. QED
      BY <2>3, <2>4, <2>5, LocalStep
  <1>. QED
    BY <1>1, <1>2

LEMMA GetUserStep ==
  ASSUME IInv, NEW c \in Conns, GetUser(c) PROVE IInv'
  <1> DEFINE label == AfterGetUser(c)
             g == [h[c] EXCEPT !.at = label]
  <1>1. CASE label = "idle"
    BY <1>1, ReturnStep DEF GetUser
  <1>2. CASE label # "idle"
    <2>1. label \in {"create", "body", "drop"} /\ label \in Pcs
      BY <1>2 DEF AfterGetUser, Pcs
    <2>2. /\ label = "create" => h[c].cmd = "START_QUIZ" /\ ~FindsUser(c)
          /\ label = "body" => h[c].cmd # "START_QUIZ" /\ FindsUser(c)
          /\ label = "drop" => h[c].cmd \in Leaving
      BY DEF AfterGetUser, Leaving
    <2>3. g.at = label /\ g.usr = h[c].usr /\ g.cmd = h[c].cmd
      BY DEF IInv, TypeOK, Handler
    <2>4. Linked(c, h[c]) /\ h[c].at = "getuser"
      BY DEF IInv, HandlersInv, GetUser, At
    <2>. HIDE DEF label, g
    <2>5. Linked(c, g)
      BY <2>3, <2>4 DEF Linked, Holding
    <2>6. Placed(users, g)
      BY <2>1, <2>2, <2>3 DEF Placed, FindsUser, ByHandle
    <2>7. Goto(c, label) /\ UNCHANGED <<session, users, quizVars, envVars>>
      BY <1>2 DEF GetUser, label
    <2>. QED
      BY <2>1, <2>5, <2>6, <2>7, GotoStep DEF g
  <1>. QED
    BY <1>1, <1>2

-----------------------------------------------------------------------------
(* A step of one handler that replaces the User it works on.  Another       *)
(* handler with the same name could only be leaving without a session, or   *)
(* SessionsInjective would not hold.                                        *)
LEMMA UserStep ==
  ASSUME IInv, NEW c \in Conns, NEW g \in Handler, NEW w \in User,
         h[c].at \in {"create", "body"},
         h' = [h EXCEPT ![c] = g],
         users' = [users EXCEPT ![h[c].usr] = w],
         UNCHANGED <<session, envVars>>,
         quizState' \in {"NOT_STARTED", "IN_PROGRESS"}, quizEnd' \in Nat,
         Linked(c, g), Placed(users', g),
         w.exists, w.last <= now, w.res.score = ScoreOf(w.res),
         h[c].cmd = "START_QUIZ" \/ w.limit = users[h[c].usr].limit
  PROVE  IInv'
  <1> DEFINE u == h[c].usr
  <1>1. u \in Keys /\ Linked(c, h[c]) /\ Placed(users, h[c])
    BY DEF IInv, TypeOK, Handler, HandlersInv
  <1>2. TypeOK'
    BY DEF IInv, TypeOK, envVars
  <1>3. SessionsInjective'
    BY DEF IInv, SessionsInjective, LoggedIn
  <1>4. ClockInv' /\ ScoresAreSums'
    <2>. SUFFICES ASSUME NEW v \in Keys
                  PROVE  users'[v].last <= now /\ users'[v].res.score = ScoreOf(users'[v].res)
      BY DEF ClockInv, ScoresAreSums, envVars
    <2>1. users'[v] = IF v = u THEN w ELSE users[v]
      BY DEF IInv, TypeOK
    <2>. QED
      BY <2>1 DEF IInv, ClockInv, ScoresAreSums
  <1>5. HandlersInv'
    <2>. SUFFICES ASSUME NEW d \in Conns PROVE Linked(d, h[d])' /\ Placed(users, h[d])'
      BY DEF HandlersInv
    <2>1. CASE d = c
      <3>1. h'[d] = g
        BY <2>1 DEF IInv, TypeOK
      <3>. QED
        BY <2>1, <3>1 DEF Linked
    <2>2. CASE d # c
      <3>1. h'[d] = h[d] /\ h[d].usr \in Keys
        BY <2>2 DEF IInv, TypeOK, Handler
      <3>2. Linked(d, h[d]) /\ Placed(users, h[d])
        BY DEF IInv, HandlersInv
      <3>3. CASE h[d].usr # u
        <4>1. users'[h[d].usr] = users[h[d].usr]
          BY <3>1, <3>3 DEF IInv, TypeOK
        <4>. QED
          BY <3>1, <3>2, <4>1 DEF Linked, Placed
      <3>4. CASE h[d].usr = u
        <4>1. users'[u] = w
          BY <1>1 DEF IInv, TypeOK
        <4>2. ~(h[c].cmd = "START_QUIZ" /\ h[d].cmd = "START_QUIZ" /\ h[d].at \in Holding)
          <5>. SUFFICES ASSUME h[c].cmd = "START_QUIZ", h[d].cmd = "START_QUIZ",
                               h[d].at \in Holding
                        PROVE  FALSE
            OBVIOUS
          <5>1. session[c] = u /\ session[d] = u
            BY <1>1, <3>2, <3>4 DEF Linked, Leaving, Holding
          <5>2. u # NoSession
            BY <1>1, QuizServerAssumption DEF Keys
          <5>. QED
            BY <2>2, <5>1, <5>2 DEF IInv, SessionsInjective, LoggedIn
        <4>3. h[d].at # "create"
          <5>. SUFFICES ASSUME h[d].at = "create" PROVE FALSE
            OBVIOUS
          <5>1. h[d].cmd = "START_QUIZ" /\ ~users[u].exists
            BY <3>2, <3>4 DEF Placed
          <5>2. h[c].at = "create" /\ h[c].cmd = "START_QUIZ"
            BY <1>1, <5>1 DEF Placed
          <5>. QED
            BY <4>2, <5>1, <5>2 DEF Holding
        <4>4. h[d].at = "body" /\ h[d].cmd = "START_QUIZ" => w.limit = users[u].limit
          BY <4>2 DEF Holding
        <4>. QED
          BY <3>1, <3>2, <3>4, <4>1, <4>3, <4>4 DEF Linked, Placed
      <3>. QED
        BY <3>3, <3>4
    <2>. QED
      BY <2>1, <2>2
  <1>. QED
    BY <1>2, <1>3, <1>4, <1>5 DEF IInv

LEMMA CreateUserStep ==
  ASSUME IInv, NEW c \in Conns, CreateUser(c) PROVE IInv'
  <1> DEFINE w == [NoUser EXCEPT !.exists = TRUE]
             g == [h[c] EXCEPT !.at = "body"]
  <1>1. CASE users[h[c].usr].exists
    BY <1>1, ReturnStep DEF CreateUser
  <1>2. CASE ~users[h[c].usr].exists
    <2>1. w \in User /\ w.exists /\ w.last = 0 /\ w.limit = 0 /\ w.res = EmptyResult
      BY NoUserType DEF User
    <2>2. h[c] \in Handler /\ h[c].at = "create" /\ Linked(c, h[c]) /\ Placed(users, h[c])
      BY DEF IInv, TypeOK, HandlersInv, CreateUser, At
    <2>3. /\ g \in Handler
          /\ g.at = "body" /\ g.cmd = h[c].cmd /\ g.usr = h[c].usr
      BY <2>2 DEF Handler, Pcs
    <2>4. /\ users' = [users EXCEPT ![h[c].usr] = w]
          /\ h' = [h EXCEPT ![c] = g]
          /\ UNCHANGED <<session, quizVars, envVars>>
      BY <1>2 DEF CreateUser, Goto, IInv, TypeOK
    <2>. HIDE DEF w, g
    <2>5. h[c].cmd = "START_QUIZ" /\ h[c].usr \in Keys
      BY <2>2 DEF Placed, Handler
    <2>6. Linked(c, g)
      BY <2>2, <2>3 DEF Linked, Holding
    <2>7. Placed(users', g)
      <3>1. users'[g.usr] = w
        BY <2>3, <2>4, <2>5 DEF IInv, TypeOK
      <3>. QED
        BY <2>1, <2>3, <2>5, <3>1 DEF Placed, ByHandle
    <2>8. w.last <= now
      BY <2>1 DEF IInv, TypeOK
    <2>9. quizState' \in {"NOT_STARTED", "IN_PROGRESS"} /\ quizEnd' \in Nat
      BY <2>4 DEF IInv, TypeOK, quizVars
    <2>10. h[c].at \in {"create", "body"} /\ UNCHANGED <<session, envVars>>
      BY <2>2, <2>4
    <2>11. w.res.score = ScoreOf(w.res)
      BY <2>1, EmptyResultFacts
    <2>. QED
      BY <2>1, <2>3, <2>4, <2>5, <2>6, <2>7, <2>8, <2>9, <2>10, <2>11, UserStep
  <1>. QED
    BY <1>1, <1>2

(* The new value of the User, in each of the handlers that change it.      *)
LEMMA ConfiguredFacts ==
  ASSUME IInv, NEW w \in User
  PROVE  /\ Configured(w) \in User
         /\ Configured(w).exists = w.exists
         /\ Configured(w).last = w.last
         /\ Configured(w).res = w.res
  <1>1. TimeAllowed * NumQuestions \in Nat /\ now + TimeAllowed \in Nat
    BY QuizServerAssumption, GradingAssumption DEF IInv, TypeOK
  <1>. QED
    BY <1>1, QuizServerAssumption DEF Configured, User

LEMMA AnsweredFacts ==
  ASSUME IInv, NEW w \in User, NEW q \in Questions, NEW raw, NEW report \in Int,
         w.res.score = ScoreOf(w.res)
  PROVE  LET a == Answered(w, q, SelectedOps(raw), report)
         IN  /\ a \in User
             /\ a.exists = w.exists /\ a.limit = w.limit /\ a.last = now
             /\ a.res.score = ScoreOf(a.res)
  <1> DEFINE r == AddAnswer(w.res, q, SelectedOps(raw))
  <1>1. w.res \in Results /\ SelectedOps(raw) \in SUBSET Options
    BY SelectedType DEF User
  <1>2. r \in Results /\ r.score = ScoreOf(r)
    BY <1>1, AddAnswerType, AddAnswerScore
  <1> DEFINE a == [w EXCEPT !.last = now, !.elapsed = @ + report, !.res = r]
  <1>3. Answered(w, q, SelectedOps(raw), report) = a
    BY DEF Answered
  <1>. HIDE DEF r
  <1>4. now \in Nat /\ w.elapsed + report \in Int
    BY DEF IInv, TypeOK, User
  <1>5. a \in User
    BY <1>2, <1>4 DEF User
  <1>6. a.exists = w.exists /\ a.limit = w.limit /\ a.last = now /\ a.res = r
    BY DEF User
  <1>. QED
    BY <1>2, <1>3, <1>5, <1>6

LEMMA ChargedFacts ==
  ASSUME IInv, NEW w \in User, w.last <= now
  PROVE  /\ Charged(w) \in User
         /\ Charged(w).exists = w.exists /\ Charged(w).limit = w.limit
         /\ Charged(w).last = 0 /\ Charged(w).res = w.res
  <1>1. w.elapsed + (now - w.last) \in Int /\ w.charged + (now - w.last) \in Nat
    BY DEF IInv, TypeOK, User
  <1>2. CASE w.last = 0
    BY <1>2 DEF Charged
  <1>3. CASE w.last # 0 /\ Mode = "TIME_BOUND"
    BY <1>1, <1>3 DEF Charged, AddCharge, User
  <1>4. CASE w.last # 0 /\ Mode # "TIME_BOUND"
    BY <1>4 DEF Charged, User
  <1>. QED
    BY <1>2, <1>3, <1>4

LEMMA BodyStep ==
  ASSUME IInv, NEW c \in Conns, Body(c) PROVE IInv'
  <1> DEFINE u == h[c].usr
             idle == NoHandler("idle")
             leave == [h[c] EXCEPT !.at = "drop"]
  <1>1. /\ u \in Keys /\ users[u] \in User /\ users[u].exists
        /\ users[u].last <= now /\ users[u].res.score = ScoreOf(users[u].res)
        /\ h[c] \in Handler /\ h[c].at = "body" /\ Linked(c, h[c])
    BY DEF IInv, TypeOK, Handler, HandlersInv, Placed, ClockInv, ScoresAreSums, Body, At
  <1>2. /\ UNCHANGED <<session, envVars>>
        /\ quizState' \in {"NOT_STARTED", "IN_PROGRESS"} /\ quizEnd' \in Nat
    BY QuizServerAssumption
       DEF Body, IInv, TypeOK, ConfigureUser, ReadUser, FetchQuestion, FetchUnattempted,
           SubmitAnswer, ChargeUser, quizVars
  <1>3. /\ idle \in Handler
        /\ Linked(c, idle) /\ \A us : Placed(us, idle)
    <2>1. idle \in Handler /\ idle.at = "idle"
      BY NoHandlerType DEF Pcs
    <2>. QED
      BY <2>1 DEF Linked, Placed, Holding
  <1>4. \A w \in User :
          /\ h' = [h EXCEPT ![c] = idle]
          /\ users' = [users EXCEPT ![u] = w]
          /\ w.exists /\ w.last <= now /\ w.res.score = ScoreOf(w.res)
          /\ h[c].cmd = "START_QUIZ" \/ w.limit = users[u].limit
          => IInv'
    BY <1>1, <1>2, <1>3, UserStep
  <1>5. CASE UNCHANGED users /\ Reply(c) /\ UNCHANGED quizVars
    BY <1>2, <1>5, ReturnStep DEF envVars
  <1>6. CASE ConfigureUser(c)
    <2>1. /\ users' = [users EXCEPT ![u] = Configured(users[u])]
          /\ h' = [h EXCEPT ![c] = idle] /\ h[c].cmd = "START_QUIZ"
      BY <1>1, <1>6 DEF ConfigureUser, Reply, Return, IInv, TypeOK
    <2>2. LET w == Configured(users[u])
          IN  w \in User /\ w.exists /\ w.last <= now /\ w.res.score = ScoreOf(w.res)
      BY <1>1, ConfiguredFacts
    <2>. QED
      BY <1>4, <2>1, <2>2
  <1>7. CASE /\ users' = [users EXCEPT ![u].last = now]
             /\ FetchQuestion(c) \/ SubmitAnswer(c)
    <2> DEFINE w == [users[u] EXCEPT !.last = now]
    <2>1. /\ users' = [users EXCEPT ![u] = w] /\ h' = [h EXCEPT ![c] = idle]
      BY <1>1, <1>7 DEF FetchQuestion, SubmitAnswer, Reply, Return, IInv, TypeOK
    <2>2. /\ w \in User /\ w.exists /\ w.last <= now /\ w.res.score = ScoreOf(w.res)
          /\ w.limit = users[u].limit
      BY <1>1 DEF User, IInv, TypeOK
    <2>. HIDE DEF w
    <2>. QED
      BY <1>4, <2>1, <2>2
  <1>8. ASSUME SubmitAnswer(c), NEW q \in Questions, NEW raw \in RawSelections,
               NEW report \in Reports,
               users' = [users EXCEPT ![u] = Answered(@, q, SelectedOps(raw), report)]
        PROVE  IInv'
    <2>1. users' = [users EXCEPT ![u] = Answered(users[u], q, SelectedOps(raw), report)]
      BY <1>1, <1>8 DEF IInv, TypeOK
    <2>2. h' = [h EXCEPT ![c] = idle]
      BY <1>8 DEF SubmitAnswer, Reply, Return
    <2>3. report \in Int
      BY QuizServerAssumption
    <2> DEFINE w == Answered(users[u], q, SelectedOps(raw), report)
    <2>4. /\ w \in User /\ w.exists /\ w.limit = users[u].limit /\ w.last = now
          /\ w.res.score = ScoreOf(w.res)
      BY <1>1, <2>3, AnsweredFacts
    <2>5. w.last <= now
      BY <2>4 DEF IInv, TypeOK
    <2>. HIDE DEF w
    <2>. QED
      BY <1>4, <2>1, <2>2, <2>4, <2>5 DEF w
  <1>9. CASE ChargeUser(c)
    <2> DEFINE w == Charged(users[u])
    <2>1. /\ w \in User /\ w.exists /\ w.limit = users[u].limit /\ w.last = 0
          /\ w.res.score = ScoreOf(w.res)
      BY <1>1, ChargedFacts
    <2>2. w.last <= now
      BY <2>1 DEF IInv, TypeOK
    <2>3. users' = [users EXCEPT ![u] = w] /\ h' = [h EXCEPT ![c] = leave]
      BY <1>1, <1>9 DEF ChargeUser, Goto, IInv, TypeOK
    <2>4. /\ leave \in Handler
          /\ leave.at = "drop" /\ leave.usr = u /\ leave.cmd = h[c].cmd
          /\ h[c].cmd \in Leaving
      BY <1>1, <1>9 DEF Handler, Pcs, ChargeUser, Leaving
    <2>5. h[c].at \in {"create", "body"}
      BY <1>1
    <2>. HIDE DEF w, leave
    <2>6. Linked(c, leave) /\ \A us : Placed(us, leave)
      BY <1>1, <2>4 DEF Linked, Placed, Holding
    <2>. QED
      BY <1>1, <1>2, <2>1, <2>2, <2>3, <2>4, <2>5, <2>6, UserStep
  <1>10. CASE ReadUser(c) \/ FetchUnattempted(c)
    BY <1>5, <1>10 DEF ReadUser, FetchUnattempted
  <1>11. CASE (FetchQuestion(c) \/ SubmitAnswer(c)) /\ UNCHANGED users
    BY <1>5, <1>11 DEF FetchQuestion, SubmitAnswer
  <1>12. CASE FetchQuestion(c)
    BY <1>7, <1>11, <1>12 DEF FetchQuestion
  <1>13. CASE SubmitAnswer(c)
    BY <1>7, <1>8, <1>11, <1>13 DEF SubmitAnswer
  <1>. QED
    BY <1>6, <1>9, <1>10, <1>12, <1>13 DEF Body

LEMMA RemoveSessionStep ==
  ASSUME IInv, NEW c \in Conns, RemoveSession(c) PROVE IInv'
  <1>1. PICK label \in {"closed", "idle"} : h' = [h EXCEPT ![c] = NoHandler(label)]
    BY DEF RemoveSession, Return
  <1>2. NoHandler(label) \in Handler /\ NoHandler(label).at \in {"closed", "idle"}
    BY <1>1, NoHandlerType DEF Pcs
  <1>3. /\ session' = [session EXCEPT ![c] = NoSession]
        /\ UNCHANGED <<users, quizVars, envVars>>
    BY DEF RemoveSession
  <1>4. TypeOK'
    BY <1>1, <1>2, <1>3 DEF IInv, TypeOK, quizVars, envVars
  <1>5. SessionsInjective'
    BY <1>3 DEF IInv, SessionsInjective, TypeOK, LoggedIn
  <1>6. HandlersInv'
    <2>. SUFFICES ASSUME NEW d \in Conns PROVE Linked(d, h[d])' /\ Placed(users, h[d])'
      BY DEF HandlersInv
    <2>1. CASE d = c
      <3>1. h'[d] = NoHandler(label)
        BY <1>1, <2>1 DEF IInv, TypeOK
      <3>. QED
        BY <1>2, <3>1 DEF Linked, Placed, Holding
    <2>2. CASE d # c
      BY <1>1, <1>3, <2>2 DEF IInv, TypeOK, HandlersInv, Linked, Placed
    <2>. QED
      BY <2>1, <2>2
  <1>7. ClockInv' /\ ScoresAreSums'
    BY <1>3 DEF IInv, ClockInv, ScoresAreSums, envVars
  <1>. QED
    BY <1>4, <1>5, <1>6, <1>7 DEF IInv

LEMMA EnvironmentSteps ==
  ASSUME IInv, Tick \/ Expire PROVE IInv'
  <1>1. UNCHANGED <<session, users, h, quizVars>> /\ now' \in {now, now + 1}
    BY DEF Tick, Expire
  <1>2. now \in Nat /\ now' \in Nat /\ now <= now'
    BY <1>1 DEF IInv, TypeOK
  <1>3. online' \in [Keys -> Nat] /\ alive' \in BOOLEAN
    <2>1. online \in [Keys -> Nat] /\ alive \in BOOLEAN
      BY DEF IInv, TypeOK
    <2>2. CASE Expire
      BY <2>1, <2>2 DEF Expire
    <2>3. CASE Tick
      <3>1. \A u \in Keys : (IF IsUserLoggedIn(u) THEN online[u] + 1 ELSE online[u]) \in Nat
        BY <2>1
      <3>. QED
        BY <2>1, <2>3, <3>1 DEF Tick
    <2>. QED
      BY <2>2, <2>3
  <1>4. TypeOK'
    BY <1>1, <1>2, <1>3 DEF IInv, TypeOK, quizVars
  <1>5. SessionsInjective' /\ HandlersInv' /\ ScoresAreSums'
    BY <1>1 DEF IInv, SessionsInjective, LoggedIn, HandlersInv, Linked, Placed, ScoresAreSums
  <1>6. ClockInv'
    <2>. SUFFICES ASSUME NEW v \in Keys PROVE users[v].last <= now'
      BY <1>1 DEF ClockInv
    <2>1. users[v].last \in Nat /\ users[v].last <= now
      BY DEF IInv, TypeOK, User, ClockInv
    <2>. QED
      BY <1>2, <2>1
  <1>. QED
    BY <1>4, <1>5, <1>6 DEF IInv

LEMMA NextIInv == IInv /\ [Next]_vars => IInv'
  <1>1. ASSUME IInv, UNCHANGED vars PROVE IInv'
    BY <1>1 DEF vars, IInv, TypeOK, SessionsInjective, LoggedIn, HandlersInv, Linked,
                Placed, ClockInv, ScoresAreSums
  <1>2. ASSUME IInv, Tick \/ Expire PROVE IInv'
    BY <1>2, EnvironmentSteps
  <1>3. ASSUME IInv, NEW c \in Conns, Step(c) PROVE IInv'
    BY <1>3, GateStep, LoginSteps, LookupStep, GetUserStep, CreateUserStep, BodyStep,
       RemoveSessionStep DEF Step
  <1>4. ASSUME IInv, NEW c \in Conns, Connect(c) \/ Receive(c) \/ Disconnect(c)
        PROVE  IInv'
    BY <1>4, ConnectionSteps
  <1>. QED
    BY <1>1, <1>2, <1>3, <1>4 DEF Next

THEOREM Invariance == Spec => []IInv
  BY InitIInv, NextIInv, PTL DEF Spec

-----------------------------------------------------------------------------
(* Every map, handler and User keeps its type, whatever clients report.     *)
THEOREM TypeCorrect == Spec => []TypeOK
  <1>1. IInv => TypeOK
    BY DEF IInv
  <1>. QED
    BY <1>1, Invariance, PTL

(* No name is ever logged in on two connections, for any number of logins   *)
(* racing between HandleLogin's check and AddSession's.                     *)
THEOREM OneSessionPerName == Spec => []SessionsInjective
  <1>1. IInv => SessionsInjective
    BY DEF IInv
  <1>. QED
    BY <1>1, Invariance, PTL

(* The unlocked work on User and Result never runs twice at a time on the   *)
(* same User.                                                               *)
THEOREM NoRaceOnUser == Spec => []UserExclusive
  <1>1. IInv => UserExclusive
    <2>. SUFFICES ASSUME IInv, NEW c \in Conns, NEW d \in Conns, NEW u \in Names,
                         Touches(c, u), Touches(d, u)
                  PROVE  c = d
      BY DEF UserExclusive
    <2>1. u # NoName /\ u # NoSession
      BY QuizServerAssumption
    <2>2. session[c] = u /\ session[d] = u
      BY <2>1 DEF IInv, HandlersInv, Linked, Holding, Touches
    <2>. QED
      BY <2>1, <2>2 DEF IInv, SessionsInjective, LoggedIn
  <1>. QED
    BY <1>1, Invariance, PTL

(* CreateUser never finds the User it is about to create.                  *)
THEOREM CreatedOnce == Spec => []SingleCreation
  <1>1. IInv => SingleCreation
    BY DEF IInv, HandlersInv, Placed, SingleCreation
  <1>. QED
    BY <1>1, Invariance, PTL

(* Every User's score is the sum of the rewards of its statuses, whatever   *)
(* the interleaving of the handlers.                                        *)
THEOREM ScoresCorrect == Spec => []ScoresAreSums
  <1>1. IInv => ScoresAreSums
    BY DEF IInv
  <1>. QED
    BY <1>1, Invariance, PTL

-----------------------------------------------------------------------------
(***************************************************************************)
(* What the server keeps of its promises to each user: it implements       *)
(* QuizService; nobody else changes a user's record; what was done is      *)
(* kept; and, when no connection logs in twice, only time spent online is  *)
(* charged.                                                                *)
(***************************************************************************)

(* The time a disconnection would charge now. *)
Pending(w) == IF w.last = 0 THEN 0 ELSE now - w.last

(* A user who has been created and not configured is in the hands of the    *)
(* START_QUIZ that created it.                                              *)
InConfiguration ==
  \A u \in Names :
    users[u].exists /\ users[u].limit = 0 =>
      \E c \in Conns : h[c].at = "body" /\ h[c].cmd = "START_QUIZ" /\ h[c].usr = u

(* A limit is zero only for want of questions. *)
HasQuestions == Mode = "BULLET" => NumQuestions # 0

(* What holds in addition while no connection logs in twice. *)
LoginInv ==
  \A c \in Conns :
    /\ h[c].at \in {"precheck", "add"} => h[c].cmd = "LOGIN"
    /\ h[c].at \in {"gate", "precheck", "add"} /\ h[c].cmd = "LOGIN" => ~LoggedIn(c)
NewUserInv == \A u \in Keys : ~users[u].exists => users[u] = NoUser
DropInv ==
  \A c \in Conns : h[c].at = "drop" /\ h[c].usr \in Names => users[h[c].usr].last = 0
Charges == \A u \in Names : users[u].charged + Pending(users[u]) <= online[u]

Account == LoginInv /\ NewUserInv /\ DropInv /\ OfflineClean /\ Charges

LEMMA NamesAreKeys == Names \subseteq Keys /\ NoName \notin Names /\ NoSession \notin Keys
  BY QuizServerAssumption DEF Keys

(* A handler that works for a name works for the user logged in there.      *)
LEMMA HolderIsLoggedIn ==
  ASSUME IInv, NEW c \in Conns, h[c].at \in Holding, h[c].usr \in Names \/ h[c].cmd \notin Leaving
  PROVE  session[c] = h[c].usr /\ LoggedIn(c)
  <1>1. h[c].usr \in Keys /\ Linked(c, h[c])
    BY DEF IInv, TypeOK, Handler, HandlersInv
  <1>. QED
    BY <1>1, NamesAreKeys DEF Linked, LoggedIn

LEMMA UnattemptedShrinksByAnswer ==
  ASSUME NEW r \in Results, NEW q \in Questions, NEW sel
  PROVE  Unattempted(AddAnswer(r, q, sel)) \subseteq Unattempted(r)
  <1>1. AddAnswer(r, q, sel).tracker = [r.tracker EXCEPT ![q] = Grade(q, sel)]
    BY AddAnswerTracker
  <1>2. r.tracker \in [Questions -> Status \cup {"NONE"}]
    BY DEF Results
  <1>. QED
    BY <1>1, <1>2, GradeType DEF Unattempted, Attempted

(* Body replaces the User by one of which all this is true.                 *)
Follows(w, old, c) ==
  /\ w \in User /\ w.exists
  /\ w.elapsed >= old.elapsed \/ h[c].cmd = "SUBMIT_ANSWER"
  /\ Unattempted(w.res) \subseteq Unattempted(old.res)
  /\ w.charged + Pending(w) <= old.charged + Pending(old)
  /\ IF h[c].cmd = "START_QUIZ" THEN HasQuestions => w.limit # 0 ELSE w.limit = old.limit
  /\ \/ w.res = old.res
     \/ /\ h[c].cmd = "SUBMIT_ANSWER"
        /\ \E q \in Questions, raw \in RawSelections :
             w.res = AddAnswer(old.res, q, SelectedOps(raw))
  /\ \/ h' = [h EXCEPT ![c] = NoHandler("idle")]
     \/ w.last = 0 /\ h' = [h EXCEPT ![c].at = "drop"]

LEMMA BodyEffect ==
  ASSUME IInv, NEW c \in Conns, Body(c)
  PROVE  /\ h[c].at = "body" /\ UNCHANGED <<session, now, alive, online>>
         /\ \E w \in User : /\ users' = [users EXCEPT ![h[c].usr] = w]
                            /\ Follows(w, users[h[c].usr], c)
  <1> DEFINE u == h[c].usr
             old == users[u]
  <1>1. /\ u \in Keys /\ old \in User /\ old.exists /\ old.last <= now
        /\ h[c].at = "body" /\ UNCHANGED <<session, now, alive, online>>
        /\ now \in Nat /\ users \in [Keys -> User]
        /\ h[c].cmd = "START_QUIZ" => old.limit = 0
    BY DEF IInv, TypeOK, Handler, HandlersInv, Placed, ClockInv, Body, At, envVars
  <1>2. old.elapsed \in Int /\ old.charged \in Nat /\ old.last \in Nat /\ old.res \in Results /\ Pending(old) \in Nat
    BY <1>1 DEF User, Pending
  <1>3. CASE /\ UNCHANGED users /\ h[c].cmd # "START_QUIZ"
             /\ h' = [h EXCEPT ![c] = NoHandler("idle")]
    <2>1. users' = [users EXCEPT ![u] = old]
      BY <1>1, <1>3
    <2>2. Follows(old, old, c)
      BY <1>1, <1>2, <1>3 DEF Follows
    <2>. QED
      BY <1>1, <2>1, <2>2
  <1>4. CASE ConfigureUser(c)
    <2> DEFINE w == Configured(old)
    <2>1. /\ users' = [users EXCEPT ![u] = w] /\ h[c].cmd = "START_QUIZ"
          /\ h' = [h EXCEPT ![c] = NoHandler("idle")]
      BY <1>1, <1>4 DEF ConfigureUser, Reply, Return
    <2>2. w \in User /\ w.exists /\ w.last = old.last /\ w.res = old.res
      BY <1>1, ConfiguredFacts
    <2>3. w.elapsed = old.elapsed /\ w.charged = old.charged
      BY <1>1 DEF Configured, User
    <2>4. HasQuestions => w.limit # 0
      <3>1. w.limit = IF Mode = "BULLET" THEN TimeAllowed * NumQuestions ELSE TimeAllowed
        BY <1>1 DEF Configured, User
      <3>2. NumQuestions # 0 => TimeAllowed * NumQuestions # 0
        BY QuizServerAssumption, GradingAssumption
      <3>. QED
        BY <3>1, <3>2, QuizServerAssumption DEF HasQuestions
    <2>. HIDE DEF w
    <2>5. Follows(w, old, c)
      BY <1>2, <2>1, <2>2, <2>3, <2>4 DEF Follows, Pending
    <2>. QED
      BY <1>1, <2>1, <2>2, <2>5
  <1>5. CASE /\ users' = [users EXCEPT ![u].last = now]
             /\ FetchQuestion(c) \/ SubmitAnswer(c)
    <2> DEFINE w == [old EXCEPT !.last = now]
    <2>1. /\ users' = [users EXCEPT ![u] = w] /\ h[c].cmd # "START_QUIZ"
          /\ h' = [h EXCEPT ![c] = NoHandler("idle")]
      BY <1>1, <1>5 DEF FetchQuestion, SubmitAnswer, Reply, Return
    <2>2. /\ w \in User /\ w.exists /\ w.elapsed = old.elapsed /\ w.res = old.res
          /\ w.charged = old.charged
          /\ w.last = now /\ w.limit = old.limit
      BY <1>1 DEF User
    <2>. HIDE DEF w
    <2>3. Pending(w) = 0
      BY <1>1, <2>2 DEF Pending
    <2>4. Follows(w, old, c)
      BY <1>2, <2>1, <2>2, <2>3 DEF Follows
    <2>. QED
      BY <1>1, <2>1, <2>2, <2>4
  <1>6. ASSUME SubmitAnswer(c), NEW q \in Questions, NEW raw \in RawSelections,
               NEW report \in Reports,
               users' = [users EXCEPT ![u] = Answered(@, q, SelectedOps(raw), report)]
        PROVE  \E w \in User : users' = [users EXCEPT ![u] = w] /\ Follows(w, old, c)
    <2>1. users' = [users EXCEPT ![u] = Answered(old, q, SelectedOps(raw), report)]
      BY <1>1, <1>6
    <2>2. /\ h' = [h EXCEPT ![c] = NoHandler("idle")] /\ h[c].cmd = "SUBMIT_ANSWER"
      BY <1>6 DEF SubmitAnswer, Reply, Return
    <2>3. report \in Int
      BY QuizServerAssumption
    <2> DEFINE w == Answered(old, q, SelectedOps(raw), report)
               r == AddAnswer(old.res, q, SelectedOps(raw))
    <2>4. old.res.score = ScoreOf(old.res)
      BY <1>1 DEF IInv, ScoresAreSums
    <2>5. w \in User /\ w.exists /\ w.limit = old.limit /\ w.last = now
      BY <1>1, <2>3, <2>4, AnsweredFacts
    <2>6. w.charged = old.charged /\ w.res = r
      BY <1>1 DEF Answered, User
    <2>7. Unattempted(r) \subseteq Unattempted(old.res)
      BY <1>2, UnattemptedShrinksByAnswer
    <2>. HIDE DEF w, r
    <2>8. Pending(w) = 0
      BY <1>1, <2>5 DEF Pending
    <2>9. w.charged + Pending(w) <= old.charged + Pending(old)
      BY <1>2, <2>6, <2>8
    <2>10. Follows(w, old, c)
      BY <2>2, <2>5, <2>6, <2>7, <2>9 DEF Follows, r
    <2>11. users' = [users EXCEPT ![u] = w]
      BY <2>1 DEF w
    <2>. QED
      BY <2>5, <2>10, <2>11
  <1>7. CASE ChargeUser(c)
    <2> DEFINE w == Charged(old)
    <2>1. /\ users' = [users EXCEPT ![u] = w] /\ h' = [h EXCEPT ![c].at = "drop"]
          /\ h[c].cmd # "START_QUIZ"
      BY <1>1, <1>7 DEF ChargeUser, Goto
    <2>2. w \in User /\ w.exists /\ w.limit = old.limit /\ w.last = 0 /\ w.res = old.res
      BY <1>1, ChargedFacts
    <2>3. \/ w.elapsed = old.elapsed /\ w.charged = old.charged
          \/ /\ w.elapsed = old.elapsed + Pending(old) /\ old.last # 0
             /\ w.charged = old.charged + Pending(old)
      BY <1>1, <1>2 DEF Charged, AddCharge, Pending, User
    <2>. HIDE DEF w
    <2>4. Pending(w) = 0
      BY <2>2 DEF Pending
    <2>5. Follows(w, old, c)
      BY <1>2, <2>1, <2>2, <2>3, <2>4 DEF Follows
    <2>. QED
      BY <1>1, <2>1, <2>2, <2>5
  <1>8. CASE \/ ReadUser(c) \/ FetchUnattempted(c)
             \/ (FetchQuestion(c) \/ SubmitAnswer(c)) /\ UNCHANGED users
    BY <1>3, <1>8
       DEF ReadUser, FetchUnattempted, FetchQuestion, SubmitAnswer, Reply, Return
  <1>9. CASE FetchQuestion(c)
    BY <1>5, <1>8, <1>9 DEF FetchQuestion
  <1>10. CASE SubmitAnswer(c)
    BY <1>1, <1>5, <1>6, <1>8, <1>10 DEF SubmitAnswer
  <1>. QED
    BY <1>4, <1>7, <1>8, <1>9, <1>10 DEF Body

(* Every step, by what it does to the two maps.                             *)
LogsIn(c) ==
  /\ ~IsUserLoggedIn(h[c].usr) /\ h[c].at = "add"
  /\ session' = [session EXCEPT ![c] = h[c].usr] /\ UNCHANGED users
  /\ h' = [h EXCEPT ![c] = NoHandler("idle")]
Leaves(c) ==
  /\ h[c].at = "drop"
  /\ session' = [session EXCEPT ![c] = NoSession] /\ UNCHANGED users
  /\ \E label \in {"idle", "closed"} : h' = [h EXCEPT ![c] = NoHandler(label)]
Creates(c) ==
  /\ h[c].at = "create" /\ ~users[h[c].usr].exists
  /\ users' = [users EXCEPT ![h[c].usr] = [NoUser EXCEPT !.exists = TRUE]]
  /\ h' = [h EXCEPT ![c].at = "body"] /\ UNCHANGED session

LEMMA NextEffect ==
  ASSUME IInv, [Next]_vars
  PROVE  \/ UNCHANGED <<session, users>>
         \/ \E c \in Conns : LogsIn(c) \/ Leaves(c) \/ Creates(c) \/ Body(c)
  <1>1. CASE UNCHANGED vars
    BY <1>1 DEF vars
  <1>2. CASE Tick \/ Expire
    BY <1>2 DEF Tick, Expire
  <1>3. ASSUME NEW c \in Conns, Connect(c) \/ Receive(c) \/ Disconnect(c) \/ Gate(c)
                                \/ LoginPrecheck(c) \/ Lookup(c) \/ GetUser(c)
        PROVE  UNCHANGED <<session, users>>
    BY <1>3 DEF Connect, Receive, Disconnect, Gate, LoginPrecheck, Lookup, GetUser
  <1>4. ASSUME NEW c \in Conns, LoginAdd(c)
        PROVE  LogsIn(c) \/ UNCHANGED <<session, users>>
    BY <1>4 DEF LoginAdd, AddSession, LogsIn, At, Reply, Return
  <1>5. ASSUME NEW c \in Conns, CreateUser(c)
        PROVE  Creates(c) \/ UNCHANGED <<session, users>>
    BY <1>5 DEF CreateUser, Creates, At, Goto
  <1>6. ASSUME NEW c \in Conns, RemoveSession(c) PROVE Leaves(c)
    BY <1>6 DEF RemoveSession, Leaves, At, Return
  <1>. QED
    BY <1>1, <1>2, <1>3, <1>4, <1>5, <1>6 DEF Next, Step

-----------------------------------------------------------------------------
(* A User changes only by a handler of the connection logged in under its   *)
(* name, whatever the other handlers do meanwhile.                          *)
THEOREM OnlyTheOwnerActs == Spec => Isolation
  <1>1. IInv /\ [Next]_vars
          => [\A u \in Names : users'[u] # users[u] =>
                \E c \in Conns : session[c] = u /\ h'[c] # h[c]]_vars
    <2>. SUFFICES ASSUME IInv, [Next]_vars, NEW u \in Names, users'[u] # users[u]
                  PROVE  \E c \in Conns : session[c] = u /\ h'[c] # h[c]
      OBVIOUS
    <2>1. PICK c \in Conns : Creates(c) \/ Body(c)
      BY NextEffect DEF LogsIn, Leaves
    <2>2. h \in [Conns -> Handler] /\ users \in [Keys -> User] /\ u \in Keys
      BY NamesAreKeys DEF IInv, TypeOK
    <2>3. CASE Creates(c)
      <3>1. h[c].at = "create" /\ h[c].usr = u
        BY <2>2, <2>3 DEF Creates
      <3>2. h'[c].at = "body"
        BY <2>2, <2>3 DEF Creates, Handler
      <3>3. session[c] = u
        BY <3>1, HolderIsLoggedIn DEF Holding
      <3>. QED
        BY <3>1, <3>2, <3>3
    <2>4. CASE Body(c)
      <3>1. PICK w \in User : /\ users' = [users EXCEPT ![h[c].usr] = w]
                              /\ Follows(w, users[h[c].usr], c)
        BY <2>4, BodyEffect
      <3>2. h[c].at = "body" /\ h[c].usr = u
        BY <2>2, <2>4, <3>1, BodyEffect
      <3>3. h'[c].at \in {"idle", "drop"}
        <4>1. NoHandler("idle").at = "idle"
          BY NoHandlerType DEF Pcs
        <4>. QED
          BY <2>2, <3>1, <4>1 DEF Follows, Handler
      <3>4. session[c] = u
        BY <3>2, HolderIsLoggedIn DEF Holding
      <3>. QED
        BY <3>2, <3>3, <3>4
    <2>. QED
      BY <2>1, <2>3, <2>4
  <1>. QED
    BY <1>1, Invariance, PTL DEF Spec, Isolation

(* Nothing a User has done is lost: not by a second START_QUIZ that raced   *)
(* with the first, a logout, a lost connection or a new login.  Only an     *)
(* answer, sent on the user's own connection, can take elapsed time back.   *)
THEOREM NothingIsLost == Spec => ProgressKept
  <1>1. IInv /\ [Next]_vars
          => [\A u \in Keys : users[u].exists =>
                /\ users'[u].exists
                /\ Unattempted(users'[u].res) \subseteq Unattempted(users[u].res)
                /\ users'[u].elapsed < users[u].elapsed =>
                     \E c \in Conns : /\ h[c].cmd = "SUBMIT_ANSWER" /\ h'[c] # h[c]
                                     /\ session[c] = u]_vars
    <2>. SUFFICES ASSUME IInv, [Next]_vars, NEW u \in Keys, users[u].exists
                  PROVE  /\ users'[u].exists
                         /\ Unattempted(users'[u].res) \subseteq Unattempted(users[u].res)
                         /\ users'[u].elapsed < users[u].elapsed
                              => \E c \in Conns :
                                   /\ h[c].cmd = "SUBMIT_ANSWER" /\ h'[c] # h[c]
                                   /\ session[c] = u
      OBVIOUS
    <2> DEFINE Answers(c) ==
          h[c].cmd = "SUBMIT_ANSWER" /\ h'[c] # h[c] /\ session[c] = u
    <2>1. h \in [Conns -> Handler] /\ users \in [Keys -> User]
      BY DEF IInv, TypeOK
    <2>2. users[u].elapsed \in Int
      BY <2>1 DEF User
    <2>3. CASE users'[u] = users[u]
      BY <2>2, <2>3
    <2>4. ASSUME NEW c \in Conns, Body(c), h[c].usr = u
          PROVE  \E w \in User : users'[u] = w /\ Follows(w, users[u], c)
      BY <2>1, <2>4, BodyEffect
    <2>5. ASSUME NEW c \in Conns, LogsIn(c) \/ Leaves(c) \/ Creates(c) \/ Body(c)
          PROVE  users'[u] = users[u] \/ (Body(c) /\ h[c].usr = u)
      BY <2>1, <2>5, BodyEffect DEF LogsIn, Leaves, Creates
    <2>6. ASSUME NEW c \in Conns, Body(c), h[c].usr = u, h[c].cmd = "SUBMIT_ANSWER"
          PROVE  Answers(c)
      <3>1. h[c].at = "body" /\ h[c].cmd \notin Leaving
        BY <2>6 DEF Body, At, Leaving
      <3>2. session[c] = u
        BY <2>6, <3>1, HolderIsLoggedIn DEF Holding
      <3>3. h'[c].at \in {"idle", "drop"}
        BY <2>1, <2>4, <2>6, NoHandlerType DEF Follows, Handler, Pcs
      <3>. QED
        BY <2>6, <3>1, <3>2, <3>3
    <2>7. ASSUME NEW c \in Conns, Body(c), h[c].usr = u
          PROVE  /\ users'[u].exists
                 /\ Unattempted(users'[u].res) \subseteq Unattempted(users[u].res)
                 /\ users'[u].elapsed < users[u].elapsed => h[c].cmd = "SUBMIT_ANSWER"
      <3>1. PICK w \in User : users'[u] = w /\ Follows(w, users[u], c)
        BY <2>4, <2>7
      <3>2. w.elapsed \in Int
        BY DEF User
      <3>. QED
        BY <2>2, <3>1, <3>2 DEF Follows
    <2>8. CASE \E c \in Conns : Body(c) /\ h[c].usr = u
      BY <2>6, <2>7, <2>8
    <2>. HIDE DEF Answers
    <2>. QED
      BY <2>3, <2>5, <2>8, NextEffect
  <1>. QED
    BY <1>1, Invariance, PTL DEF Spec, ProgressKept

(* The User of the empty name, whom handlers without a session share, never *)
(* has an activity, elapsed time or an answer: the commands that would give *)
(* it one go through GetUserByHandle, which refuses the empty name.         *)
THEOREM NamelessInert == Spec => []NamelessIsInert
  <1> DEFINE Inert(w) == w.last = 0 /\ w.elapsed = 0 /\ w.res = EmptyResult
             Inv == IInv /\ NamelessIsInert
  <1>1. NamelessIsInert <=> Inert(users[NoName])
    BY DEF NamelessIsInert
  <1>2. NoName \in Keys /\ Inert(NoUser)
    BY DEF Keys, NoUser
  <1>3. Init => Inv
    BY <1>2, InitIInv DEF Init, NamelessIsInert
  <1>4. ASSUME IInv, NamelessIsInert, [Next]_vars PROVE NamelessIsInert'
    <2>1. users \in [Keys -> User]
      BY <1>4 DEF IInv, TypeOK
    <2>2. Inert(users[NoName])
      BY <1>1, <1>4
    <2>3. ASSUME NEW c \in Conns, Body(c), h[c].usr = NoName PROVE Inert(users'[NoName])
      <3>1. h[c].cmd \notin ByHandle
        BY <1>4, <2>3 DEF Body, At, IInv, HandlersInv, Placed
      <3>2. CASE UNCHANGED users
        BY <2>2, <3>2
      <3>3. CASE ConfigureUser(c)
        <4>1. users'[NoName] = Configured(users[NoName])
          BY <1>2, <2>1, <2>3, <3>3 DEF ConfigureUser
        <4>. QED
          BY <1>2, <2>1, <2>2, <4>1 DEF Configured, User
      <3>4. CASE ChargeUser(c)
        BY <1>2, <2>1, <2>2, <2>3, <3>4 DEF ChargeUser, Charged
      <3>. QED
        BY <2>3, <3>1, <3>2, <3>3, <3>4
           DEF Body, ByHandle, ReadUser, FetchUnattempted, FetchQuestion, SubmitAnswer
    <2>4. ASSUME NEW c \in Conns, Creates(c), h[c].usr = NoName PROVE Inert(users'[NoName])
      BY <1>2, <2>1, <2>4 DEF Creates, NoUser
    <2>5. ASSUME NEW c \in Conns, LogsIn(c) \/ Leaves(c) \/ Creates(c) \/ Body(c)
          PROVE  users'[NoName] = users[NoName] \/ ((Creates(c) \/ Body(c)) /\ h[c].usr = NoName)
      BY <1>2, <1>4, <2>1, <2>5, BodyEffect DEF LogsIn, Leaves, Creates
    <2>6. Inert(users'[NoName])
      BY <1>4, <2>2, <2>3, <2>4, <2>5, NextEffect
    <2>. QED
      BY <2>6 DEF NamelessIsInert
  <1>5. Inv /\ [Next]_vars => Inv'
    BY <1>4, NextIInv
  <1>6. Inv => NamelessIsInert
    OBVIOUS
  <1>. HIDE DEF Inv
  <1>. QED
    BY <1>3, <1>5, <1>6, PTL DEF Spec

-----------------------------------------------------------------------------
(* The handler and the session of a connection change by its own steps, and *)
(* the clock by Tick.                                                       *)
Moves(c) == Connect(c) \/ Receive(c) \/ Disconnect(c) \/ Step(c)

LEMMA OwnSteps ==
  ASSUME IInv, [Next]_vars, NEW c \in Conns,
         h'[c] # h[c] \/ session'[c] # session[c]
  PROVE  Moves(c)
  <1>1. h \in [Conns -> Handler] /\ session \in [Conns -> Keys \cup {NoSession}]
    BY DEF IInv, TypeOK
  <1>2. ASSUME NEW d \in Conns, d # c, Moves(d)
        PROVE  h'[c] = h[c] /\ session'[c] = session[c]
    <2>1. CASE Connect(d) \/ Receive(d) \/ Disconnect(d)
      BY <1>1, <1>2, <2>1 DEF Connect, Receive, Disconnect, Reply, Return
    <2>2. CASE Gate(d) \/ LoginPrecheck(d) \/ LoginAdd(d)
      BY <1>1, <1>2, <2>2
         DEF Gate, LoginPrecheck, LoginAdd, AddSession, Reply, Return, Goto
    <2>3. CASE Lookup(d) \/ GetUser(d) \/ CreateUser(d) \/ RemoveSession(d)
      BY <1>1, <1>2, <2>3 DEF Lookup, GetUser, CreateUser, RemoveSession, Reply, Return, Goto
    <2>4. CASE Body(d)
      BY <1>1, <1>2, <2>4, BodyEffect DEF Follows
    <2>. QED
      BY <1>2, <2>1, <2>2, <2>3, <2>4 DEF Moves, Step
  <1>3. Tick \/ Expire \/ UNCHANGED vars => h' = h /\ session' = session
    BY DEF Tick, Expire, vars
  <1>. QED
    BY <1>2, <1>3 DEF Next, Moves

LEMMA TimePasses ==
  ASSUME IInv, [Next]_vars PROVE Tick \/ UNCHANGED <<now, online>>
  <1>1. ASSUME NEW c \in Conns, Moves(c) PROVE UNCHANGED <<now, online>>
    BY <1>1 DEF Moves, Connect, Receive, Disconnect, Step, Gate, LoginPrecheck, LoginAdd,
                Lookup, GetUser, CreateUser, Body, RemoveSession, envVars
  <1>. QED
    BY <1>1 DEF Next, Moves, Expire, vars

(* Two handlers that work for the same name are one.                        *)
LEMMA OneHolder ==
  ASSUME IInv, NEW c \in Conns, NEW d \in Conns,
         h[c].at \in Holding, h[d].at \in Holding, h[c].usr \in Names, h[c].usr = h[d].usr
  PROVE  c = d
  BY HolderIsLoggedIn DEF IInv, SessionsInjective

LEMMA InConfigurationStep ==
  ASSUME IInv, [Next]_vars, HasQuestions, InConfiguration
  PROVE  InConfiguration'
  <1>. SUFFICES ASSUME NEW u \in Names, users'[u].exists, users'[u].limit = 0
                PROVE  \E c \in Conns : /\ h'[c].at = "body" /\ h'[c].cmd = "START_QUIZ"
                                        /\ h'[c].usr = u
    BY DEF InConfiguration
  <1>1. h \in [Conns -> Handler] /\ users \in [Keys -> User] /\ u \in Keys
    BY NamesAreKeys DEF IInv, TypeOK
  <1>2. ASSUME NEW c \in Conns, Creates(c), h[c].usr = u
        PROVE  h'[c].at = "body" /\ h'[c].cmd = "START_QUIZ" /\ h'[c].usr = u
    <2>1. h[c].cmd = "START_QUIZ"
      BY <1>2 DEF Creates, IInv, HandlersInv, Placed
    <2>. QED
      BY <1>1, <1>2, <2>1 DEF Creates, Handler
  <1>3. ASSUME NEW c \in Conns, Body(c), h[c].usr = u
        PROVE  /\ users[u].exists /\ users[u].limit = 0 /\ h[c].cmd # "START_QUIZ"
    <2>1. \E w \in User : users'[u] = w /\ Follows(w, users[u], c)
      BY <1>1, <1>3, BodyEffect
    <2>2. users[u].exists
      BY <1>3 DEF Body, At, IInv, HandlersInv, Placed
    <2>. QED
      BY <2>1, <2>2 DEF Follows
  <1>4. \/ users'[u] = users[u]
        \/ \E c \in Conns : (Creates(c) \/ Body(c)) /\ h[c].usr = u
    BY <1>1, NextEffect, BodyEffect DEF LogsIn, Leaves, Creates
  <1>5. CASE \E c \in Conns : Creates(c) /\ h[c].usr = u
    BY <1>2, <1>5
  <1>6. CASE users[u].exists /\ users[u].limit = 0
    <2>1. PICK d \in Conns : h[d].at = "body" /\ h[d].cmd = "START_QUIZ" /\ h[d].usr = u
      BY <1>6 DEF InConfiguration
    <2>2. CASE h'[d] = h[d]
      BY <2>1, <2>2
    <2>3. CASE h'[d] # h[d]
      <3>1. Moves(d)
        BY <2>3, OwnSteps
      <3>2. Body(d)
        BY <2>1, <3>1 DEF Moves, Step, Connect, Receive, Disconnect, Gate, LoginPrecheck,
              LoginAdd, Lookup, GetUser, CreateUser, RemoveSession, At
      <3>. QED
        BY <1>3, <2>1, <3>2
    <2>. QED
      BY <2>2, <2>3
  <1>. QED
    BY <1>3, <1>4, <1>5, <1>6

(* Where there are questions to ask, no handler but its own START_QUIZ sees *)
(* a User between CreateUser and SetTimeLimit.                              *)
THEOREM NeverSeenUnconfigured == Spec => [](HasQuestions => ConfiguredBeforeUse)
  <1>1. Init => InConfiguration
    BY NoUserType, NamesAreKeys DEF Init, InConfiguration
  <1> DEFINE Inv == IInv /\ (HasQuestions => InConfiguration)
  <1>2. Init => Inv
    BY <1>1, InitIInv
  <1>3. HasQuestions' = HasQuestions
    BY DEF HasQuestions
  <1>4. Inv /\ [Next]_vars => Inv'
    BY <1>3, NextIInv, InConfigurationStep
  <1>5. Inv => (HasQuestions => ConfiguredBeforeUse)
    <2>. SUFFICES ASSUME IInv, InConfiguration, NEW c \in Conns, h[c].at = "body",
                         h[c].usr \in Names
                  PROVE  users[h[c].usr].limit = 0 <=> h[c].cmd = "START_QUIZ"
      BY DEF ConfiguredBeforeUse
    <2>1. users[h[c].usr].exists /\ (h[c].cmd = "START_QUIZ" => users[h[c].usr].limit = 0)
      BY DEF IInv, HandlersInv, Placed
    <2>2. ASSUME users[h[c].usr].limit = 0 PROVE h[c].cmd = "START_QUIZ"
      <3>1. PICK d \in Conns : h[d].at = "body" /\ h[d].cmd = "START_QUIZ"
                               /\ h[d].usr = h[c].usr
        BY <2>1, <2>2 DEF InConfiguration
      <3>. QED
        BY <3>1, OneHolder DEF Holding
    <2>. QED
      BY <2>1, <2>2
  <1>. HIDE DEF Inv
  <1>. QED
    BY <1>2, <1>4, <1>5, PTL DEF Spec

-----------------------------------------------------------------------------
(* The account of a user's time, while no connection logs in twice.         *)
LEMMA InitAccount == Init => Account
  <1>. SUFFICES ASSUME Init PROVE Account
    OBVIOUS
  <1>1. LoginInv /\ DropInv
    BY NoHandlerType DEF Init, LoginInv, DropInv, Pcs
  <1>2. \A u \in Keys : users[u] = NoUser /\ online[u] = 0
    BY DEF Init
  <1>3. NoUser.last = 0 /\ NoUser.charged = 0
    BY DEF NoUser
  <1>4. NewUserInv /\ OfflineClean
    BY <1>2, <1>3, NamesAreKeys DEF NewUserInv, OfflineClean
  <1>5. Charges
    BY <1>2, <1>3, NamesAreKeys DEF Charges, Pending
  <1>. QED
    BY <1>1, <1>4, <1>5 DEF Account

LEMMA LoginStep ==
  ASSUME IInv, [Next]_vars, LoginInv, AllowRelogin = FALSE PROVE LoginInv'
  <1>. SUFFICES ASSUME NEW c \in Conns
                PROVE  /\ h'[c].at \in {"precheck", "add"} => h'[c].cmd = "LOGIN"
                       /\ h'[c].at \in {"gate", "precheck", "add"} /\ h'[c].cmd = "LOGIN"
                            => session'[c] = NoSession
    BY DEF LoginInv, LoggedIn
  <1>1. h \in [Conns -> Handler] /\ session \in [Conns -> Keys \cup {NoSession}]
    BY DEF IInv, TypeOK
  <1>2. /\ h[c].at \in {"precheck", "add"} => h[c].cmd = "LOGIN"
        /\ h[c].at \in {"gate", "precheck", "add"} /\ h[c].cmd = "LOGIN"
             => session[c] = NoSession
    BY DEF LoginInv, LoggedIn
  <1>3. \A label \in Pcs : NoHandler(label).at = label
    BY NoHandlerType
  <1>4. CASE h'[c] = h[c] /\ session'[c] = session[c]
    BY <1>2, <1>4
  <1>5. CASE h'[c].at \notin {"gate", "precheck", "add"}
    BY <1>5
  <1>6. CASE Connect(c) \/ Lookup(c) \/ GetUser(c) \/ CreateUser(c) \/ RemoveSession(c)
             \/ LoginAdd(c)
    <2>1. h'[c].at \notin {"gate", "precheck", "add"}
      BY <1>1, <1>3, <1>6
         DEF Connect, Lookup, GetUser, AfterGetUser, CreateUser, RemoveSession, LoginAdd,
             AddSession, Reply, Return, Goto, Pcs, Handler
    <2>. QED
      BY <1>5, <2>1
  <1>7. CASE Receive(c) \/ Disconnect(c)
    BY <1>1, <1>7 DEF Receive, Disconnect, LoggedIn, Commands
  <1>8. CASE Gate(c) \/ LoginPrecheck(c)
    <2>1. UNCHANGED session
      BY <1>8 DEF Gate, LoginPrecheck
    <2>2. CASE h' = [h EXCEPT ![c] = NoHandler("idle")]
      BY <1>1, <1>3, <1>5, <2>2 DEF Pcs
    <2>3. CASE /\ h'[c].at = "lookup"
      BY <1>5, <2>3
    <2>4. CASE /\ h[c].at \in {"gate", "precheck"} /\ h[c].cmd = "LOGIN"
               /\ \E label \in {"precheck", "add"} : h' = [h EXCEPT ![c].at = label]
      BY <1>1, <1>2, <2>1, <2>4 DEF Handler
    <2>5. CASE Gate(c)
      BY <1>1, <2>2, <2>3, <2>4, <2>5 DEF Gate, At, Reply, Return, Goto, Handler
    <2>6. CASE LoginPrecheck(c)
      BY <1>1, <1>2, <2>2, <2>4, <2>6 DEF LoginPrecheck, At, Reply, Return, Goto
    <2>. QED
      BY <1>8, <2>5, <2>6
  <1>9. CASE Body(c)
    <2>1. h'[c].at \in {"idle", "drop"}
      BY <1>1, <1>3, <1>9, BodyEffect DEF Follows, Pcs, Handler
    <2>. QED
      BY <1>5, <2>1
  <1>. QED
    BY <1>4, <1>6, <1>7, <1>8, <1>9, OwnSteps DEF Moves, Step

LEMMA NewUserStep ==
  ASSUME IInv, [Next]_vars, NewUserInv PROVE NewUserInv'
  <1>. SUFFICES ASSUME NEW u \in Keys, ~users'[u].exists
                PROVE  users'[u] = NoUser
    BY DEF NewUserInv
  <1>1. users \in [Keys -> User] /\ h \in [Conns -> Handler]
    BY DEF IInv, TypeOK
  <1>2. ASSUME NEW c \in Conns, Creates(c) PROVE users'[u] = users[u]
    <2>1. [NoUser EXCEPT !.exists = TRUE].exists
      BY DEF NoUser
    <2>. QED
      BY <1>1, <1>2, <2>1 DEF Creates, Handler
  <1>3. ASSUME NEW c \in Conns, Body(c) PROVE users'[u] = users[u]
    BY <1>1, <1>3, BodyEffect DEF Follows, Handler
  <1>4. users'[u] = users[u]
    BY <1>2, <1>3, NextEffect DEF LogsIn, Leaves
  <1>. QED
    BY <1>4 DEF NewUserInv

LEMMA DropStep ==
  ASSUME IInv, [Next]_vars, NewUserInv, DropInv PROVE DropInv'
  <1>. SUFFICES ASSUME NEW c \in Conns, h'[c].at = "drop", h'[c].usr \in Names
                PROVE  users'[h'[c].usr].last = 0
    BY DEF DropInv
  <1> DEFINE u == h'[c].usr
  <1>1. /\ users \in [Keys -> User] /\ h \in [Conns -> Handler] /\ u \in Keys
        /\ \A label \in Pcs : NoHandler(label).at = label
    BY NamesAreKeys, NoHandlerType DEF IInv, TypeOK
  <1>2. CASE h'[c] = h[c]
    <2>1. users[u].last = 0
      BY <1>2 DEF DropInv
    <2>2. ASSUME NEW d \in Conns, Creates(d) \/ Body(d), h[d].usr = u PROVE FALSE
      <3>1. d = c
        BY <1>2, <2>2, OneHolder DEF Creates, Body, At, Holding
      <3>. QED
        BY <1>2, <2>2, <3>1 DEF Creates, Body, At
    <2>3. users'[u] = users[u]
      BY <1>1, <2>2, NextEffect, BodyEffect DEF LogsIn, Leaves, Creates
    <2>. QED
      BY <2>1, <2>3
  <1>3. CASE GetUser(c)
    <2>1. UNCHANGED users /\ AfterGetUser(c) = "drop" /\ u = h[c].usr
      BY <1>1, <1>3 DEF GetUser, Reply, Return, Goto, Pcs, Handler
    <2>2. ~users[u].exists
      BY <1>1, <2>1 DEF AfterGetUser, FindsUser, ByHandle
    <2>. QED
      BY <1>1, <2>1, <2>2, NoUserType DEF NewUserInv
  <1>4. CASE Body(c)
    <2>1. PICK w \in User : users' = [users EXCEPT ![h[c].usr] = w]
                            /\ Follows(w, users[h[c].usr], c)
      BY <1>4, BodyEffect
    <2>2. w.last = 0 /\ u = h[c].usr
      BY <1>1, <2>1 DEF Follows, Pcs, Handler
    <2>. QED
      BY <1>1, <2>1, <2>2
  <1>5. CASE Moves(c) /\ ~GetUser(c) /\ ~Body(c)
    <2>1. CASE Connect(c) \/ Receive(c) \/ Disconnect(c)
      BY <1>1, <2>1 DEF Connect, Receive, Disconnect, Reply, Return, Pcs
    <2>2. CASE Gate(c) \/ LoginPrecheck(c) \/ LoginAdd(c)
      BY <1>1, <2>2 DEF Gate, LoginPrecheck, LoginAdd, AddSession, Reply, Return, Goto, Pcs, Handler
    <2>3. CASE Lookup(c) \/ CreateUser(c) \/ RemoveSession(c)
      BY <1>1, <2>3 DEF Lookup, CreateUser, RemoveSession, Reply, Return, Goto, Pcs, Handler
    <2>. QED
      BY <1>5, <2>1, <2>2, <2>3 DEF Moves, Step
  <1>. QED
    BY <1>2, <1>3, <1>4, <1>5, OwnSteps

LEMMA OfflineStep ==
  ASSUME IInv, [Next]_vars, AllowRelogin = FALSE, Account PROVE OfflineClean'
  <1>. SUFFICES ASSUME NEW u \in Names, ~IsUserLoggedIn(u)' PROVE users'[u].last = 0
    BY DEF OfflineClean
  <1>1. /\ users \in [Keys -> User] /\ h \in [Conns -> Handler]
        /\ session \in [Conns -> Keys \cup {NoSession}]
        /\ u \in Keys /\ u # NoName /\ u # NoSession
    BY NamesAreKeys DEF IInv, TypeOK
  <1>2. ~IsUserLoggedIn(u) => users[u].last = 0
    BY DEF Account, OfflineClean
  <1>3. CASE UNCHANGED <<session, users>>
    BY <1>2, <1>3 DEF IsUserLoggedIn
  <1>4. ASSUME NEW c \in Conns, LogsIn(c) PROVE users'[u].last = 0
    <2>1. h[c].cmd = "LOGIN"
      BY <1>4 DEF Account, LoginInv, LogsIn
    <2>2. session[c] = NoSession
      BY <1>4, <2>1 DEF Account, LoginInv, LogsIn, LoggedIn
    <2>3. ~IsUserLoggedIn(u)
      BY <1>1, <1>4, <2>2 DEF IsUserLoggedIn, LogsIn
    <2>. QED
      BY <1>2, <1>4, <2>3 DEF LogsIn
  <1>5. ASSUME NEW c \in Conns, Leaves(c) PROVE users'[u].last = 0
    <2>1. CASE session[c] = u
      <3>1. h[c].at = "drop" /\ h[c].usr = u
        BY <1>1, <1>5, <2>1 DEF Leaves, IInv, HandlersInv, Linked, Holding
      <3>. QED
        BY <1>5, <3>1 DEF Account, DropInv, Leaves
    <2>2. CASE session[c] # u
      <3>1. ~IsUserLoggedIn(u)
        BY <1>1, <1>5, <2>2 DEF IsUserLoggedIn, Leaves
      <3>. QED
        BY <1>2, <1>5, <3>1 DEF Leaves
    <2>. QED
      BY <2>1, <2>2
  <1>6. ASSUME NEW c \in Conns, Creates(c) \/ Body(c) PROVE users'[u].last = 0
    <2>1. UNCHANGED session
      BY <1>6, BodyEffect DEF Creates
    <2>2. ~IsUserLoggedIn(u)
      BY <2>1 DEF IsUserLoggedIn
    <2>3. h[c].at \in Holding
      BY <1>6 DEF Creates, Body, At, Holding
    <2>4. h[c].usr # u
      BY <2>2, <2>3, HolderIsLoggedIn DEF IsUserLoggedIn
    <2>5. users'[u] = users[u]
      BY <1>1, <1>6, <2>4, BodyEffect DEF Creates
    <2>. QED
      BY <1>2, <2>2, <2>5
  <1>. QED
    BY <1>3, <1>4, <1>5, <1>6, NextEffect

LEMMA ChargesStep ==
  ASSUME IInv, [Next]_vars, NewUserInv, OfflineClean, Charges PROVE Charges'
  <1>. SUFFICES ASSUME NEW u \in Names
                PROVE  users'[u].charged + Pending(users[u])' <= online'[u]
    BY DEF Charges
  <1>1. /\ users \in [Keys -> User] /\ h \in [Conns -> Handler] /\ u \in Keys
        /\ now \in Nat /\ online[u] \in Nat /\ online \in [Keys -> Nat]
        /\ users[u].last \in Nat /\ users[u].last <= now /\ users[u].charged \in Nat
        /\ users[u].charged + Pending(users[u]) <= online[u]
    BY NamesAreKeys DEF IInv, TypeOK, User, ClockInv, Charges
  <1>2. CASE Tick
    <2>1. UNCHANGED users /\ now' = now + 1
      BY <1>2 DEF Tick
    <2>2. online'[u] = IF IsUserLoggedIn(u) THEN online[u] + 1 ELSE online[u]
      BY <1>1, <1>2 DEF Tick
    <2>3. CASE users[u].last = 0
      BY <1>1, <2>1, <2>2, <2>3 DEF Pending
    <2>4. CASE users[u].last # 0
      <3>1. IsUserLoggedIn(u)
        BY <2>4 DEF OfflineClean
      <3>. QED
        BY <1>1, <2>1, <2>2, <2>4, <3>1 DEF Pending
    <2>. QED
      BY <2>3, <2>4
  <1>3. CASE UNCHANGED <<now, online>>
    <2>1. CASE users'[u] = users[u]
      BY <1>1, <1>3, <2>1 DEF Pending
    <2>2. ASSUME NEW c \in Conns, Creates(c), h[c].usr = u
          PROVE  users'[u].charged + Pending(users[u])' <= online'[u]
      <3>1. users'[u] = [NoUser EXCEPT !.exists = TRUE]
        BY <1>1, <2>2 DEF Creates
      <3>2. users'[u].charged = 0 /\ users'[u].last = 0
        BY <3>1 DEF NoUser
      <3>. QED
        BY <1>1, <1>3, <3>2 DEF Pending
    <2>3. ASSUME NEW c \in Conns, Body(c), h[c].usr = u
          PROVE  users'[u].charged + Pending(users[u])' <= online'[u]
      <3>1. PICK w \in User : users'[u] = w /\ Follows(w, users[u], c)
        BY <1>1, <2>3, BodyEffect
      <3>2. w.charged + Pending(w) <= users[u].charged + Pending(users[u])
        BY <3>1 DEF Follows
      <3>3. Pending(users[u])' = Pending(w)
        BY <1>3, <3>1 DEF Pending
      <3>4. w.charged + Pending(w) \in Int /\ users[u].charged + Pending(users[u]) \in Int
        <4>1. w.charged \in Nat /\ w.last \in Nat
          BY <3>1 DEF User
        <4>. QED
          BY <1>1, <4>1 DEF Pending
      <3>. QED
        BY <1>1, <1>3, <3>1, <3>2, <3>3, <3>4
    <2>4. ASSUME NEW c \in Conns, LogsIn(c) \/ Leaves(c) \/ Creates(c) \/ Body(c)
          PROVE  users'[u] = users[u] \/ ((Creates(c) \/ Body(c)) /\ h[c].usr = u)
      BY <1>1, <2>4, BodyEffect DEF LogsIn, Leaves, Creates
    <2>. QED
      BY <2>1, <2>2, <2>3, <2>4, NextEffect
  <1>. QED
    BY <1>2, <1>3, TimePasses

(* As long as no connection logs in twice, the time the server has charged  *)
(* a user by its own clock, and would charge at a disconnection now, is     *)
(* time spent logged in, each part of it once; whatever clients report.     *)
THEOREM OnlyOnlineTimeIsCharged ==
  Spec => [](AllowRelogin = FALSE => ChargedTimeWasOnline /\ OfflineClean)
  <1> DEFINE Inv == IInv /\ (AllowRelogin = FALSE => Account)
  <1>1. Init => Inv
    BY InitIInv, InitAccount
  <1>2. Inv /\ [Next]_vars => Inv'
    BY NextIInv, LoginStep, NewUserStep, DropStep, OfflineStep, ChargesStep DEF Account
  <1>3. Inv => (AllowRelogin = FALSE => ChargedTimeWasOnline /\ OfflineClean)
    BY DEF Account, Charges, Pending, ChargedTimeWasOnline
  <1>. HIDE DEF Inv
  <1>. QED
    BY <1>1, <1>2, <1>3, PTL DEF Spec

-----------------------------------------------------------------------------
(* The handlers, interleaved and with their locks, implement the service:   *)
(* AddSession is Login, RemoveSession is Leave, CreateUser is Start, the    *)
(* unlocked work of HandleSubmitAnswer is Answer, and all else a stutter.   *)
LEMMA SameCardinality == \A S : Service!Cardinality(S) = Cardinality(S)
  BY DEF Service!Cardinality, Cardinality, Service!IsFiniteSet, IsFiniteSet

LEMMA SamePoints ==
  ASSUME NEW r \in Results PROVE Service!Points(r.tracker) = ScoreOf(r)
  BY SameCardinality DEF Service!Points, Service!ScoreOf, ScoreOf, Service!Count, Count,
                         Service!Questions, Questions

LEMMA SameGrade ==
  ASSUME NEW q \in Questions, NEW raw
  PROVE  Service!Grade(q, Service!SelectedOps(raw)) = Grade(q, SelectedOps(raw))
  BY DEF Service!Grade, Grade, Service!SelectedOps, SelectedOps, Service!Options, Options

LEMMA InitService == Init => Service!Init
  <1>. SUFFICES ASSUME Init PROVE Service!Init
    OBVIOUS
  <1>1. \A u \in Keys : /\ ~users[u].exists
                       /\ users[u].res.tracker = [q \in Questions |-> "NONE"]
                       /\ users[u].res.score = 0
    BY DEF Init, NoUser, EmptyResult
  <1>. QED
    BY <1>1 DEF Init, Service!Init, Service!Questions, Questions

LEMMA ServiceStep ==
  ASSUME IInv, NewUserInv, [Next]_vars
  PROVE  [Service!Next]_(Service!vars)
  <1>1. /\ users \in [Keys -> User] /\ h \in [Conns -> Handler]
        /\ session \in [Conns -> Keys \cup {NoSession}]
    BY DEF IInv, TypeOK
  <1>2. CASE UNCHANGED <<session, users>>
    BY <1>2 DEF Service!vars
  <1>3. ASSUME NEW c \in Conns, LogsIn(c) PROVE Service!Next
    <2>1. h[c].usr \in Keys
      BY <1>1 DEF Handler
    <2>2. Service!Login(c, h[c].usr)
      BY <1>3 DEF LogsIn, IsUserLoggedIn, Service!Login
    <2>. QED
      BY <2>1, <2>2 DEF Service!Next
  <1>4. ASSUME NEW c \in Conns, Leaves(c) PROVE Service!Next
    BY <1>4 DEF Leaves, Service!Leave, Service!Next
  <1>5. ASSUME NEW c \in Conns, Creates(c) PROVE Service!Next
    <2> DEFINE u == h[c].usr
               w == [NoUser EXCEPT !.exists = TRUE]
    <2>1. u \in Keys /\ h[c].cmd \notin Leaving
      BY <1>1, <1>5 DEF Creates, Handler, IInv, HandlersInv, Placed, Leaving
    <2>2. session[c] = u
      BY <1>5, <2>1, HolderIsLoggedIn DEF Creates, Holding
    <2>3. users[u] = NoUser
      BY <1>5, <2>1 DEF NewUserInv, Creates
    <2>4. w.exists /\ w.res = NoUser.res
      BY DEF NoUser
    <2>5. users' = [users EXCEPT ![u] = w] /\ UNCHANGED session /\ ~users[u].exists
      BY <1>5 DEF Creates
    <2>. HIDE DEF w, u
    <2>6. \A v \in Keys : /\ users'[v].res = users[v].res
                         /\ users'[v].exists <=> v = u \/ users[v].exists
      BY <1>1, <2>3, <2>4, <2>5
    <2>7. Service!Start(c)
      BY <2>1, <2>2, <2>5, <2>6 DEF Service!Start
    <2>. QED
      BY <2>7 DEF Service!Next
  <1>6. ASSUME NEW c \in Conns, Body(c) PROVE Service!Next \/ UNCHANGED Service!vars
    <2> DEFINE u == h[c].usr
               old == users[u]
    <2>1. u \in Keys /\ old \in User /\ old.exists /\ h[c].at = "body"
      BY <1>1, <1>6 DEF Body, At, Handler, IInv, HandlersInv, Placed
    <2>2. UNCHANGED session
      BY <1>6, BodyEffect
    <2>3. PICK w \in User : users' = [users EXCEPT ![u] = w] /\ Follows(w, old, c)
      BY <1>6, BodyEffect
    <2>4. \A v \in Keys : users'[v].exists <=> users[v].exists
      BY <1>1, <2>1, <2>3 DEF Follows
    <2>5. \A v \in Keys : users'[v] = IF v = u THEN w ELSE users[v]
      BY <1>1, <2>3
    <2>6. CASE w.res = old.res
      BY <2>2, <2>4, <2>5, <2>6 DEF Service!vars
    <2>7. CASE w.res # old.res
      <3>1. PICK q \in Questions, raw \in RawSelections :
              w.res = AddAnswer(old.res, q, SelectedOps(raw))
        BY <2>3, <2>7 DEF Follows
      <3>2. h[c].cmd \notin Leaving
        BY <2>3, <2>7 DEF Follows, Leaving
      <3>3. session[c] = u
        BY <2>1, <3>2, HolderIsLoggedIn DEF Holding
      <3>4. old.res \in Results /\ old.res.score = ScoreOf(old.res)
        BY <2>1 DEF User, IInv, ScoresAreSums
      <3>5. w.res.tracker = [old.res.tracker EXCEPT ![q] = Grade(q, SelectedOps(raw))]
        BY <3>1, <3>4, AddAnswerTracker
      <3>6. w.res \in Results /\ w.res.score = ScoreOf(w.res)
        BY <3>1, <3>4, SelectedType, AddAnswerType, AddAnswerScore
      <3>7. w.res.score = Service!Points(w.res.tracker)
        BY <3>6, SamePoints
      <3>8. Service!Answer(c, q, Service!SelectedOps(raw))
        <4>1. session[c] \in {v \in Keys : users[v].exists}
          BY <2>1, <3>3
        <4>2. [v \in Keys |-> users[v].res.tracker]'
                = [[v \in Keys |-> users[v].res.tracker]
                     EXCEPT ![u][q] = Service!Grade(q, Service!SelectedOps(raw))]
          BY <2>1, <2>5, <3>5, SameGrade
        <4>3. [v \in Keys |-> users[v].res.tracker]'[u] = w.res.tracker
          BY <2>1, <2>5
        <4>4. [v \in Keys |-> users[v].res.score]'
                = [[v \in Keys |-> users[v].res.score]
                     EXCEPT ![u] = Service!Points([v \in Keys |-> users[v].res.tracker]'[u])]
          <5>1. [v \in Keys |-> users[v].res.score]'
                  = [[v \in Keys |-> users[v].res.score] EXCEPT ![u] = w.res.score]
            BY <2>1, <2>5
          <5>. QED
            BY <3>7, <4>3, <5>1
        <4>5. UNCHANGED {v \in Keys : users[v].exists}
          BY <2>4
        <4>. HIDE DEF u
        <4>. QED
          BY <2>2, <3>3, <4>1, <4>2, <4>4, <4>5 DEF Service!Answer
      <3>9. q \in Service!Questions
        BY DEF Service!Questions, Questions
      <3>. QED
        BY <3>8, <3>9 DEF Service!Next
    <2>. QED
      BY <2>6, <2>7
  <1>. QED
    BY <1>2, <1>3, <1>4, <1>5, <1>6, NextEffect

(* The promise of QuizService holds for any number of connections, users    *)
(* and questions, however the handlers interleave.                          *)
THEOREM Refinement == Spec => ImplementsService
  <1> DEFINE Inv == IInv /\ NewUserInv
  <1>1. Init => Inv
    BY InitIInv, NoUserType DEF Init, NewUserInv
  <1>2. Inv /\ [Next]_vars => Inv'
    BY NextIInv, NewUserStep
  <1>3. Inv /\ [Next]_vars => [Service!Next]_(Service!vars)
    BY ServiceStep
  <1>. HIDE DEF Inv
  <1>. QED
    BY <1>1, <1>2, <1>3, InitService, PTL DEF Spec, ImplementsService, Service!Spec

-----------------------------------------------------------------------------
(* What the other models take the server for: QuizClient a QuizLink, and    *)
(* QuizStateManager a caller that never makes it block.                     *)

LEMMA OwnEffect ==
  ASSUME IInv, NEW c \in Conns, LogsIn(c) \/ Leaves(c) \/ Creates(c)
  PROVE  /\ h'[c] # h[c] /\ \A d \in Conns : d # c => h'[d] = h[d] /\ session'[d] = session[d]
         /\ Link(c)!Own
  <1>1. /\ h \in [Conns -> Handler] /\ session \in [Conns -> Keys \cup {NoSession}]
        /\ users \in [Keys -> User] /\ h[c].usr \in Keys
        /\ \A label \in {"idle", "closed"} : NoHandler(label).at = label
    BY NoHandlerType DEF IInv, TypeOK, Handler, Pcs
  <1>2. CASE LogsIn(c)
    <2>1. h[c].usr # session[c]
      BY <1>2 DEF LogsIn, IsUserLoggedIn
    <2>2. Link(c)!Login(h[c].usr)
      BY <1>1, <1>2, <2>1 DEF LogsIn, Link!Login
    <2>3. h'[c].at = "idle" /\ h[c].at = "add"
      BY <1>1, <1>2 DEF LogsIn
    <2>. QED
      BY <1>1, <1>2, <2>2, <2>3 DEF LogsIn, Link!Own
  <1>3. CASE Leaves(c)
    <2>1. Link(c)!Leave
      BY <1>1, <1>3 DEF Leaves, Link!Leave
    <2>2. h'[c].at \in {"idle", "closed"} /\ h[c].at = "drop"
      BY <1>1, <1>3 DEF Leaves
    <2>. QED
      BY <1>1, <1>3, <2>1, <2>2 DEF Leaves, Link!Own
  <1>4. CASE Creates(c)
    <2>1. h[c].cmd = "START_QUIZ" /\ h[c].at = "create"
      BY <1>4 DEF Creates, IInv, HandlersInv, Placed
    <2>2. session[c] = h[c].usr
      BY <2>1, HolderIsLoggedIn DEF Holding, Leaving
    <2>3. [NoUser EXCEPT !.exists = TRUE].exists
      BY DEF NoUser
    <2>4. Link(c)!Start
      BY <1>1, <1>4, <2>2, <2>3 DEF Creates, Link!Start
    <2>5. h'[c].at = "body"
      BY <1>1, <1>4 DEF Creates, Handler
    <2>. QED
      BY <1>1, <1>4, <2>1, <2>4, <2>5 DEF Creates, Link!Own
  <1>. QED
    BY <1>2, <1>3, <1>4

LEMMA LinkStep ==
  ASSUME IInv, [Next]_vars, NEW c \in Conns
  PROVE  IF h'[c] = h[c] THEN [Link(c)!Elsewhere]_(Link(c)!vars)
         ELSE [Link(c)!Own]_(Link(c)!vars)
  <1>1. users \in [Keys -> User] /\ h \in [Conns -> Handler]
    BY DEF IInv, TypeOK
  <1>2. CASE UNCHANGED <<session, users>>
    BY <1>2 DEF Link!vars
  <1>3. ASSUME NEW d \in Conns, Body(d) PROVE UNCHANGED Link(c)!vars
    <2>1. PICK w \in User : /\ users' = [users EXCEPT ![h[d].usr] = w] /\ w.exists
                            /\ UNCHANGED session /\ h[d].at = "body"
      BY <1>3, BodyEffect DEF Follows
    <2>2. users[h[d].usr].exists /\ h[d].usr \in Keys
      BY <1>1, <2>1 DEF IInv, HandlersInv, Placed, Handler
    <2>3. \A u \in Keys : users'[u].exists <=> users[u].exists
      BY <1>1, <2>1, <2>2
    <2>. QED
      BY <2>1, <2>3 DEF Link!vars
  <1>4. ASSUME LogsIn(c) \/ Leaves(c) \/ Creates(c) PROVE h'[c] # h[c] /\ Link(c)!Own
    BY <1>4, OwnEffect
  <1>5. ASSUME NEW d \in Conns, d # c, LogsIn(d) \/ Leaves(d)
        PROVE  UNCHANGED Link(c)!vars
    <2>1. session'[c] = session[c] /\ users' = users
      BY <1>5, OwnEffect DEF LogsIn, Leaves
    <2>. QED
      BY <2>1 DEF Link!vars
  <1>6. ASSUME NEW d \in Conns, d # c, Creates(d)
        PROVE  h'[c] = h[c] /\ Link(c)!Elsewhere
    <2>1. h[d].cmd = "START_QUIZ" /\ h[d].at = "create" /\ h[d].usr \in Keys
      BY <1>1, <1>6 DEF Creates, IInv, HandlersInv, Placed, Handler
    <2>2. session[d] = h[d].usr /\ LoggedIn(d)
      BY <2>1, HolderIsLoggedIn DEF Holding, Leaving
    <2>3. session[c] # h[d].usr
      BY <1>6, <2>2 DEF IInv, SessionsInjective
    <2>4. [NoUser EXCEPT !.exists = TRUE].exists
      BY DEF NoUser
    <2>5. \A u \in Keys : users'[u].exists <=> u = h[d].usr \/ users[u].exists
      BY <1>1, <1>6, <2>1, <2>4 DEF Creates
    <2>6. h'[c] = h[c] /\ session' = session
      BY <1>6, OwnEffect DEF Creates
    <2>7. Link(c)!Elsewhere
      BY <2>1, <2>3, <2>5, <2>6 DEF Link!Elsewhere
    <2>. QED
      BY <2>6, <2>7
  <1>. QED
    BY <1>2, <1>3, <1>4, <1>5, <1>6, NextEffect

LEMMA InitLink == Init => \A c \in Conns : Link(c)!Init
  <1>1. ~NoUser.exists
    BY DEF NoUser
  <1>. QED
    BY <1>1 DEF Init, Link!Init

(* QuizClient may take any connection of the server for a QuizLink, however *)
(* many others there are and whatever they send.                            *)
THEOREM EveryConnectionIsLink == Spec => ConnectionsAreLinks
  <1>1. IInv /\ [Next]_vars
          => [\A c \in Conns :
                IF h'[c] = h[c] THEN [Link(c)!Elsewhere]_(Link(c)!vars)
                ELSE [Link(c)!Own]_(Link(c)!vars)]_vars
    BY LinkStep
  <1>. QED
    BY <1>1, InitLink, Invariance, PTL DEF Spec, ConnectionsAreLinks

LEMMA ManagerStep ==
  ASSUME IInv, [Next]_vars PROVE [Manager!Next]_(Manager!vars)
  <1>1. CASE UNCHANGED <<quizState, alive>>
    BY <1>1 DEF Manager!vars
  <1>2. CASE Expire
    <2>1. Manager!TimeOut
      BY <1>2 DEF Expire, quizVars, Manager!TimeOut
    <2>. QED
      BY <2>1 DEF Manager!Next
  <1>3. ASSUME NEW c \in Conns, Body(c), quizState' # quizState
        PROVE  Manager!Start("global_quiz")
    <2>1. quizState # "IN_PROGRESS" /\ quizState' = "IN_PROGRESS" /\ alive /\ alive' = alive
      BY <1>3 DEF Body, At, envVars, quizVars, ConfigureUser, ReadUser, FetchUnattempted,
                  FetchQuestion, SubmitAnswer, ChargeUser
    <2>2. quizState = "NOT_STARTED"
      BY <2>1 DEF IInv, TypeOK
    <2>. QED
      BY <2>1, <2>2 DEF Manager!Start
  <1>4. ASSUME NEW c \in Conns, Body(c) PROVE alive' = alive
    BY <1>4 DEF Body, envVars
  <1>5. ASSUME NEW c \in Conns, Moves(c), ~Body(c) PROVE UNCHANGED <<quizState, alive>>
    BY <1>5 DEF Moves, Step, Connect, Receive, Disconnect, Gate, LoginPrecheck, LoginAdd, Lookup,
                GetUser, CreateUser, RemoveSession, quizVars, envVars
  <1>6. Tick \/ UNCHANGED vars => UNCHANGED <<quizState, alive>>
    BY DEF Tick, vars, quizVars
  <1>. QED
    BY <1>1, <1>2, <1>3, <1>4, <1>5, <1>6 DEF Next, Moves, Step, Manager!Next

-----------------------------------------------------------------------------
(* What of RequestAnswered is a matter of safety: a handler that has begun  *)
(* takes at most six steps, and nothing but the relock of AddSession can    *)
(* keep it from the next one.                                               *)

(* How many steps a handler at this place still takes, at most. *)
StepsLeft(label) ==
  IF label = "gate" THEN 6
  ELSE IF label = "lookup" THEN 5
  ELSE IF label = "getuser" THEN 4
  ELSE IF label = "create" THEN 3
  ELSE IF label \in {"body", "precheck"} THEN 2
  ELSE IF label \in {"add", "drop"} THEN 1
  ELSE 0

(* From where to where a handler moves. *)
Moved(hd, next) ==
  \/ /\ hd.at \in {"closed", "idle"} /\ next.at \in {"idle", "gate", "lookup"}
     /\ next.at = "gate" => next.cmd \in Commands \cup {"LOGIN"}
     /\ next.at = "lookup" => next.cmd = "CLOSE"
  \/ hd.at \notin {"closed", "idle", "hung"} /\ next.at \in {"closed", "idle"}
  \/ /\ next.cmd = hd.cmd
     /\ \/ hd.at = "gate" /\ next.at = "precheck"
        \/ hd.at = "gate" /\ next.at = "lookup" /\ hd.cmd \notin {"LOGIN", "UNKNOWN"}
        \/ hd.at = "precheck" /\ next.at = "add"
        \/ hd.at = "add" /\ next.at = "hung" /\ "hang" \in ReentryOutcomes
        \/ hd.at = "lookup" /\ next.at = "getuser"
        \/ hd.at = "getuser" /\ next.at \in {"create", "body", "drop"}
        \/ hd.at = "create" /\ next.at = "body"
        \/ hd.at = "body" /\ next.at = "drop"

(* A handler past the gate has a command with a handler, and no handler     *)
(* hangs unless the relock lets one hang.                                   *)
Handled == (Commands \cup {"CLOSE"}) \ {"UNKNOWN"}
CommandInv ==
  \A c \in Conns :
    /\ h[c].at = "gate" => h[c].cmd \in Commands \cup {"LOGIN"}
    /\ h[c].at \in Holding \cup {"lookup"} => h[c].cmd \in Handled
    /\ h[c].at = "hung" => "hang" \in ReentryOutcomes

(* The guards of Step(c), one for each place: the lock is free where one is *)
(* taken, and the work on the User is that of a command.                    *)
Locking == {"precheck", "add", "lookup", "getuser", "create", "drop"}
MayStep(c) ==
  \/ At(c, "gate")
  \/ \E label \in Locking : At(c, label) /\ sessionMutexFree
  \/ At(c, "body") /\ h[c].cmd \in Handled

LEMMA HandlerMoves ==
  ASSUME IInv, [Next]_vars, NEW c \in Conns, h'[c] # h[c]
  PROVE  Moved(h[c], h'[c])
  <1>1. h \in [Conns -> Handler]
    BY DEF IInv, TypeOK
  <1>2. \A label \in Pcs : NoHandler(label).at = label
    BY NoHandlerType
  <1>3. CASE Connect(c) \/ Receive(c) \/ Disconnect(c)
    BY <1>1, <1>2, <1>3 DEF Connect, Receive, Disconnect, At, Reply, Return, Pcs, Moved
  <1>4. CASE Gate(c)
    BY <1>1, <1>2, <1>4 DEF Gate, At, Reply, Return, Goto, Pcs, Handler, Moved
  <1>5. CASE LoginPrecheck(c) \/ LoginAdd(c)
    BY <1>1, <1>2, <1>5
       DEF LoginPrecheck, LoginAdd, AddSession, At, Reply, Return, Goto, Pcs, Handler, Moved
  <1>6. CASE Lookup(c)
    BY <1>1, <1>2, <1>6 DEF Lookup, At, Reply, Return, Pcs, Handler, Moved
  <1>7. CASE GetUser(c)
    <2>1. AfterGetUser(c) \in {"idle", "create", "body", "drop"}
      BY DEF AfterGetUser
    <2>. QED
      BY <1>1, <1>2, <1>7, <2>1 DEF GetUser, At, Reply, Return, Goto, Pcs, Handler, Moved
  <1>8. CASE CreateUser(c) \/ RemoveSession(c)
    BY <1>1, <1>2, <1>8
       DEF CreateUser, RemoveSession, At, Reply, Return, Goto, Pcs, Handler, Moved
  <1>9. CASE Body(c)
    BY <1>1, <1>2, <1>9, BodyEffect DEF Follows, Pcs, Handler, Moved
  <1>. QED
    BY <1>3, <1>4, <1>5, <1>6, <1>7, <1>8, <1>9, OwnSteps DEF Moves, Step

(* Who works on START_QUIZ passed the gate, so the quiz is in progress and  *)
(* neither IsQuizActive is found false nor StartQuiz called: the two are    *)
(* never separated by another handler.                                      *)
Admitted ==
  \A c \in Conns :
    h[c].at \in {"lookup", "getuser", "create", "body"} /\ h[c].cmd = "START_QUIZ"
      => quizState = "IN_PROGRESS"

LEMMA AdmittedStep ==
  ASSUME IInv, Admitted, [Next]_vars PROVE Admitted' /\ quizState' = quizState
  <1>1. ASSUME NEW c \in Conns, Body(c) PROVE quizState' = quizState
    BY <1>1 DEF Admitted, Body, At, quizVars, ConfigureUser, ReadUser, FetchUnattempted,
                FetchQuestion, SubmitAnswer, ChargeUser
  <1>2. quizState' = quizState
    BY <1>1 DEF Next, Moves, Step, Connect, Receive, Disconnect, Gate, LoginPrecheck, LoginAdd,
                Lookup, GetUser, CreateUser, RemoveSession, Tick, Expire, vars, quizVars
  <1>3. ASSUME NEW c \in Conns, h'[c].at \in {"lookup", "getuser", "create", "body"},
               h'[c].cmd = "START_QUIZ"
        PROVE  quizState = "IN_PROGRESS"
    <2>1. CASE h'[c] = h[c]
      BY <1>3, <2>1 DEF Admitted
    <2>2. CASE h'[c] # h[c] /\ h[c].at = "gate"
      <3>1. Gate(c)
        BY <2>2, OwnSteps DEF Moves, Step, Connect, Receive, Disconnect, LoginPrecheck, LoginAdd,
           Lookup, GetUser, CreateUser, Body, RemoveSession, At
      <3>2. h'[c].cmd = h[c].cmd
        BY <1>3, <2>2, HandlerMoves DEF Moved
      <3>. QED
        BY <1>3, <3>1, <3>2, NoHandlerType DEF Gate, IsCommandAllowed, Reply, Return, IInv, TypeOK, Pcs
    <2>3. CASE h'[c] # h[c] /\ h[c].at # "gate"
      <3>1. Moved(h[c], h'[c])
        BY <2>3, HandlerMoves
      <3>2. /\ h'[c].cmd = h[c].cmd
            /\ h[c].at \in {"lookup", "getuser", "create", "body"}
        BY <1>3, <2>3, <3>1 DEF Moved
      <3>. QED
        BY <1>3, <3>2 DEF Admitted
    <2>. QED
      BY <2>1, <2>2, <2>3
  <1>. QED
    BY <1>2, <1>3 DEF Admitted

(* The server never asks of the manager what makes it block for ever, a     *)
(* second StartQuiz of a quiz or its end: a handler at work on START_QUIZ   *)
(* finds the quiz in progress, so only the quiz's own clock ends what the   *)
(* manager answers.                                                         *)
THEOREM ServerSparesManager == Spec => NeverBlocksManager /\ []Admitted
  <1> DEFINE Inv == IInv /\ Admitted
  <1>1. Init => Manager!Init /\ Inv
    BY InitIInv, NoHandlerType DEF Init, Manager!Init, Admitted, Pcs
  <1>2. Inv /\ [Next]_vars => Inv'
    BY NextIInv, AdmittedStep
  <1>3. Inv /\ [Next]_vars => [Manager!Next]_(Manager!vars)
    BY ManagerStep
  <1>4. Inv => Admitted
    OBVIOUS
  <1>. HIDE DEF Inv
  <1>. QED
    BY <1>1, <1>2, <1>3, <1>4, PTL DEF Spec, NeverBlocksManager, Manager!Spec

LEMMA CommandStep ==
  ASSUME IInv, CommandInv, [Next]_vars PROVE CommandInv'
  <1>. SUFFICES ASSUME NEW c \in Conns
                PROVE  /\ h'[c].at = "gate" => h'[c].cmd \in Commands \cup {"LOGIN"}
                       /\ h'[c].at \in Holding \cup {"lookup"} => h'[c].cmd \in Handled
                       /\ h'[c].at = "hung" => "hang" \in ReentryOutcomes
    BY DEF CommandInv
  <1>1. CASE h'[c] = h[c]
    BY <1>1 DEF CommandInv
  <1>2. CASE h'[c] # h[c]
    <2>1. Moved(h[c], h'[c])
      BY <1>2, HandlerMoves
    <2>. QED
      BY <2>1 DEF Moved, CommandInv, Holding, Handled, Commands
  <1>. QED
    BY <1>1, <1>2

(* Every handler is answered within six steps of its own, and while no      *)
(* relock hangs nothing but the end of the process keeps it from the next;  *)
(* and once a relock has hung, no session is ever opened or closed again.   *)
THEOREM HandlersAreBounded ==
  Spec => /\ [][\A c \in Conns : h'[c] # h[c] =>
                  \/ h[c].at \in {"closed", "idle"}
                  \/ StepsLeft(h'[c].at) < StepsLeft(h[c].at)]_vars
          /\ []("hang" \notin ReentryOutcomes /\ alive => \A c \in Busy : MayStep(c))
          /\ [][~sessionMutexFree => ~sessionMutexFree' /\ UNCHANGED session]_vars
  <1> DEFINE Inv == IInv /\ CommandInv
  <1>1. Init => Inv
    BY InitIInv, NoHandlerType DEF Init, CommandInv, Holding, Pcs
  <1>2. Inv /\ [Next]_vars => Inv'
    BY NextIInv, CommandStep
  <1>3. Inv /\ [Next]_vars
          => [\A c \in Conns : h'[c] # h[c] =>
                \/ h[c].at \in {"closed", "idle"}
                \/ StepsLeft(h'[c].at) < StepsLeft(h[c].at)]_vars
    <2>1. ASSUME NEW hd, NEW next, Moved(hd, next)
          PROVE  hd.at \in {"closed", "idle"} \/ StepsLeft(next.at) < StepsLeft(hd.at)
                 \/ (hd.at \notin {"closed", "idle", "hung"} /\ next.at \in {"closed", "idle"})
      BY <2>1 DEF Moved, StepsLeft
    <2>2. ASSUME NEW label \in Pcs, label \notin {"closed", "idle", "hung"}
          PROVE  StepsLeft(label) > 0 /\ StepsLeft("closed") = 0 /\ StepsLeft("idle") = 0
      BY <2>2 DEF Pcs, StepsLeft
    <2>3. IInv => \A c \in Conns : h[c].at \in Pcs
      BY DEF IInv, TypeOK, Handler
    <2>. QED
      BY <2>1, <2>2, <2>3, HandlerMoves
  <1>4. Inv => ("hang" \notin ReentryOutcomes /\ alive => \A c \in Busy : MayStep(c))
    <2>. SUFFICES ASSUME Inv, "hang" \notin ReentryOutcomes, alive, NEW c \in Busy
                  PROVE  MayStep(c)
      OBVIOUS
    <2>1. /\ c \in Conns /\ h[c].at \in Pcs \ {"closed", "idle", "hung"}
          /\ sessionMutexFree /\ (h[c].at = "body" => h[c].cmd \in Handled)
      BY DEF Busy, IInv, TypeOK, Handler, CommandInv, sessionMutexFree, Holding
    <2>. QED
      BY <2>1 DEF MayStep, At, Pcs, Locking
  <1>5. Inv /\ [Next]_vars
          => [~sessionMutexFree => ~sessionMutexFree' /\ UNCHANGED session]_vars
    <2>. SUFFICES ASSUME IInv, [Next]_vars, ~sessionMutexFree
                  PROVE  ~sessionMutexFree' /\ UNCHANGED session
      OBVIOUS
    <2>1. PICK c \in Conns : h[c].at = "hung"
      BY DEF sessionMutexFree
    <2>2. h'[c].at = "hung"
      BY <2>1, HandlerMoves DEF Moved
    <2>3. ASSUME NEW d \in Conns, Moves(d) PROVE session' = session
      BY <2>3, BodyEffect DEF Moves, Connect, Receive, Disconnect, Step, Gate, LoginPrecheck,
         LoginAdd, Lookup, GetUser, CreateUser, RemoveSession
    <2>. QED
      BY <2>2, <2>3 DEF Next, Moves, Tick, Expire, vars, sessionMutexFree
  <1>. HIDE DEF Inv
  <1>. QED
    BY <1>1, <1>2, <1>3, <1>4, <1>5, PTL DEF Spec
=============================================================================

-------------------------- MODULE QuizClientProofs --------------------------
(***************************************************************************)
(* Proofs about the client, for any users and any number of        *)
(* requests, sent as fast as the user likes.  The replies and requests     *)
(* under way are read as one stream, the next reply first.                 *)
(***************************************************************************)
EXTENDS QuizClient, TLAPS

Total  == Len(toClient) + Len(toServer)
Msg(i) == IF i <= Len(toClient) THEN toClient[i] ELSE toServer[i - Len(toClient)]

(* The messages that log in, those that set the client's session, and those *)
(* that activate or end the quiz.                                           *)
LoginTypes == {"LOGIN", "LOGIN_OK", "LOGIN_FAIL"}
SetTypes   == {"LOGIN_OK", "LOGOUT_OK"}
QuizTypes  == {"QUIZ_STARTED", "QUIZ_RESTARTED", "QUIZ_RESULT", "QUIZ_ENDED"}

Login(i) == Msg(i).type \in LoginTypes

-----------------------------------------------------------------------------
(* The connection and the two threads.                                      *)
NetInv ==
  /\ net \in {"none", "connecting"} =>
       /\ toServer = <<>> /\ toClient = <<>> /\ handling = <<>> /\ ~connected
       /\ state = "DISCONNECTED" /\ username = Nobody /\ who = Nobody
       /\ ui \in {"connect", "sleep", "leave", "join", "gone"}
  /\ net = "closed" =>
       /\ toServer = <<>> /\ toClient = <<>> /\ handling = <<>>
       /\ state = "DISCONNECTED" /\ who = Nobody
  /\ net \in {"connecting", "open", "closing"} <=> ws = "running"
  /\ ui = "connect" => net = "none"

(* What the fields of a message say by its type.                            *)
MessageInv ==
  /\ \A i \in 1..Len(toServer) :
       toServer[i].type = "LOGIN" => toServer[i].user \in Users
  /\ \A i \in 1..Len(toClient) :
       /\ toClient[i].type = "LOGIN_OK" => toClient[i].user \in Users
       /\ toClient[i].type = "LOGOUT_OK" => toClient[i].user = Nobody

(* The client has a name exactly while it is logged in, or about to be.     *)
NameInv ==
  /\ handling # <<>> =>
       \/ handling.type = "LOGIN_OK" /\ username # Nobody
       \/ handling.type = "LOGOUT_OK" /\ username = Nobody /\ state = "DISCONNECTED"
  /\ IsLoggedIn => username # Nobody
  /\ net # "closed" /\ username # Nobody =>
       IsLoggedIn \/ (handling # <<>> /\ handling.type = "LOGIN_OK")

(* The session is v once the client has handled the first i replies.        *)
Session(i, v) ==
  \/ /\ v = username
     /\ \A k \in 1..i : toClient[k].type \notin SetTypes
  \/ \E k \in 1..i :
       /\ toClient[k].type \in SetTypes /\ v = toClient[k].user
       /\ \A l \in (k + 1)..i : toClient[l].type \notin SetTypes

(* The replies under way turn the client's session into the server's, and a *)
(* quiz is activated only for somebody who has started it.                  *)
SessionInv ==
  net # "closed" =>
    /\ Session(Len(toClient), who)
    /\ \A i \in 1..Len(toClient) :
         toClient[i].type \in QuizTypes => \E v \in hasUser : Session(i, v)

(* The logins under way are together.  What is before them was sent after a *)
(* LOGOUT, what is after them was sent by somebody logged in; never both.   *)
NoneBetween == \A k, i, j \in 1..Total : k < i /\ i < j /\ Login(k) /\ Login(j) => Login(i)
OneSide     == \A i, k, j \in 1..Total : i < k /\ k < j /\ Login(k) => Login(i) \/ Login(j)
Older       == \A i, j \in 1..Total : i < j /\ Login(j) /\ ~Login(i) => username = Nobody

(* Not logged in, or at the menu for it: nothing was sent after a login,    *)
(* and what was sent before is refused.                                     *)
LoggedOutInv ==
  ~IsLoggedIn \/ ui = "main" =>
    /\ \A k, i \in 1..Total : k < i /\ Login(k) => Login(i)
    /\ \A i \in 1..Total : ~Login(i) => username = Nobody

(* At a menu for users logged in: nothing older than a login is under way,  *)
(* and no login at all if the user has been logged out meanwhile.           *)
MenuInv ==
  ui \in {"active", "idle", "quiz", "answer"} =>
    /\ \A i, j \in 1..Total : i < j /\ Login(j) => Login(i)
    /\ ~IsLoggedIn => username = Nobody /\ \A i \in 1..Total : ~Login(i)

ActiveInv ==
  IsQuizActive => username \in hasUser /\ ui # "main" /\ \A i \in 1..Total : ~Login(i)

StreamInv ==
  net # "closed" =>
    NoneBetween /\ OneSide /\ Older /\ LoggedOutInv /\ MenuInv /\ ActiveInv

(* No LOGIN comes between the quiz menu and the answer typed in it.         *)
CreditInv ==
  /\ SubmitCredited
  /\ \A i \in 1..Len(toServer) :
       toServer[i].type = "SUBMIT_ANSWER" =>
         /\ who \in {toServer[i].by, Nobody}
         /\ \A k \in 1..(i - 1) : toServer[k].type # "LOGIN"
  /\ ui \in {"quiz", "answer"} =>
       /\ who \in {shown, Nobody}
       /\ \A i \in 1..Len(toServer) : toServer[i].type # "LOGIN"

IInv == /\ TypeOK /\ NetInv /\ MessageInv /\ NameInv /\ SessionInv /\ StreamInv
        /\ CreditInv

-----------------------------------------------------------------------------
(* The stream and its changes. *)

LEMMA Lengths == TypeOK => Len(toClient) \in Nat /\ Len(toServer) \in Nat /\ Total \in Nat
  BY DEF TypeOK, Total

LEMMA SameStream ==
  ASSUME UNCHANGED <<toServer, toClient>>
  PROVE  Total' = Total /\ \A i : Msg(i)' = Msg(i) /\ (Login(i)' <=> Login(i))
  BY DEF Total, Msg, Login

LEMMA NotEmpty == \A m \in Replies : m # <<>>
  <1>. SUFFICES ASSUME NEW m \in Replies, m = <<>> PROVE FALSE
    OBVIOUS
  <1>1. "type" \in DOMAIN m
    BY DEF Replies
  <1>2. DOMAIN <<>> = {}
    OBVIOUS
  <1>. QED
    BY <1>1, <1>2

LEMMA SendShift ==
  ASSUME TypeOK, NEW m \in Requests, toServer' = Append(toServer, m), toClient' = toClient
  PROVE  /\ Total' = Total + 1 /\ \A i : i = Total + 1 => Msg(i)' = m
         /\ \A i \in 1..Total : Msg(i)' = Msg(i)
         /\ Len(toServer') = Len(toServer) + 1 /\ toServer'[Len(toServer) + 1] = m
         /\ \A i \in 1..Len(toServer) : toServer'[i] = toServer[i]
  <1>1. /\ Len(toServer') = Len(toServer) + 1 /\ toServer'[Len(toServer) + 1] = m
        /\ \A i \in 1..Len(toServer) : toServer'[i] = toServer[i]
    BY DEF TypeOK
  <1>2. Total' = Total + 1
    BY <1>1, Lengths DEF Total
  <1>3. \A i : i = Total + 1 => Msg(i)' = m
    BY <1>1, <1>2, Lengths DEF Total, Msg
  <1>4. ASSUME NEW i \in 1..Total PROVE Msg(i)' = Msg(i)
    <2>1. i <= Len(toClient) \/ i - Len(toClient) \in 1..Len(toServer)
      BY Lengths DEF Total
    <2>. QED
      BY <1>1, <2>1, Lengths DEF Msg
  <1>. QED
    BY <1>1, <1>2, <1>3, <1>4

LEMMA TakeShift ==
  ASSUME TypeOK, toClient # <<>>, toClient' = Tail(toClient), toServer' = toServer
  PROVE  /\ Len(toClient) \in Nat \ {0} /\ Len(toClient') = Len(toClient) - 1
         /\ \A i \in 1..Len(toClient') : toClient'[i] = toClient[i + 1]
         /\ Total \in Nat \ {0} /\ Total' = Total - 1
         /\ \A i \in 1..Total' : Msg(i)' = Msg(i + 1) /\ (Login(i)' <=> Login(i + 1))
         /\ Head(toClient) = toClient[1] /\ Msg(1) = toClient[1]
         /\ toClient[1] \in Replies
  <1>1. /\ Len(toClient) \in Nat \ {0} /\ Len(toClient') = Len(toClient) - 1
        /\ \A i \in 1..Len(toClient') : toClient'[i] = toClient[i + 1]
        /\ Head(toClient) = toClient[1] /\ toClient[1] \in Replies
    BY DEF TypeOK
  <1>2. Total \in Nat \ {0} /\ Total' = Total - 1 /\ Msg(1) = toClient[1]
    BY <1>1 DEF TypeOK, Total, Msg
  <1>3. \A i \in 1..Total' : Msg(i)' = Msg(i + 1)
    BY <1>1, <1>2 DEF TypeOK, Total, Msg
  <1>. QED
    BY <1>1, <1>2, <1>3 DEF Login

LEMMA ServeShift ==
  ASSUME TypeOK, NEW m \in Replies, toServer # <<>>,
         toServer' = Tail(toServer), toClient' = Append(toClient, m)
  PROVE  /\ Total' = Total /\ Len(toClient) + 1 \in 1..Total
         /\ \A i \in 1..Total : i # Len(toClient) + 1 => Msg(i)' = Msg(i)
         /\ \A i : i = Len(toClient) + 1 => Msg(i)' = m /\ Msg(i) = toServer[1]
         /\ Len(toServer') = Len(toServer) - 1 /\ Len(toServer) \in Nat \ {0}
         /\ \A i \in 1..Len(toServer') : toServer'[i] = toServer[i + 1]
         /\ Len(toClient') = Len(toClient) + 1 /\ toClient'[Len(toClient) + 1] = m
         /\ \A i \in 1..Len(toClient) : toClient'[i] = toClient[i]
         /\ Head(toServer) = toServer[1] /\ toServer[1] \in Requests
  <1>1. /\ Len(toServer') = Len(toServer) - 1 /\ Len(toServer) \in Nat \ {0}
        /\ \A i \in 1..Len(toServer') : toServer'[i] = toServer[i + 1]
        /\ Len(toClient') = Len(toClient) + 1 /\ toClient'[Len(toClient) + 1] = m
        /\ \A i \in 1..Len(toClient) : toClient'[i] = toClient[i]
        /\ Head(toServer) = toServer[1] /\ toServer[1] \in Requests
    BY DEF TypeOK
  <1>2. Total' = Total /\ Len(toClient) + 1 \in 1..Total
    BY <1>1 DEF TypeOK, Total
  <1>3. /\ \A i \in 1..Total : i # Len(toClient) + 1 => Msg(i)' = Msg(i)
        /\ \A i : i = Len(toClient) + 1 => Msg(i)' = m /\ Msg(i) = toServer[1]
    <2>1. \A i : i = Len(toClient) + 1 => Msg(i)' = m /\ Msg(i) = toServer[1]
      BY <1>1, Lengths DEF Msg
    <2>2. ASSUME NEW i \in 1..Total, i # Len(toClient) + 1 PROVE Msg(i)' = Msg(i)
      <3>1. CASE i <= Len(toClient)
        BY <1>1, <3>1, Lengths DEF Msg
      <3>2. CASE i > Len(toClient)
        <4>1. i - (Len(toClient) + 1) \in 1..Len(toServer') /\ i > Len(toClient')
          BY <1>1, <2>2, <3>2, Lengths DEF Total
        <4>2. (i - (Len(toClient) + 1)) + 1 = i - Len(toClient)
          BY <3>2, Lengths
        <4>. QED
          BY <1>1, <4>1, <4>2, <3>2, Lengths DEF Msg
      <3>. QED
        BY <3>1, <3>2, Lengths
    <2>. QED
      BY <2>1, <2>2
  <1>. QED
    BY <1>1, <1>2, <1>3

-----------------------------------------------------------------------------
(* The parts of the invariant, when what they are about does not change.    *)

LEMMA FrameMessage ==
  ASSUME MessageInv, UNCHANGED <<toServer, toClient>> PROVE MessageInv'
  BY DEF MessageInv

LEMMA FrameSession ==
  ASSUME SessionInv, UNCHANGED <<toClient, username, who>>, hasUser \subseteq hasUser',
         net' = "closed" \/ net # "closed"
  PROVE  SessionInv'
  <1>1. \A i, v : Session(i, v)' <=> Session(i, v)
    BY DEF Session
  <1>. QED
    BY <1>1 DEF SessionInv

LEMMA FrameStream ==
  ASSUME StreamInv, NameInv, UNCHANGED <<toServer, toClient, username>>,
         hasUser \subseteq hasUser', net' = "closed" \/ net # "closed",
         IsLoggedIn => IsLoggedIn',
         ui' = "main" => ui = "main" \/ ~IsLoggedIn,
         ui' \in {"active", "idle", "quiz", "answer"} =>
           ui \in {"active", "idle", "quiz", "answer"} \/ IsLoggedIn,
         IsQuizActive' => IsQuizActive /\ ui' # "main"
  PROVE  StreamInv'
  <1>. SUFFICES ASSUME net' # "closed" PROVE StreamInv'
    BY DEF StreamInv
  <1>1. net # "closed"
    OBVIOUS
  <1>. HIDE DEF IsLoggedIn, IsQuizActive
  <1>2. NoneBetween' /\ OneSide' /\ Older'
    BY <1>1, SameStream DEF StreamInv, NoneBetween, OneSide, Older
  <1>3. LoggedOutInv'
    BY <1>1, SameStream DEF StreamInv, LoggedOutInv
  <1>4. MenuInv'
    BY <1>1, SameStream DEF StreamInv, MenuInv, Older, NameInv
  <1>5. ActiveInv'
    BY <1>1, SameStream DEF StreamInv, ActiveInv
  <1>. QED
    BY <1>2, <1>3, <1>4, <1>5 DEF StreamInv

LEMMA FrameCredit ==
  ASSUME CreditInv, UNCHANGED <<toServer, toClient, who>>,
         ui' \in {"quiz", "answer"} => ui \in {"quiz", "answer"} /\ shown' = shown
  PROVE  CreditInv'
  BY DEF CreditInv, SubmitCredited

LEMMA InitIInv == Init => IInv
  <1>. SUFFICES ASSUME Init PROVE IInv
    OBVIOUS
  <1>1. Len(toClient) = 0 /\ Len(toServer) = 0 /\ Total = 0
    BY DEF Init, Total
  <1>2. TypeOK
    <2>1. toServer \in Seq(Requests) /\ toClient \in Seq(Replies)
      BY DEF Init
    <2>2. handling = <<>> /\ sends \in 0..MaxSends
      BY QuizClientAssumption DEF Init
    <2>3. net \in {"none", "connecting", "open", "closing", "closed"} /\ connected \in BOOLEAN
          /\ ws \in {"none", "running", "ended"} /\ state \in ClientStates /\ ui \in Places
      BY DEF Init, ClientStates, Places
    <2>4. username \in Users \cup {Nobody} /\ shown \in Users \cup {Nobody}
          /\ who \in Users \cup {Nobody} /\ hasUser \subseteq Users
      BY DEF Init
    <2>. QED
      BY <2>1, <2>2, <2>3, <2>4 DEF TypeOK
  <1>3. NetInv /\ MessageInv /\ NameInv /\ SessionInv
    BY <1>1 DEF Init, NetInv, MessageInv, NameInv, SessionInv, Session, IsLoggedIn
  <1>4. StreamInv
    BY <1>1 DEF Init, StreamInv, NoneBetween, OneSide, Older, LoggedOutInv, MenuInv,
                ActiveInv, IsLoggedIn, IsQuizActive
  <1>5. CreditInv
    BY <1>1 DEF Init, CreditInv, SubmitCredited
  <1>. QED
    BY <1>2, <1>3, <1>4, <1>5 DEF IInv

-----------------------------------------------------------------------------
(* Steps that leave the stream alone. *)

QuietMain == ConnectToServer \/ WakeUp \/ Loop \/ Disconnect \/ InvalidChoice \/ Quit
             \/ PeerCloses \/ Elsewhere \/ UNCHANGED vars

LEMMA QuietMainStep == IInv /\ QuietMain => IInv'
  <1>. SUFFICES ASSUME IInv, QuietMain PROVE IInv'
    OBVIOUS
  <1>. USE DEF IInv
  <1>1. /\ UNCHANGED <<toServer, toClient, handling, state, username, who>>
        /\ hasUser \subseteq hasUser'
        /\ net' = "closed" <=> net = "closed"
        /\ connected' => connected
        /\ net' = "open" => net = "open"
        /\ ui' \in {"quiz", "answer"} => ui \in {"quiz", "answer"} /\ shown' = shown
        /\ ui' = "main" => ui = "main" \/ ~IsLoggedIn
        /\ ui' \in {"active", "idle", "quiz", "answer"} =>
             ui \in {"active", "idle", "quiz", "answer"} \/ IsLoggedIn
    BY DEF QuietMain, ConnectToServer, WakeUp, Loop, Disconnect, InvalidChoice, Quit, PeerCloses,
           Elsewhere, Link!Elsewhere, ServerStep, UiStep, sessionVars, uiVars,
           serverVars, netVars, vars, TypeOK, NetInv
  <1>2. TypeOK'
    BY DEF QuietMain, ConnectToServer, WakeUp, Loop, Disconnect, InvalidChoice, Quit, PeerCloses,
           Elsewhere, Link!Elsewhere, ServerStep, UiStep, sessionVars, uiVars,
           serverVars, netVars, vars, TypeOK, Places
  <1>3. NetInv'
    BY DEF QuietMain, ConnectToServer, WakeUp, Loop, Disconnect, InvalidChoice, Quit, PeerCloses,
           Elsewhere, Link!Elsewhere, ServerStep, UiStep, sessionVars, uiVars,
           serverVars, netVars, vars, TypeOK, NetInv, IsLoggedIn
  <1>4. NameInv'
    BY <1>1 DEF NameInv, IsLoggedIn
  <1>5. StreamInv'
    <2>1. IsLoggedIn => IsLoggedIn'
      BY <1>1 DEF IsLoggedIn
    <2>2. IsQuizActive' => IsQuizActive /\ ui' # "main"
      BY <1>1 DEF StreamInv, ActiveInv, IsQuizActive, IsLoggedIn, NetInv
    <2>. QED
      BY <1>1, <2>1, <2>2, FrameStream
  <1>. QED
    BY <1>1, <1>2, <1>3, <1>4, <1>5, FrameMessage, FrameSession, FrameCredit

(* Opening the answer, in ShowQuizMenu.                                     *)
OpensAnswer ==
  /\ ui = "quiz" /\ ui' = "answer"
  /\ UNCHANGED <<net, connected, shown, sends, toServer>> /\ UiStep

LEMMA QuietMenuStep == IInv /\ (LoopActive \/ OpensAnswer) => IInv'
  <1>. SUFFICES ASSUME IInv, LoopActive \/ OpensAnswer PROVE IInv'
    OBVIOUS
  <1>. USE DEF IInv
  <1>1. /\ UNCHANGED <<net, connected, ws, toServer, toClient, handling, state, username, who, hasUser>>
        /\ ui' # "main" /\ ui \in {"active", "quiz"} /\ ui' \in {"idle", "quiz", "answer"}
    BY DEF LoopActive, OpensAnswer, UiStep, sessionVars, serverVars
  <1>2. TypeOK'
    BY DEF LoopActive, OpensAnswer, UiStep, sessionVars, serverVars, TypeOK, Places
  <1>3. NetInv' /\ NameInv'
    BY <1>1 DEF NetInv, NameInv, IsLoggedIn
  <1>4. StreamInv'
    BY <1>1, FrameStream DEF IsLoggedIn, IsQuizActive
  <1>5. CreditInv'
    <2>1. CASE OpensAnswer \/ ~IsQuizActive
      BY <1>1, <2>1, FrameCredit DEF OpensAnswer, LoopActive, UiStep
    <2>2. CASE LoopActive /\ IsQuizActive
      <3>1. net # "closed" /\ shown' = username
        BY <2>2 DEF LoopActive, NetInv, IsQuizActive
      <3>2. \A i \in 1..Total : ~Login(i)
        BY <2>2, <3>1 DEF StreamInv, ActiveInv
      <3>3. \A i \in 1..Len(toClient) : toClient[i].type # "LOGIN_OK"
        BY <3>2, Lengths DEF Login, Msg, Total, LoginTypes
      <3>4. \A i \in 1..Len(toServer) : toServer[i].type # "LOGIN"
        <4>. SUFFICES ASSUME NEW i \in 1..Len(toServer) PROVE toServer[i].type # "LOGIN"
          OBVIOUS
        <4>1. i + Len(toClient) \in 1..Total /\ Msg(i + Len(toClient)) = toServer[i]
          BY Lengths DEF Msg, Total
        <4>. QED
          BY <4>1, <3>2 DEF Login, LoginTypes
      <3>5. who \in {username, Nobody}
        BY <3>1, <3>3, Lengths DEF SessionInv, Session, SetTypes, MessageInv
      <3>. QED
        BY <1>1, <3>1, <3>4, <3>5 DEF CreditInv, SubmitCredited
    <2>. QED
      BY <2>1, <2>2
  <1>. QED
    BY <1>1, <1>2, <1>3, <1>4, <1>5, FrameMessage, FrameSession

LEMMA FinishMessageStep == IInv /\ FinishMessage => IInv'
  <1>. SUFFICES ASSUME IInv, FinishMessage PROVE IInv'
    OBVIOUS
  <1>. USE DEF IInv
  <1>1. /\ UNCHANGED <<net, connected, ws, toServer, toClient, username, who,
                       hasUser, ui, shown>>
        /\ handling # <<>> /\ handling' = <<>>
        /\ state' = IF handling.type = "LOGIN_OK" THEN "LOGGED_IN" ELSE "CONNECTED"
    BY DEF FinishMessage, netVars, uiVars, serverVars
  <1>2. net # "closed" /\ net \notin {"none", "connecting"}
    BY <1>1 DEF NetInv
  <1>3. TypeOK'
    BY DEF FinishMessage, netVars, uiVars, serverVars, TypeOK, ClientStates
  <1>4. NetInv' /\ NameInv'
    BY <1>1, <1>2 DEF NetInv, NameInv, IsLoggedIn
  <1>5. StreamInv'
    BY <1>1, <1>2, FrameStream DEF NameInv, IsLoggedIn, IsQuizActive
  <1>. QED
    BY <1>1, <1>3, <1>4, <1>5, FrameMessage, FrameSession, FrameCredit

LEMMA OnOpenStep == IInv /\ OnOpen => IInv'
  <1>. SUFFICES ASSUME IInv, OnOpen PROVE IInv'
    OBVIOUS
  <1>. USE DEF IInv
  <1>1. /\ UNCHANGED <<toServer, toClient, ws, handling, username, who, hasUser,
                       ui, shown>>
        /\ net = "connecting" /\ net' = "open" /\ state' = "CONNECTED" /\ state = "DISCONNECTED"
        /\ username = Nobody /\ handling = <<>> /\ who = Nobody
        /\ ui \in {"connect", "sleep", "leave", "join", "gone"}
    BY DEF OnOpen, uiVars, serverVars, NetInv
  <1>2. TypeOK'
    BY DEF OnOpen, uiVars, serverVars, TypeOK, ClientStates
  <1>3. NetInv' /\ NameInv'
    BY <1>1 DEF NetInv, NameInv, IsLoggedIn
  <1>4. StreamInv'
    BY <1>1, FrameStream DEF IsLoggedIn, IsQuizActive
  <1>. QED
    BY <1>1, <1>2, <1>3, <1>4, FrameMessage, FrameSession, FrameCredit

(* No stream is left: what is said of it holds, and nothing else changes    *)
(* but the name.                                                            *)
LEMMA EmptyStream ==
  ASSUME toServer' = <<>>, toClient' = <<>>, who' = Nobody,
         net' = "closed" \/ username' = Nobody, ~IsLoggedIn'
  PROVE  MessageInv' /\ SessionInv' /\ StreamInv' /\ CreditInv'
  <1>1. Len(toServer') = 0 /\ Len(toClient') = 0 /\ Total' = 0
    BY DEF Total
  <1>2. MessageInv' /\ SessionInv'
    BY <1>1 DEF MessageInv, SessionInv, Session
  <1>3. StreamInv'
    BY <1>1 DEF StreamInv, NoneBetween, OneSide, Older, LoggedOutInv, MenuInv, ActiveInv,
                IsLoggedIn, IsQuizActive
  <1>4. CreditInv'
    BY <1>1 DEF CreditInv, SubmitCredited
  <1>. QED
    BY <1>2, <1>3, <1>4

LEMMA OnClosedStep == IInv /\ OnClosed => IInv'
  <1>. SUFFICES ASSUME IInv, OnClosed PROVE IInv'
    OBVIOUS
  <1>. USE DEF IInv
  <1>1. TypeOK'
    <2>1. toServer' \in Seq(Requests) /\ toClient' \in Seq(Replies)
      BY DEF OnClosed, Link!Leave
    <2>. QED
      BY <2>1 DEF OnClosed, Link!Leave, uiVars, TypeOK, ClientStates
  <1>2. NetInv' /\ NameInv'
    BY DEF OnClosed, Link!Leave, Idle, uiVars, NetInv, NameInv, IsLoggedIn
  <1>3. MessageInv' /\ SessionInv' /\ StreamInv' /\ CreditInv'
    BY EmptyStream DEF OnClosed, Link!Leave, IsLoggedIn
  <1>. QED
    BY <1>1, <1>2, <1>3

LEMMA JoinStep == IInv /\ JoinClientThread => IInv'
  <1>. SUFFICES ASSUME IInv, JoinClientThread PROVE IInv'
    OBVIOUS
  <1>. USE DEF IInv
  <1>1. net \in {"none", "closed"} /\ toServer = <<>> /\ toClient = <<>> /\ who = Nobody
        /\ handling = <<>>
    BY DEF JoinClientThread, NetInv, TypeOK
  <1>2. TypeOK'
    BY DEF JoinClientThread, Reset, netVars, serverVars, TypeOK, ClientStates, Places
  <1>3. NetInv' /\ NameInv'
    BY <1>1 DEF JoinClientThread, Reset, netVars, serverVars, NetInv, NameInv, IsLoggedIn
  <1>4. MessageInv' /\ SessionInv' /\ StreamInv' /\ CreditInv'
    BY <1>1, EmptyStream DEF JoinClientThread, Reset, netVars, serverVars, IsLoggedIn
  <1>. QED
    BY <1>2, <1>3, <1>4

-----------------------------------------------------------------------------
(* A request is sent: a LOGIN from the main menu, another from the others.  *)

Sends(m) ==
  /\ ui' = "loop" /\ shown' = Nobody /\ sends' \in 0..MaxSends
  /\ UNCHANGED <<net, connected, ws, handling, state, username, toClient, who, hasUser>>
  /\ toServer' = IF connected /\ net = "open" THEN Append(toServer, m) ELSE toServer
  /\ \/ ui = "main" /\ m.type = "LOGIN" /\ m.user \in Users
     \/ ui \in {"idle", "quiz", "answer"} /\ m.type \notin LoginTypes
  /\ m.type = "SUBMIT_ANSWER" => ui = "answer" /\ m.by = shown

LEMMA SendEffect ==
  ASSUME TypeOK, ShowMainMenu \/ ShowIdleMenu \/ (ShowQuizMenu /\ ~OpensAnswer) \/ SubmitAnswer
  PROVE  \E m \in Requests : Sends(m)
  <1>. DEFINE M(t, u) == [ type |-> t, user |-> u,
                           by |-> IF t = "SUBMIT_ANSWER" THEN shown ELSE Nobody ]
  <1>1. ASSUME NEW t, NEW u \in Users \cup {Nobody},
               t \in {"LOGIN", "START_QUIZ", "CONTINUE_QUIZ", "END_QUIZ", "FETCH_QUESTION",
                      "FETCH_UNATTEMPTED", "SUBMIT_ANSWER", "LOGOUT"},
               SendMessage(t, u),
               \/ ui = "main" /\ t = "LOGIN" /\ u \in Users
               \/ ui \in {"idle", "quiz", "answer"} /\ t # "LOGIN",
               t = "SUBMIT_ANSWER" => ui = "answer"
        PROVE  M(t, u) \in Requests /\ Sends(M(t, u))
    <2>1. M(t, u) \in Requests
      BY <1>1 DEF Requests, TypeOK
    <2>2. sends' \in 0..MaxSends
      BY <1>1, QuizClientAssumption DEF SendMessage, TypeOK
    <2>. QED
      BY <1>1, <2>1, <2>2 DEF SendMessage, Sends, UiStep, sessionVars, serverVars, LoginTypes
  <1>2. CASE ShowMainMenu
    <2>1. PICK u \in Users : ui = "main" /\ SendMessage("LOGIN", u)
      BY <1>2 DEF ShowMainMenu
    <2>. QED
      BY <1>1, <2>1
  <1>3. CASE ShowIdleMenu
    <2>1. PICK t \in {"START_QUIZ", "CONTINUE_QUIZ", "END_QUIZ", "LOGOUT"} :
            ui = "idle" /\ SendMessage(t, Nobody)
      BY <1>3 DEF ShowIdleMenu
    <2>. QED
      BY <1>1, <2>1
  <1>4. CASE ShowQuizMenu /\ ~OpensAnswer
    <2>1. PICK t \in {"FETCH_QUESTION", "FETCH_UNATTEMPTED", "END_QUIZ", "LOGOUT"} :
            ui = "quiz" /\ SendMessage(t, Nobody)
      BY <1>4 DEF ShowQuizMenu, OpensAnswer
    <2>. QED
      BY <1>1, <2>1
  <1>5. CASE SubmitAnswer
    BY <1>1, <1>5 DEF SubmitAnswer
  <1>. QED
    BY <1>2, <1>3, <1>4, <1>5

LEMMA SendStep == ASSUME IInv, NEW m \in Requests, Sends(m) PROVE IInv'
  <1>. USE DEF IInv
  <1>1. TypeOK'
    <2>1. toServer' \in Seq(Requests)
      BY DEF Sends, TypeOK
    <2>. QED
      BY <2>1 DEF Sends, TypeOK, Places
  <1>2. NetInv' /\ NameInv'
    BY DEF Sends, NetInv, NameInv, IsLoggedIn
  <1>3. CASE ~(connected /\ net = "open")
    <2>1. /\ toServer' = toServer /\ ui' = "loop"
          /\ UNCHANGED <<net, state, toClient, username, who, hasUser>>
      BY <1>3 DEF Sends
    <2>2. StreamInv'
      BY <2>1, FrameStream DEF IsLoggedIn, IsQuizActive
    <2>. QED
      BY <1>1, <1>2, <2>1, <2>2, FrameMessage, FrameSession, FrameCredit
  <1>4. CASE connected /\ net = "open"
    <2>1. /\ toServer' = Append(toServer, m) /\ ui' = "loop"
          /\ UNCHANGED <<net, connected, state, toClient, username, who, hasUser>>
      BY <1>4 DEF Sends
    <2>2. \A i \in 1..Total : Login(i)' <=> Login(i)
      BY <2>1, SendShift DEF Login
    <2>3. \A i : i = Total + 1 => (Login(i)' <=> m.type = "LOGIN")
      BY <2>1, SendShift DEF Login, LoginTypes, Requests
    <2>4. Total' = Total + 1 /\ Total \in Nat
      BY <2>1, SendShift, Lengths
    <2>5. MessageInv'
      <3>1. m.type = "LOGIN" => m.user \in Users
        BY DEF Sends, LoginTypes
      <3>2. Len(toServer') = Len(toServer) + 1 /\ Len(toServer) \in Nat
        BY <2>1, SendShift, Lengths
      <3>3. \A i \in 1..Len(toServer') :
              \/ i \in 1..Len(toServer) /\ toServer'[i] = toServer[i]
              \/ toServer'[i] = m
        BY <2>1, <3>2, SendShift
      <3>. QED
        BY <2>1, <3>1, <3>3 DEF MessageInv
    <2>6. SessionInv'
      BY <2>1, FrameSession
    <2>7. StreamInv'
      <3>1. (IsLoggedIn' <=> IsLoggedIn) /\ (IsQuizActive' <=> IsQuizActive) /\ ui' = "loop"
        BY <2>1 DEF IsLoggedIn, IsQuizActive
      <3>. HIDE DEF IsLoggedIn, IsQuizActive
      <3>2. CASE ui = "main" /\ m.type = "LOGIN"
        <4>1. NoneBetween' /\ OneSide' /\ Older' /\ LoggedOutInv'
          BY <2>1, <2>2, <2>3, <2>4, <3>1, <3>2, <1>4
             DEF StreamInv, NoneBetween, OneSide, Older, LoggedOutInv
        <4>2. MenuInv' /\ ActiveInv'
          BY <3>1, <3>2, <1>4 DEF StreamInv, MenuInv, ActiveInv
        <4>. QED
          BY <4>1, <4>2 DEF StreamInv
      <3>3. CASE ui \in {"idle", "quiz", "answer"} /\ m.type # "LOGIN"
        <4>1. /\ \A i, j \in 1..Total : i < j /\ Login(j) => Login(i)
              /\ ~IsLoggedIn => username = Nobody /\ \A i \in 1..Total : ~Login(i)
          BY <3>3, <1>4 DEF StreamInv, MenuInv
        <4>2. NoneBetween' /\ OneSide'
          BY <2>2, <2>3, <2>4, <3>3, <4>1 DEF NoneBetween, OneSide
        <4>3. Older'
          BY <2>2, <2>3, <2>4, <3>3, <4>1 DEF Older
        <4>4. LoggedOutInv'
          BY <2>1, <2>2, <2>3, <2>4, <3>1, <3>3, <4>1 DEF LoggedOutInv
        <4>5. MenuInv' /\ ActiveInv'
          BY <2>1, <2>2, <2>3, <2>4, <3>1, <3>3, <1>4 DEF StreamInv, MenuInv, ActiveInv
        <4>. QED
          BY <4>2, <4>3, <4>4, <4>5 DEF StreamInv
      <3>. QED
        BY <3>2, <3>3 DEF Sends, LoginTypes
    <2>8. CreditInv'
      BY <2>1, SendShift, Lengths DEF Sends, CreditInv, SubmitCredited, LoginTypes
    <2>. QED
      BY <1>1, <1>2, <2>5, <2>6, <2>7, <2>8
  <1>. QED
    BY <1>3, <1>4

-----------------------------------------------------------------------------
(* A reply is received. *)

Receives(m) ==
  /\ net = "open" /\ ws = "running" /\ handling = <<>>
  /\ toClient # <<>> /\ m = Head(toClient) /\ toClient' = Tail(toClient)
  /\ UNCHANGED <<net, toServer, connected, ws, ui, shown, sends, who, hasUser>>
  /\ username' = IF m.type \in SetTypes THEN m.user ELSE username
  /\ handling' = IF m.type \in SetTypes THEN m ELSE handling
  /\ state' \in ClientStates
  /\ IF m.type \in QuizTypes THEN state' \in {"QUIZ_ACTIVE", "QUIZ_ENDED"}
     ELSE state' = IF m.type = "LOGOUT_OK" THEN "DISCONNECTED" ELSE state

LEMMA ReceiveEffect == ASSUME IInv, OnMessage PROVE Receives(toClient[1])
  <1>. USE DEF IInv
  <1>. DEFINE m == Head(toClient)
  <1>1. /\ net = "open" /\ ws = "running" /\ handling = <<>> /\ toClient # <<>>
        /\ toClient' = Tail(toClient)
        /\ UNCHANGED <<net, toServer, connected, ws, ui, shown, sends, who, hasUser>>
    BY DEF OnMessage, HandleLoginResponse, HandleQuizStarted, HandleQuizResult,
           HandleLogoutResponse, HandleOther, Receive, Idle, uiVars, serverVars
  <1>2. toClient[1] = m /\ m \in Replies /\ Len(toClient) \in Nat \ {0}
    BY <1>1, TakeShift
  <1>3. m.type = "LOGOUT_OK" => m.user = Nobody
    BY <1>2 DEF MessageInv
  <1>. HIDE DEF m, IInv
  <1>4. CASE HandleLoginResponse
    BY <1>1, <1>2, <1>3, <1>4 DEF HandleLoginResponse, Receive, Receives, SetTypes, QuizTypes,
                                  m, IInv, TypeOK
  <1>5. CASE HandleQuizStarted \/ HandleQuizResult
    BY <1>1, <1>2, <1>3, <1>5 DEF HandleQuizStarted, HandleQuizResult, Receive, Receives,
                                  SetTypes, QuizTypes, m, ClientStates
  <1>6. CASE HandleLogoutResponse
    BY <1>1, <1>2, <1>3, <1>6 DEF HandleLogoutResponse, Reset, Receive, Receives, SetTypes,
                                  QuizTypes, m, ClientStates
  <1>7. CASE HandleOther
    BY <1>1, <1>2, <1>7 DEF HandleOther, Receive, Receives, SetTypes, QuizTypes, sessionVars,
                            m, IInv, TypeOK
  <1>. QED
    BY <1>4, <1>5, <1>6, <1>7 DEF OnMessage

(* The session after the rest of the replies is the one before.             *)
LEMMA SessionShift ==
  ASSUME TypeOK, Receives(toClient[1]), NEW i \in 1..Len(toClient), NEW v, Session(i, v)
  PROVE  Session(i - 1, v)'
  <1>1. /\ Len(toClient) \in Nat \ {0} /\ Len(toClient') = Len(toClient) - 1
        /\ \A k \in 1..Len(toClient') : toClient'[k] = toClient[k + 1]
    BY TakeShift DEF Receives
  <1>2. username' = IF toClient[1].type \in SetTypes THEN toClient[1].user ELSE username
    BY DEF Receives
  <1>3. CASE v = username /\ \A k \in 1..i : toClient[k].type \notin SetTypes
    <2>1. v = username'
      BY <1>1, <1>2, <1>3
    <2>2. \A k \in 1..(i - 1) : toClient'[k].type \notin SetTypes
      BY <1>1, <1>3
    <2>. QED
      BY <2>1, <2>2 DEF Session
  <1>4. ASSUME NEW k \in 1..i, toClient[k].type \in SetTypes, v = toClient[k].user,
               \A l \in (k + 1)..i : toClient[l].type \notin SetTypes
        PROVE  Session(i - 1, v)'
    <2>1. CASE k = 1
      <3>1. \A l \in 1..(i - 1) : toClient'[l].type \notin SetTypes
        BY <1>1, <1>4, <2>1
      <3>. QED
        BY <1>2, <1>4, <2>1, <3>1 DEF Session
    <2>2. CASE k # 1
      <3>1. k - 1 \in 1..(i - 1) /\ toClient'[k - 1] = toClient[k]
        BY <1>1, <2>2
      <3>2. \A l \in ((k - 1) + 1)..(i - 1) : toClient'[l].type \notin SetTypes
        BY <1>1, <1>4, <2>2
      <3>. QED
        BY <1>4, <3>1, <3>2 DEF Session
    <2>. QED
      BY <2>1, <2>2
  <1>. QED
    BY <1>3, <1>4 DEF Session

LEMMA ReceiveStep == IInv /\ OnMessage => IInv'
  <1>. SUFFICES ASSUME IInv, OnMessage PROVE IInv'
    OBVIOUS
  <1>. DEFINE m == toClient[1]
  <1>. USE DEF IInv
  <1>1. Receives(m)
    BY ReceiveEffect
  <1>2. /\ Len(toClient) \in Nat \ {0} /\ Len(toClient') = Len(toClient) - 1
        /\ \A i \in 1..Len(toClient') : toClient'[i] = toClient[i + 1]
        /\ Total \in Nat \ {0} /\ Total' = Total - 1
        /\ \A i \in 1..Total' : Msg(i)' = Msg(i + 1) /\ (Login(i)' <=> Login(i + 1))
        /\ Head(toClient) = m /\ Msg(1) = m /\ m \in Replies
    BY <1>1, TakeShift DEF Receives
  <1>3. /\ m.type = "LOGIN_OK" => m.user \in Users
        /\ m.type = "LOGOUT_OK" => m.user = Nobody
    BY <1>2 DEF MessageInv
  <1>4. m.type \in QuizTypes => username \in hasUser
    <2>. SUFFICES ASSUME m.type \in QuizTypes PROVE username \in hasUser
      OBVIOUS
    <2>1. PICK v \in hasUser : Session(1, v)
      BY <1>1, <1>2 DEF SessionInv, Receives
    <2>2. m.type \notin SetTypes
      BY DEF SetTypes, QuizTypes
    <2>. QED
      BY <2>1, <2>2 DEF Session
  <1>. HIDE DEF m
  <1>5. username \in hasUser => username # Nobody
    BY QuizClientAssumption DEF TypeOK
  <1>6. TypeOK'
    <2>1. username' \in Users \cup {Nobody} /\ (handling' = <<>> \/ handling' \in Replies)
      BY <1>1, <1>2 DEF Receives, TypeOK, Replies
    <2>2. toClient' \in Seq(Replies)
      BY <1>1 DEF Receives, TypeOK
    <2>. QED
      BY <1>1, <2>1, <2>2 DEF Receives, TypeOK
  <1>7. NetInv'
    BY <1>1 DEF Receives, NetInv
  <1>8. MessageInv'
    BY <1>1, <1>2 DEF Receives, MessageInv
  <1>9. NameInv'
    <2>1. CASE m.type \in SetTypes
      BY <1>1, <1>2, <1>3, <2>1, NotEmpty, QuizClientAssumption
         DEF Receives, NameInv, IsLoggedIn, SetTypes, QuizTypes
    <2>2. CASE m.type \notin SetTypes
      BY <1>1, <1>4, <1>5, <2>2 DEF Receives, NameInv, IsLoggedIn, SetTypes, QuizTypes
    <2>. QED
      BY <2>1, <2>2
  <1>10. SessionInv'
    <2>1. \A i \in 1..Len(toClient) : \A v : Session(i, v) => Session(i - 1, v)'
      BY <1>1, SessionShift DEF m
    <2>2. Session(Len(toClient), who) /\ who' = who /\ hasUser' = hasUser
      BY <1>1 DEF SessionInv, Receives
    <2>3. Session(Len(toClient), who)'
      <3>1. \A j, v : j = Len(toClient') /\ v = who => Session(j, v)'
        BY <1>2, <2>1, <2>2
      <3>. QED
        BY <2>2, <3>1
    <2>4. ASSUME NEW i \in 1..Len(toClient'), toClient'[i].type \in QuizTypes
          PROVE  \E v \in hasUser' : Session(i, v)'
      <3>1. i + 1 \in 1..Len(toClient) /\ (i + 1) - 1 = i /\ toClient'[i] = toClient[i + 1]
        BY <1>2
      <3>2. PICK v \in hasUser : Session(i + 1, v)
        BY <1>1, <2>4, <3>1 DEF SessionInv, Receives
      <3>3. Session(i, v)'
        BY <2>1, <3>1, <3>2
      <3>. QED
        BY <2>2, <3>3
    <2>. QED
      BY <2>3, <2>4 DEF SessionInv
  <1>11. StreamInv'
    <2>1. NoneBetween /\ OneSide /\ Older /\ LoggedOutInv /\ MenuInv /\ ActiveInv
      BY <1>1 DEF StreamInv, Receives
    <2>2. Login(1) <=> m.type \in {"LOGIN_OK", "LOGIN_FAIL"}
      BY <1>2 DEF Login, LoginTypes, Replies
    <2>3. ui' = ui /\ hasUser' = hasUser
      BY <1>1 DEF Receives
    <2>4. \A i \in 1..Total' : i + 1 \in 1..Total
      BY <1>2
    <2>5. NoneBetween' /\ OneSide'
      BY <1>2, <2>1, <2>4 DEF NoneBetween, OneSide
    <2>6. CASE m.type \in {"LOGIN_OK", "LOGIN_FAIL"}
      <3>1. Login(1)
        BY <2>2, <2>6
      <3>2. (IsLoggedIn' <=> IsLoggedIn) /\ ~IsQuizActive
        BY <1>1, <1>2, <2>1, <2>6, <3>1
           DEF Receives, QuizTypes, IsLoggedIn, ActiveInv
      <3>3. ~IsQuizActive'
        BY <1>1, <2>6, <3>2 DEF Receives, QuizTypes, IsQuizActive
      <3>. HIDE DEF IsLoggedIn, IsQuizActive
      <3>4. Older'
        BY <1>2, <2>1, <2>4, <3>1 DEF NoneBetween, Older
      <3>5. LoggedOutInv'
        BY <1>2, <2>1, <2>3, <2>4, <3>1, <3>2 DEF LoggedOutInv
      <3>6. MenuInv' /\ ActiveInv'
        BY <1>2, <2>1, <2>3, <2>4, <3>1, <3>2, <3>3 DEF MenuInv, ActiveInv
      <3>. QED
        BY <2>5, <3>4, <3>5, <3>6 DEF StreamInv
    <2>7. CASE m.type = "LOGOUT_OK"
      <3>1. ~Login(1) /\ username' = Nobody /\ ~IsLoggedIn' /\ ~IsQuizActive'
        BY <1>1, <1>3, <2>2, <2>7
           DEF Receives, SetTypes, QuizTypes, IsLoggedIn, IsQuizActive
      <3>. HIDE DEF IsLoggedIn, IsQuizActive
      <3>2. Older' /\ ActiveInv'
        BY <3>1 DEF Older, ActiveInv
      <3>3. LoggedOutInv'
        BY <1>2, <2>1, <2>4, <3>1 DEF OneSide, LoggedOutInv
      <3>4. MenuInv'
        BY <1>2, <2>1, <2>3, <2>4, <3>1 DEF MenuInv
      <3>. QED
        BY <2>5, <3>2, <3>3, <3>4 DEF StreamInv
    <2>8. CASE m.type \notin {"LOGIN_OK", "LOGIN_FAIL", "LOGOUT_OK"}
      <3>1. ~Login(1) /\ username' = username
        BY <1>1, <2>2, <2>8 DEF Receives, SetTypes
      <3>2. /\ IsLoggedIn => IsLoggedIn'
            /\ IsLoggedIn' => IsLoggedIn \/ m.type \in QuizTypes
            /\ IsQuizActive' => IsQuizActive \/ m.type \in QuizTypes
        BY <1>1, <2>8 DEF Receives, IsLoggedIn, IsQuizActive
      <3>. HIDE DEF IsLoggedIn, IsQuizActive
      <3>3. Older'
        BY <1>2, <2>1, <2>4, <3>1 DEF Older
      <3>4. LoggedOutInv'
        BY <1>2, <2>1, <2>3, <2>4, <3>1, <3>2 DEF LoggedOutInv
      <3>5. MenuInv'
        BY <1>2, <2>1, <2>3, <2>4, <3>1, <3>2 DEF MenuInv
      <3>6. ActiveInv'
        <4>1. CASE m.type \notin QuizTypes
          BY <1>2, <2>1, <2>3, <2>4, <3>1, <3>2, <4>1 DEF ActiveInv
        <4>2. CASE m.type \in QuizTypes
          <5>1. username \in hasUser /\ username # Nobody
            BY <1>4, <1>5, <4>2
          <5>2. ui # "main"
            BY <1>2, <2>1, <3>1, <5>1 DEF LoggedOutInv
          <5>3. \A j \in 1..Total : ~Login(j)
            BY <1>2, <2>1, <3>1, <5>1 DEF Older
          <5>. QED
            BY <1>2, <2>3, <2>4, <3>1, <5>1, <5>2, <5>3 DEF ActiveInv
        <4>. QED
          BY <4>1, <4>2
      <3>. QED
        BY <2>5, <3>3, <3>4, <3>5, <3>6 DEF StreamInv
    <2>. QED
      BY <2>6, <2>7, <2>8
  <1>12. CreditInv'
    BY <1>1, <1>2 DEF Receives, CreditInv, SubmitCredited
  <1>. QED
    BY <1>6, <1>7, <1>8, <1>9, <1>10, <1>11, <1>12

-----------------------------------------------------------------------------
(* The server answers the next request r with the reply m.                  *)

Serves(r, m) ==
  /\ net = "open" /\ toServer # <<>> /\ r = Head(toServer)
  /\ toServer' = Tail(toServer) /\ toClient' = Append(toClient, m)
  /\ UNCHANGED <<net, connected, ws, handling, state, username, ui, shown, sends>>
  /\ m.type \in LoginTypes <=> r.type \in LoginTypes
  /\ m.type = "LOGIN_OK" => m.user = r.user
  /\ IF m.type \in SetTypes THEN who' = m.user ELSE who' = who
  /\ m.type = "LOGOUT_OK" => m.user = Nobody
  /\ m.type \in QuizTypes => who \in hasUser'
  /\ hasUser \subseteq hasUser' /\ hasUser' \subseteq Users
  /\ m.type = "ANSWER_SUBMITTED" =>
       r.type = "SUBMIT_ANSWER" /\ m.user = who /\ m.by = r.by /\ who \in hasUser

LEMMA ServeEffect ==
  ASSUME TypeOK, Server
  PROVE  \E m \in Replies : Serves(toServer[1], m)
  <1>. DEFINE r == Head(toServer)
  <1>1. /\ toServer # <<>> /\ net = "open" /\ toServer' = Tail(toServer) /\ Serve(r)
        /\ UNCHANGED <<net, connected, ws, handling, state, username, ui, shown,
                       sends>>
    BY DEF Server, ServerStep, sessionVars, uiVars
  <1>2. r \in Requests /\ toServer[1] = r
    BY <1>1 DEF TypeOK
  <1>. HIDE DEF r
  <1>3. ASSUME NEW t \in {"LOGIN_OK", "LOGIN_FAIL", "QUIZ_STARTED", "QUIZ_RESTARTED", "QUESTION",
                          "UNATTEMPTED_QUESTIONS", "ANSWER_SUBMITTED", "QUIZ_RESULT",
                          "QUIZ_ENDED", "LOGOUT_OK", "ERROR"},
               Reply(r, t)
        PROVE  \E m \in Replies :
                 /\ toClient' = Append(toClient, m)
                 /\ m.type = t
                 /\ m.user = (IF t = "LOGIN_OK" THEN r.user
                              ELSE IF t = "ANSWER_SUBMITTED" THEN who ELSE Nobody)
                 /\ m.by = (IF t = "ANSWER_SUBMITTED" THEN r.by ELSE Nobody)
    <2>. DEFINE m == [ type |-> t,
                       user |-> IF t = "LOGIN_OK" THEN r.user
                                ELSE IF t = "ANSWER_SUBMITTED" THEN who ELSE Nobody,
                       by   |-> IF t = "ANSWER_SUBMITTED" THEN r.by ELSE Nobody ]
    <2>1. m \in Replies
      BY <1>2 DEF Requests, Replies, TypeOK
    <2>2. toClient' = Append(toClient, m)
      BY <1>3 DEF Reply
    <2>. QED
      BY <2>1, <2>2
  <1>4. CASE ServeLogin(r)
    <2>1. CASE Link!Login(r.user) /\ Reply(r, "LOGIN_OK")
      <3>1. PICK m \in Replies : /\ toClient' = Append(toClient, m)
                                 /\ m.type = "LOGIN_OK"
                                 /\ m.user = r.user
        BY <1>3, <2>1
      <3>. QED
        BY <1>1, <1>2, <1>4, <2>1, <3>1
           DEF ServeLogin, Link!Login, Serves, LoginTypes, SetTypes, QuizTypes, r, TypeOK
    <2>2. CASE Reply(r, "LOGIN_FAIL") /\ UNCHANGED serverVars
      <3>1. PICK m \in Replies : /\ toClient' = Append(toClient, m)
                                 /\ m.type = "LOGIN_FAIL"
        BY <1>3, <2>2
      <3>. QED
        BY <1>1, <1>2, <1>4, <2>2, <3>1
           DEF ServeLogin, serverVars, Serves, LoginTypes, SetTypes, QuizTypes, r, TypeOK
    <2>. QED
      BY <1>4, <2>1, <2>2 DEF ServeLogin
  <1>5. CASE ServeLogout(r)
    <2>1. PICK m \in Replies : /\ toClient' = Append(toClient, m)
                               /\ m.type = "LOGOUT_OK"
                               /\ m.user = Nobody
      BY <1>3, <1>5 DEF ServeLogout, Link!Leave
    <2>. QED
      BY <1>1, <1>2, <1>5, <2>1
         DEF ServeLogout, Link!Leave, Serves, LoginTypes, SetTypes, QuizTypes, r, TypeOK
  <1>6. CASE ServeStart(r)
    <2>1. PICK m \in Replies : /\ toClient' = Append(toClient, m)
                               /\ m.type = "QUIZ_STARTED"
      BY <1>3, <1>6 DEF ServeStart, Link!Start
    <2>. QED
      BY <1>1, <1>2, <1>6, <2>1
         DEF ServeStart, Link!Start, Serves, LoginTypes, SetTypes, QuizTypes, r, TypeOK
  <1>7. CASE ServeQuiz(r)
    <2>1. PICK t \in Answers[r.type] : Reply(r, t)
      BY <1>7 DEF ServeQuiz
    <2>2. /\ t \in {"QUIZ_RESTARTED", "QUIZ_ENDED", "QUIZ_RESULT", "QUESTION",
                    "UNATTEMPTED_QUESTIONS", "ANSWER_SUBMITTED"}
          /\ r.type \notin LoginTypes
          /\ t = "ANSWER_SUBMITTED" => r.type = "SUBMIT_ANSWER"
      BY <1>7, <2>1 DEF ServeQuiz, Answers, LoginTypes
    <2>3. PICK m \in Replies :
            /\ toClient' = Append(toClient, m)
            /\ m.type = t
            /\ t = "ANSWER_SUBMITTED" => m.user = who /\ m.by = r.by
      BY <1>3, <2>1, <2>2
    <2>. QED
      BY <1>1, <1>2, <1>7, <2>2, <2>3
         DEF ServeQuiz, Serves, LoginTypes, SetTypes, QuizTypes, r, TypeOK, serverVars
  <1>8. CASE Refuse(r)
    <2>1. PICK m \in Replies : /\ toClient' = Append(toClient, m)
                               /\ m.type = "ERROR"
      BY <1>3, <1>8 DEF Refuse
    <2>. QED
      BY <1>1, <1>2, <1>8, <2>1
         DEF Refuse, Serves, LoginTypes, SetTypes, QuizTypes, r, TypeOK, serverVars, Requests
  <1>. QED
    BY <1>1, <1>4, <1>5, <1>6, <1>7, <1>8 DEF Serve

LEMMA ServeStep == IInv /\ Server => IInv'
  <1>. SUFFICES ASSUME IInv, Server PROVE IInv'
    OBVIOUS
  <1>. DEFINE r == toServer[1]
  <1>. USE DEF IInv
  <1>1. PICK m \in Replies : Serves(r, m)
    BY ServeEffect
  <1>2. /\ Total' = Total /\ Len(toClient) + 1 \in 1..Total
        /\ \A i \in 1..Total : i # Len(toClient) + 1 => Msg(i)' = Msg(i)
        /\ \A i : i = Len(toClient) + 1 => Msg(i)' = m /\ Msg(i) = r
        /\ Len(toServer') = Len(toServer) - 1 /\ Len(toServer) \in Nat \ {0}
        /\ \A i \in 1..Len(toServer') : toServer'[i] = toServer[i + 1]
        /\ Len(toClient') = Len(toClient) + 1 /\ toClient'[Len(toClient) + 1] = m
        /\ \A i \in 1..Len(toClient) : toClient'[i] = toClient[i]
        /\ r \in Requests
    BY <1>1, ServeShift DEF Serves
  <1>3. r.type = "LOGIN" => r.user \in Users
    BY <1>2 DEF MessageInv
  <1>4. r.type = "LOGIN" <=> m.type \in LoginTypes
    BY <1>1, <1>2 DEF Serves, LoginTypes, Requests
  <1>. HIDE DEF r
  <1>5. Len(toClient) \in Nat
    BY Lengths
  <1>6. \A i \in 1..Total : Login(i)' <=> Login(i)
    BY <1>1, <1>2 DEF Login, Serves
  <1>8. TypeOK'
    <2>1. who' \in Users \cup {Nobody}
      BY <1>1 DEF Serves, Replies, TypeOK
    <2>2. toServer' \in Seq(Requests) /\ toClient' \in Seq(Replies)
      BY <1>1 DEF Serves, TypeOK
    <2>. QED
      BY <1>1, <2>1, <2>2 DEF Serves, TypeOK
  <1>9. NetInv' /\ NameInv'
    BY <1>1 DEF Serves, NetInv, NameInv, IsLoggedIn
  <1>10. MessageInv'
    <2>1. \A i \in 1..Len(toServer') : i + 1 \in 1..Len(toServer)
      BY <1>2
    <2>2. /\ m.type = "LOGIN_OK" => m.user \in Users
          /\ m.type = "LOGOUT_OK" => m.user = Nobody
      BY <1>1, <1>3, <1>4 DEF Serves, LoginTypes
    <2>3. \A i \in 1..Len(toClient') :
            (i \in 1..Len(toClient) /\ toClient'[i] = toClient[i]) \/ toClient'[i] = m
      BY <1>2, <1>5
    <2>. QED
      BY <1>2, <2>1, <2>2, <2>3 DEF MessageInv
  <1>11. SessionInv'
    <2>1. /\ username' = username /\ hasUser \subseteq hasUser' /\ net # "closed"
      BY <1>1 DEF Serves
    <2>2. ASSUME NEW i \in 0..Len(toClient), NEW v, Session(i, v) PROVE Session(i, v)'
      <3>1. \A k \in 1..i : toClient'[k] = toClient[k]
        BY <1>2, <1>5
      <3>2. CASE v = username /\ \A k \in 1..i : toClient[k].type \notin SetTypes
        BY <2>1, <3>1, <3>2 DEF Session
      <3>3. ASSUME NEW k \in 1..i, toClient[k].type \in SetTypes, v = toClient[k].user,
                   \A l \in (k + 1)..i : toClient[l].type \notin SetTypes
            PROVE  Session(i, v)'
        <4>1. \A l \in (k + 1)..i : l \in 1..i
          BY <1>5
        <4>. QED
          BY <3>1, <3>3, <4>1 DEF Session
      <3>. QED
        BY <2>2, <3>2, <3>3 DEF Session
    <2>3. ASSUME m.type \notin SetTypes, NEW i, NEW v, i = Len(toClient) + 1,
                 Session(Len(toClient), v)
          PROVE  Session(i, v)'
      <3>1. \A k \in 1..Len(toClient) : toClient'[k] = toClient[k]
        BY <1>2
      <3>2. \A k \in 1..i : k \in 1..Len(toClient) \/ (k = i /\ toClient'[k] = m)
        BY <1>2, <1>5, <2>3
      <3>3. CASE v = username /\ \A k \in 1..Len(toClient) : toClient[k].type \notin SetTypes
        BY <2>1, <2>3, <3>1, <3>2, <3>3 DEF Session
      <3>4. ASSUME NEW k \in 1..Len(toClient), toClient[k].type \in SetTypes,
                   v = toClient[k].user,
                   \A l \in (k + 1)..Len(toClient) : toClient[l].type \notin SetTypes
            PROVE  Session(i, v)'
        <4>1. k \in 1..i
          BY <1>5, <2>3
        <4>2. \A l \in (k + 1)..i :
                (l \in (k + 1)..Len(toClient) /\ l \in 1..Len(toClient))
                \/ toClient'[l] = m
          BY <1>2, <1>5, <2>3
        <4>3. \A l \in (k + 1)..i : toClient'[l].type \notin SetTypes
          BY <2>3, <3>1, <3>4, <4>2
        <4>. QED
          BY <3>1, <3>4, <4>1, <4>3 DEF Session
      <3>. QED
        BY <2>3, <3>3, <3>4 DEF Session
    <2>4. \A i, v : i = Len(toClient) + 1 /\ v = who' => Session(i, v)'
      <3>1. CASE m.type \in SetTypes
        BY <1>1, <1>2, <1>5, <3>1 DEF Serves, Session
      <3>2. CASE m.type \notin SetTypes
        BY <1>1, <2>1, <2>3, <3>2 DEF Serves, SessionInv
      <3>. QED
        BY <3>1, <3>2
    <2>5. Session(Len(toClient), who)'
      BY <1>2, <2>4
    <2>6. ASSUME NEW i \in 1..Len(toClient'), toClient'[i].type \in QuizTypes
          PROVE  \E v \in hasUser' : Session(i, v)'
      <3>1. CASE i \in 1..Len(toClient)
        <4>1. PICK v \in hasUser : Session(i, v)
          BY <1>2, <2>1, <2>6, <3>1 DEF SessionInv
        <4>. QED
          BY <2>1, <2>2, <3>1, <4>1
      <3>2. CASE i = Len(toClient) + 1
        <4>1. who' = who /\ who \in hasUser'
          BY <1>1, <1>2, <2>6, <3>2 DEF Serves, SetTypes, QuizTypes
        <4>. QED
          BY <2>4, <3>2, <4>1
      <3>. QED
        BY <1>2, <1>5, <3>1, <3>2
    <2>. QED
      BY <2>5, <2>6 DEF SessionInv
  <1>12. StreamInv'
    <2>1. /\ UNCHANGED <<state, username, ui>> /\ hasUser \subseteq hasUser'
          /\ net # "closed" /\ net' # "closed"
      BY <1>1 DEF Serves
    <2>2. (IsLoggedIn' <=> IsLoggedIn) /\ (IsQuizActive' <=> IsQuizActive)
      BY <2>1 DEF IsLoggedIn, IsQuizActive
    <2>. HIDE DEF IsLoggedIn, IsQuizActive
    <2>3. NoneBetween' /\ OneSide' /\ Older'
      BY <1>2, <1>6, <2>1 DEF StreamInv, NoneBetween, OneSide, Older
    <2>4. LoggedOutInv' /\ MenuInv' /\ ActiveInv'
      BY <1>2, <1>6, <2>1, <2>2 DEF StreamInv, LoggedOutInv, MenuInv, ActiveInv
    <2>. QED
      BY <2>3, <2>4 DEF StreamInv
  <1>13. CreditInv'
    <2>1. \A i \in 1..Len(toServer') : i + 1 \in 1..Len(toServer)
      BY <1>2
    <2>2. r.type # "LOGIN" => who' \in {who, Nobody}
      BY <1>1, <1>4 DEF Serves, LoginTypes, SetTypes
    <2>3. SubmitCredited'
      <3>1. m.type = "ANSWER_SUBMITTED" => m.user = m.by
        BY <1>1, <1>2, QuizClientAssumption DEF Serves, CreditInv, TypeOK, r
      <3>2. \A i \in 1..Len(toClient') :
              (i \in 1..Len(toClient) /\ toClient'[i] = toClient[i]) \/ toClient'[i] = m
        BY <1>2, <1>5
      <3>. QED
        BY <3>1, <3>2 DEF CreditInv, SubmitCredited
    <2>4. ASSUME NEW i \in 1..Len(toServer'), toServer'[i].type = "SUBMIT_ANSWER"
          PROVE  /\ who' \in {toServer'[i].by, Nobody}
                 /\ \A k \in 1..(i - 1) : toServer'[k].type # "LOGIN"
      <3>1. /\ toServer'[i] = toServer[i + 1] /\ who \in {toServer[i + 1].by, Nobody}
            /\ \A k \in 1..i : toServer[k].type # "LOGIN"
        BY <1>2, <2>1, <2>4 DEF CreditInv
      <3>2. r.type # "LOGIN"
        BY <1>2, <3>1 DEF r
      <3>3. ASSUME NEW k \in 1..(i - 1) PROVE toServer'[k].type # "LOGIN"
        <4>1. k \in 1..Len(toServer') /\ k + 1 \in 1..i
          BY <1>2
        <4>. QED
          BY <1>2, <3>1, <4>1
      <3>. QED
        BY <2>2, <3>1, <3>2, <3>3
    <2>5. ui' \in {"quiz", "answer"} =>
            /\ who' \in {shown', Nobody}
            /\ \A i \in 1..Len(toServer') : toServer'[i].type # "LOGIN"
      BY <1>1, <1>2, <2>1, <2>2 DEF Serves, CreditInv, r
    <2>. QED
      BY <2>3, <2>4, <2>5 DEF CreditInv
  <1>. QED
    BY <1>8, <1>9, <1>10, <1>11, <1>12, <1>13

-----------------------------------------------------------------------------
LEMMA NextIInv == IInv /\ [Next]_vars => IInv'
  <1>. SUFFICES ASSUME IInv, Next \/ UNCHANGED vars PROVE IInv'
    OBVIOUS
  <1>1. ASSUME ShowMainMenu \/ ShowIdleMenu \/ (ShowQuizMenu /\ ~OpensAnswer) \/ SubmitAnswer
        PROVE  IInv'
    BY <1>1, SendEffect, SendStep DEF IInv
  <1>. QED
    BY <1>1, QuietMainStep, QuietMenuStep, FinishMessageStep, OnOpenStep, OnClosedStep, JoinStep,
       ReceiveStep, ServeStep
       DEF Next, Menus, Main, WebSocket, Terminated, QuietMain

THEOREM Invariance == Spec => []IInv
  BY InitIInv, NextIInv, PTL DEF Spec

-----------------------------------------------------------------------------
(* The threads, the session data, the queues and the server's part keep     *)
(* their types.                                                             *)
THEOREM TypeCorrect == Spec => []TypeOK
  <1>1. IInv => TypeOK
    BY DEF IInv
  <1>. QED
    BY <1>1, Invariance, PTL

(* The menu always fits the user, however many requests were sent before    *)
(* their replies arrived.                                                   *)
THEOREM MenuFits == Spec => []MenuFitsUser
  <1>1. IInv => MenuFitsUser
    <2>1. ASSUME IInv, IsQuizActive PROVE username \in hasUser
      <3>1. net # "closed"
        BY <2>1 DEF IInv, NetInv, IsQuizActive
      <3>. QED
        BY <2>1, <3>1 DEF IInv, StreamInv, ActiveInv
    <2>. QED
      BY <2>1 DEF IInv, NameInv, MenuFitsUser
  <1>. QED
    BY <1>1, Invariance, PTL

(* Once nothing is under way, client and server agree on the session.       *)
THEOREM BothAgree == Spec => []SettledAgrees
  <1>1. IInv => SettledAgrees
    <2>. SUFFICES ASSUME IInv, Settled PROVE who = IF IsLoggedIn THEN username ELSE Nobody
      BY DEF SettledAgrees
    <2>1. Len(toClient) = 0 /\ net # "closed" /\ handling = <<>>
      BY DEF Settled
    <2>2. who = username
      BY <2>1 DEF IInv, SessionInv, Session
    <2>3. ~IsLoggedIn => username = Nobody
      BY <2>1, NotEmpty DEF IInv, NameInv
    <2>. QED
      BY <2>2, <2>3
  <1>. QED
    BY <1>1, Invariance, PTL

(* An answer is credited to the user it was typed by.                       *)
THEOREM AnswersCredited == Spec => []SubmitCredited
  <1>1. IInv => SubmitCredited
    BY DEF IInv, CreditInv
  <1>. QED
    BY <1>1, Invariance, PTL

-----------------------------------------------------------------------------
(* What of ExitCompletes is a matter of safety: once the connection the     *)
(* client leaves is closing, no request or reply delays it any more.        *)
Leaving == ui \in {"leave", "join"} /\ net \in {"closing", "closed"}

(* How many steps of the two threads are left, at most. *)
StepsLeft ==
  (IF ui = "leave" THEN 2 ELSE 1) + (IF ws = "running" THEN 1 ELSE 0)
  + (IF handling # <<>> THEN 1 ELSE 0)

(* The guards of Disconnect, JoinClientThread, OnClosed and FinishMessage.  *)
MayLeave ==
  \/ ui = "leave"
  \/ ui = "join" /\ ws # "running"
  \/ Idle /\ net \in {"connecting", "closing"}
  \/ handling # <<>>

LEMMA LeavingStep ==
  ASSUME IInv, Leaving, [Next]_vars
  PROVE  \/ ui' = "gone"
         \/ Leaving' /\ (StepsLeft' < StepsLeft \/ UNCHANGED <<ui, ws, handling>>)
  <1>1. /\ ui \in {"leave", "join"} /\ net \in {"closing", "closed"}
        /\ net \in {"closing"} <=> ws = "running"
        /\ net = "closed" => handling = <<>>
    BY DEF Leaving, IInv, NetInv
  <1>2. CASE UNCHANGED <<ui, net, ws, handling>>
    BY <1>1, <1>2 DEF Leaving
  <1>3. CASE Disconnect
    BY <1>1, <1>3 DEF Disconnect, UiStep, Leaving, StepsLeft
  <1>4. CASE JoinClientThread
    BY <1>4 DEF JoinClientThread
  <1>5. CASE OnClosed
    BY <1>1, <1>5 DEF OnClosed, uiVars, Leaving, StepsLeft
  <1>6. CASE FinishMessage
    BY <1>1, <1>6 DEF FinishMessage, netVars, uiVars, Leaving, StepsLeft
  <1>7. ~Menus /\ ~ConnectToServer /\ ~WakeUp /\ ~Loop /\ ~LoopActive /\ ~OnOpen /\ ~OnMessage
        /\ ~Server /\ ~PeerCloses
    BY <1>1 DEF Menus, ShowMainMenu, ShowIdleMenu, ShowQuizMenu, SubmitAnswer, InvalidChoice, Quit,
         ConnectToServer, WakeUp, Loop, LoopActive, OnOpen, OnMessage, HandleLoginResponse,
         HandleQuizStarted, HandleQuizResult, HandleLogoutResponse, HandleOther,
         Receive, Server, PeerCloses
  <1>8. Elsewhere \/ Terminated \/ UNCHANGED vars => UNCHANGED <<ui, net, ws, handling>>
    BY DEF Elsewhere, ServerStep, Terminated, vars, netVars, uiVars
  <1>. QED
    BY <1>2, <1>3, <1>4, <1>5, <1>6, <1>7, <1>8 DEF Next, Main, WebSocket

(* Leaving an open connection closes it; from then on each step of the two  *)
(* threads brings the exit nearer, four of them at most, and one of them    *)
(* can always be taken: the join never waits for a thread that waits.       *)
THEOREM ExitIsBounded ==
  Spec => /\ [][/\ ui = "leave" /\ net = "open" /\ ui' # ui => Leaving'
                /\ Leaving => \/ ui' = "gone"
                              \/ /\ Leaving'
                                 /\ StepsLeft' < StepsLeft \/ UNCHANGED <<ui, ws, handling>>]_vars
          /\ [](Leaving => StepsLeft \in 1..4 /\ MayLeave)
  <1>1. IInv /\ [Next]_vars
          => [/\ ui = "leave" /\ net = "open" /\ ui' # ui => Leaving'
              /\ Leaving => \/ ui' = "gone"
                            \/ /\ Leaving'
                               /\ StepsLeft' < StepsLeft \/ UNCHANGED <<ui, ws, handling>>]_vars
    <2>1. ASSUME [Next]_vars, ui = "leave", net = "open", ui' # ui PROVE Leaving'
      <3>1. CASE Disconnect
        BY <2>1, <3>1 DEF Disconnect, Leaving
      <3>2. ~Menus /\ ~ConnectToServer /\ ~WakeUp /\ ~Loop /\ ~LoopActive /\ ~JoinClientThread
        BY <2>1 DEF Menus, ShowMainMenu, ShowIdleMenu, ShowQuizMenu, SubmitAnswer, InvalidChoice,
             Quit, ConnectToServer, WakeUp, Loop, LoopActive, JoinClientThread
      <3>3. ~WebSocket
        BY <2>1 DEF WebSocket, OnOpen, OnClosed, OnMessage, FinishMessage, HandleLoginResponse,
             HandleQuizStarted, HandleQuizResult, HandleLogoutResponse, HandleOther, Receive, uiVars
      <3>4. ~Server /\ ~Elsewhere /\ ~PeerCloses /\ ~Terminated /\ ~UNCHANGED vars
        BY <2>1 DEF Server, Elsewhere, ServerStep, PeerCloses, Terminated, uiVars, vars
      <3>. QED
        BY <2>1, <3>1, <3>2, <3>3, <3>4 DEF Next, Main
    <2>. QED
      BY <2>1, LeavingStep
  <1>2. IInv => (Leaving => StepsLeft \in 1..4 /\ MayLeave)
    <2>1. ASSUME IInv, Leaving PROVE MayLeave
      BY <2>1 DEF Leaving, IInv, NetInv, MayLeave, Idle
    <2>2. StepsLeft \in 1..4
      BY DEF StepsLeft
    <2>. QED
      BY <2>1, <2>2
  <1>. QED
    BY <1>1, <1>2, Invariance, PTL DEF Spec
=============================================================================

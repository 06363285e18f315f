----------------------------- MODULE QuizClient -----------------------------
(***************************************************************************)
(* One client program and the connection it has to the server.  Two        *)
(* threads: the main thread shows a menu, blocks for input and sends a     *)
(* request, never waiting for the reply; the websocket thread turns        *)
(* replies into changes of the ClientSessionManager.  Requests and replies *)
(* travel in order (one websocket); the server answers one request of a    *)
(* connection at a time.  Of the server only its QuizLink and the choice   *)
(* of a reply are modelled here: QuizServer has its handlers step by step, *)
(* and every connection of it is a QuizLink.                               *)
(*                                                                         *)
(* The quiz data are left out, the current question among them: it decides *)
(* which id a SUBMIT_ANSWER carries, and whether the user is asked for it, *)
(* but neither whether one is sent nor what any reply does.                *)
(***************************************************************************)
EXTENDS Naturals, Sequences

CONSTANTS
  Users, Nobody,    \* user names, and the cleared current_username
  MaxSends          \* bound on the requests sent

ASSUME QuizClientAssumption ==
  Nobody \notin Users /\ MaxSends \in Nat

ClientStates == {"DISCONNECTED", "CONNECTED", "LOGGED_IN", "QUIZ_ACTIVE", "QUIZ_ENDED"}

(* user: whom a LOGIN names, LOGIN_OK welcomes or an answer is credited to. *)
(* by: history, for an answer the name the client held when it showed the   *)
(* menu the answer was typed in.                                            *)
Requests ==
  [ type : {"LOGIN", "START_QUIZ", "CONTINUE_QUIZ", "END_QUIZ", "FETCH_QUESTION",
            "FETCH_UNATTEMPTED", "SUBMIT_ANSWER", "LOGOUT"},
    user : Users \cup {Nobody},
    by   : Users \cup {Nobody} ]

Replies ==
  [ type : {"LOGIN_OK", "LOGIN_FAIL", "QUIZ_STARTED", "QUIZ_RESTARTED", "QUESTION",
            "UNATTEMPTED_QUESTIONS", "ANSWER_SUBMITTED", "QUIZ_RESULT",
            "QUIZ_ENDED", "LOGOUT_OK", "ERROR"},
    user : Users \cup {Nobody},
    by   : Users \cup {Nobody} ]

VARIABLES
  net,        \* the connection: none, connecting, open, closing or closed
  connected,  \* is_connected
  ws,         \* the websocket thread: none, running or ended
  handling,   \* the reply whose handler has a second step to do, or <<>>
  state, username,   \* of the ClientSessionManager: current_state, current_username
  ui,         \* where the main thread is
  shown,      \* history: the user name when the quiz menu was shown
  sends,      \* requests sent so far
  toServer, toClient,
  who,        \* the server's session of this connection, or Nobody
  hasUser     \* the users the server has a User for

netVars     == <<net, toServer, toClient>>
sessionVars == <<state, username>>
uiVars      == <<ui, shown, sends>>
serverVars  == <<who, hasUser>>
vars == <<netVars, connected, ws, handling, sessionVars, uiVars, serverVars>>

Places == {"connect", "sleep", "loop", "active", "main", "idle", "quiz", "answer",
           "leave", "join", "gone"}

(* The threads, the session data, the two queues and the server's part.     *)
TypeOK ==
  /\ net \in {"none", "connecting", "open", "closing", "closed"}
  /\ connected \in BOOLEAN
  /\ ws \in {"none", "running", "ended"}
  /\ handling = <<>> \/ handling \in Replies
  /\ state \in ClientStates
  /\ username \in Users \cup {Nobody}
  /\ ui \in Places
  /\ shown \in Users \cup {Nobody} /\ sends \in 0..MaxSends
  /\ toServer \in Seq(Requests) /\ toClient \in Seq(Replies)
  /\ who \in Users \cup {Nobody} /\ hasUser \subseteq Users

Init ==
  /\ net = "none" /\ connected = FALSE /\ ws = "none" /\ handling = <<>>
  /\ state = "DISCONNECTED" /\ username = Nobody
  /\ ui = "connect" /\ shown = Nobody /\ sends = 0
  /\ toServer = <<>> /\ toClient = <<>>
  /\ who = Nobody /\ hasUser = {}

(* Mutant: Reset forgets current_state. *)
ResetKeepsState == username' = Nobody /\ UNCHANGED state

Reset == state' = "DISCONNECTED" /\ username' = Nobody

(* What the server does for this connection, and the others do there. *)
Link == INSTANCE QuizLink

IsLoggedIn   == state \in {"LOGGED_IN", "QUIZ_ACTIVE", "QUIZ_ENDED"}
IsQuizActive == state = "QUIZ_ACTIVE"

-----------------------------------------------------------------------------
(* The main thread. *)

UiStep == UNCHANGED <<ws, handling, sessionVars, toClient, serverVars>>

(* Run: connect, sleep for a second, and look whether the connection is     *)
(* open.                                                                    *)
ConnectToServer ==
  /\ ui = "connect"
  /\ \/ net' = "connecting" /\ ws' = "running" /\ ui' = "sleep"
     \/ ui' = "leave" /\ UNCHANGED <<net, ws>>
  /\ UNCHANGED <<connected, handling, sessionVars, shown, sends,
                 toServer, toClient, serverVars>>

WakeUp ==
  /\ ui = "sleep"
  /\ ui' = IF connected THEN "loop" ELSE "leave"
  /\ UNCHANGED <<net, connected, shown, sends, toServer>> /\ UiStep

(* HandleUserInput: state is read twice, under its mutex each time.         *)
Loop ==
  /\ ui = "loop"
  /\ ui' = IF ~connected THEN "leave" ELSE IF IsLoggedIn THEN "active" ELSE "main"
  /\ UNCHANGED <<net, connected, shown, sends, toServer>> /\ UiStep

LoopActive ==
  /\ ui = "active"
  /\ ui' = IF IsQuizActive THEN "quiz" ELSE "idle"
  /\ shown' = IF IsQuizActive THEN username ELSE Nobody
  /\ UNCHANGED <<net, connected, sends, toServer>> /\ UiStep

(* SendMessage: a request is lost unless the connection is open.            *)
SendMessage(t, u) ==
  /\ sends < MaxSends /\ sends' = sends + 1
  /\ toServer' = IF connected /\ net = "open"
                 THEN Append(toServer,
                        [ type |-> t, user |-> u,
                          by |-> IF t = "SUBMIT_ANSWER" THEN shown ELSE Nobody ])
                 ELSE toServer
  /\ ui' = "loop" /\ shown' = Nobody
  /\ UNCHANGED <<net, connected>> /\ UiStep

ShowMainMenu ==
  ui = "main" /\ \E u \in Users : SendMessage("LOGIN", u)

ShowIdleMenu ==
  /\ ui = "idle"
  /\ \E t \in {"START_QUIZ", "CONTINUE_QUIZ", "END_QUIZ", "LOGOUT"} :
       SendMessage(t, Nobody)

(* The options of an answer, and the time taken, are typed first: the       *)
(* request is sent from a place of its own.                                 *)
ShowQuizMenu ==
  /\ ui = "quiz"
  /\ \/ \E t \in {"FETCH_QUESTION", "FETCH_UNATTEMPTED", "END_QUIZ", "LOGOUT"} :
          SendMessage(t, Nobody)
     \/ /\ ui' = "answer"
        /\ UNCHANGED <<net, connected, shown, sends, toServer>> /\ UiStep

SubmitAnswer ==
  ui = "answer" /\ SendMessage("SUBMIT_ANSWER", Nobody)

(* An invalid choice: the menu is left and chosen again.                    *)
InvalidChoice ==
  /\ ui \in {"main", "idle", "quiz"}
  /\ ui' = "loop" /\ shown' = Nobody
  /\ UNCHANGED <<net, connected, sends, toServer>> /\ UiStep

(* "Exit", or a signal while the main thread sleeps or waits for input.     *)
Quit ==
  /\ ui \in {"sleep", "main", "idle", "quiz", "answer"}
  /\ ui' = "leave" /\ shown' = Nobody
  /\ UNCHANGED <<net, connected, sends, toServer>> /\ UiStep

(* Mutant: Disconnect only clears the flags. *)
DisconnectSilently ==
  /\ ui = "leave"
  /\ connected' = FALSE
  /\ ui' = "join"
  /\ UNCHANGED <<net, shown, sends, toServer>> /\ UiStep

(* Disconnect.  close() on a connection that is not open yet is refused     *)
(* (an exception, caught) and leaves it connecting.                         *)
Disconnect ==
  /\ ui = "leave"
  /\ net' = IF net = "open" THEN "closing" ELSE net
  /\ connected' = FALSE
  /\ ui' = "join"
  /\ UNCHANGED <<shown, sends, toServer>> /\ UiStep

(* The join of client_thread, and Reset.                                    *)
JoinClientThread ==
  /\ ui = "join" /\ ws # "running"
  /\ ws' = "none" /\ ui' = "gone"
  /\ Reset
  /\ UNCHANGED <<netVars, connected, handling, shown, sends, serverVars>>

-----------------------------------------------------------------------------
(* The websocket thread. *)

Idle == ws = "running" /\ handling = <<>>

OnOpen ==
  /\ Idle /\ net = "connecting"
  /\ net' = "open" /\ connected' = TRUE /\ state' = "CONNECTED"
  /\ UNCHANGED <<toServer, toClient, ws, handling, username, uiVars, serverVars>>

(* OnFail and OnClose do the same, and ws_client.run() returns.             *)
OnClosed ==
  /\ Idle /\ net \in {"connecting", "closing"}
  /\ net' = "closed" /\ connected' = FALSE /\ state' = "DISCONNECTED"
  /\ ws' = "ended"
  /\ toServer' = <<>> /\ toClient' = <<>>
  /\ Link!Leave
  /\ UNCHANGED <<handling, username, uiVars>>

(* ProcessResponse: the next reply, one of these types, is handled.         *)
Receive(types) ==
  /\ Idle /\ net = "open" /\ toClient # <<>>
  /\ Head(toClient).type \in types
  /\ toClient' = Tail(toClient)
  /\ UNCHANGED <<net, toServer, connected, ws, uiVars, serverVars>>

HandleLoginResponse ==
  /\ Receive({"LOGIN_OK"})
  /\ username' = Head(toClient).user
  /\ handling' = Head(toClient)
  /\ UNCHANGED state

HandleQuizStarted ==
  /\ Receive({"QUIZ_STARTED", "QUIZ_RESTARTED"})
  /\ state' = "QUIZ_ACTIVE"
  /\ UNCHANGED <<username, handling>>

HandleQuizResult ==
  /\ Receive({"QUIZ_RESULT", "QUIZ_ENDED"})
  /\ state' = "QUIZ_ENDED"
  /\ UNCHANGED <<username, handling>>

HandleLogoutResponse ==
  /\ Receive({"LOGOUT_OK"})
  /\ Reset
  /\ handling' = Head(toClient)

(* Questions, grades and errors, which are displayed, and                   *)
(* UNATTEMPTED_QUESTIONS, which has no branch in ProcessResponse.           *)
HandleOther ==
  /\ Receive({"QUESTION", "ANSWER_SUBMITTED", "UNATTEMPTED_QUESTIONS", "LOGIN_FAIL",
              "ERROR"})
  /\ UNCHANGED <<sessionVars, handling>>

(* LOGIN_OK has set the name, LOGOUT_OK has reset everything: both then set *)
(* the state in a second critical section of state_mutex.                   *)
FinishMessage ==
  /\ handling # <<>>
  /\ state' = IF handling.type = "LOGIN_OK" THEN "LOGGED_IN" ELSE "CONNECTED"
  /\ handling' = <<>>
  /\ UNCHANGED <<netVars, connected, ws, username, uiVars,
                 serverVars>>

-----------------------------------------------------------------------------
(* The server's side of the connection. *)

Reply(r, t) ==
  toClient' = Append(toClient,
    [ type |-> t,
      user |-> IF t = "LOGIN_OK" THEN r.user
               ELSE IF t = "ANSWER_SUBMITTED" THEN who ELSE Nobody,
      by   |-> IF t = "ANSWER_SUBMITTED" THEN r.by ELSE Nobody ])

(* A name held by another connection, or a wrong password, is refused.      *)
ServeLogin(r) ==
  /\ r.type = "LOGIN"
  /\ \/ Link!Login(r.user) /\ Reply(r, "LOGIN_OK")
     \/ UNCHANGED serverVars /\ Reply(r, "LOGIN_FAIL")

(* Mutant: LOGOUT without RemoveSession. *)
ServeLogoutKeeps(r) ==
  /\ r.type = "LOGOUT" /\ Reply(r, "LOGOUT_OK")
  /\ UNCHANGED serverVars

(* LOGOUT asks for no session.                                              *)
ServeLogout(r) == r.type = "LOGOUT" /\ Link!Leave /\ Reply(r, "LOGOUT_OK")

ServeStart(r) == r.type = "START_QUIZ" /\ Link!Start /\ Reply(r, "QUIZ_STARTED")

(* The requests about a started quiz, and how they may be answered:         *)
(* QUIZ_ENDED when no question is unattempted.                              *)
Answers ==
  [ CONTINUE_QUIZ     |-> {"QUIZ_RESTARTED", "QUIZ_ENDED"},
    END_QUIZ          |-> {"QUIZ_RESULT"},
    FETCH_QUESTION    |-> {"QUESTION"},
    FETCH_UNATTEMPTED |-> {"UNATTEMPTED_QUESTIONS", "QUIZ_ENDED"},
    SUBMIT_ANSWER     |-> {"ANSWER_SUBMITTED"} ]

ServeQuiz(r) ==
  /\ r.type \in DOMAIN Answers
  /\ who \in hasUser
  /\ \E t \in Answers[r.type] : Reply(r, t)
  /\ UNCHANGED serverVars

(* No session, no User, the time has elapsed, an invalid question, or the   *)
(* quiz is not in progress.                                                 *)
Refuse(r) ==
  /\ r.type # "LOGIN"
  /\ Reply(r, "ERROR")
  /\ UNCHANGED serverVars

Serve(r) == ServeLogin(r) \/ ServeLogout(r) \/ ServeStart(r) \/ ServeQuiz(r) \/ Refuse(r)

ServerStep == UNCHANGED <<net, connected, ws, handling, sessionVars, uiVars>>

(* Mutant: the callbacks of one connection are not serialised. *)
ServerUnordered ==
  /\ net = "open"
  /\ \E i \in 1..Len(toServer) :
       /\ Serve(toServer[i])
       /\ toServer' = SubSeq(toServer, 1, i - 1) \o SubSeq(toServer, i + 1, Len(toServer))
  /\ ServerStep

Server ==
  /\ net = "open" /\ toServer # <<>>
  /\ Serve(Head(toServer))
  /\ toServer' = Tail(toServer)
  /\ ServerStep

(* Another connection: a user who is not logged in here starts the quiz.    *)
Elsewhere == Link!Elsewhere /\ UNCHANGED netVars /\ ServerStep

PeerCloses ==
  /\ net = "open"
  /\ net' = "closing"
  /\ UNCHANGED <<toServer, toClient, connected, ws, handling, sessionVars,
                 uiVars, serverVars>>

Terminated == ui = "gone" /\ UNCHANGED vars

-----------------------------------------------------------------------------
Menus == ShowMainMenu \/ ShowIdleMenu \/ ShowQuizMenu \/ SubmitAnswer
         \/ InvalidChoice \/ Quit
Main  == ConnectToServer \/ WakeUp \/ Loop \/ LoopActive \/ Disconnect \/ JoinClientThread
OnMessage == HandleLoginResponse \/ HandleQuizStarted \/ HandleQuizResult
             \/ HandleLogoutResponse \/ HandleOther
WebSocket == OnOpen \/ OnClosed \/ OnMessage \/ FinishMessage

Next == Menus \/ Main \/ WebSocket \/ Server \/ Elsewhere \/ PeerCloses \/ Terminated

(* Both threads are scheduled and a closing handshake ends; nobody is made  *)
(* to type, to answer or to close.                                          *)
Fairness == WF_vars(Main) /\ WF_vars(OnClosed) /\ WF_vars(FinishMessage)

Spec == Init /\ [][Next]_vars /\ Fairness

-----------------------------------------------------------------------------
(* The menu fits the user.  Those for a logged-in user are never shown      *)
(* without one: no reply still under way when the user logs out revives the *)
(* state that LOGOUT_OK cleared.  The quiz menu is offered only to a user   *)
(* who has started the quiz on the server, whatever was sent before the     *)
(* replies arrived and whoever was logged in before.                        *)
MenuFitsUser ==
  /\ IsLoggedIn => username # Nobody
  /\ IsQuizActive => username \in hasUser

(* When nothing is under way, client and server agree on whether, and as    *)
(* whom, this connection is logged in, although neither waits for the other *)
(* and menus are chosen from a state that may be out of date.               *)
Settled ==
  net = "open" /\ toServer = <<>> /\ toClient = <<>> /\ handling = <<>> /\ connected

SettledAgrees == Settled => who = (IF IsLoggedIn THEN username ELSE Nobody)

(* An answer the server accepts is credited to the user whose quiz menu it  *)
(* was typed in.                                                            *)
SubmitCredited ==
  \A i \in 1..Len(toClient) :
    toClient[i].type = "ANSWER_SUBMITTED" => toClient[i].user = toClient[i].by

(* Disconnect on an open connection returns: the websocket thread ends and  *)
(* is joined.                                                               *)
ExitCompletes == ui = "leave" /\ net = "open" ~> ui = "gone"
=============================================================================

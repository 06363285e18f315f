------------------------------ MODULE QuizLink ------------------------------
(***************************************************************************)
(* What the server does for one of its connections, and what happens to it *)
(* by the others, as far as a client can tell: who is logged in on it, and *)
(* which users have begun the quiz.  QuizServer does no more for any of    *)
(* its connections; QuizClient's server is made of these actions.          *)
(***************************************************************************)
CONSTANTS Users, Nobody

VARIABLES
  who,      \* the user logged in on this connection, or Nobody
  hasUser   \* the users who have begun the quiz

vars == <<who, hasUser>>

Init == who = Nobody /\ hasUser = {}

(* LOGIN: also by a connection that is logged in under another name.        *)
Login(u) == u # who /\ who' = u /\ UNCHANGED hasUser

(* LOGOUT, or the end of the connection. *)
Leave == who' = Nobody /\ UNCHANGED hasUser

(* START_QUIZ. *)
Start ==
  /\ who \in Users \ hasUser
  /\ hasUser' = hasUser \cup {who}
  /\ UNCHANGED who

Own == (\E u \in Users : Login(u)) \/ Leave \/ Start

(* A START_QUIZ of another connection, so not of this connection's user.    *)
Elsewhere ==
  /\ \E u \in Users \ {who} : hasUser' = hasUser \cup {u}
  /\ UNCHANGED who

Next == Own \/ Elsewhere
=============================================================================

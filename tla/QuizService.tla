----------------------------- MODULE QuizService -----------------------------
(***************************************************************************)
(* What the quiz server promises, without threads, locks or handlers: a    *)
(* user name is logged in on at most one connection, a user starts the     *)
(* quiz once, and an answer is graded at once, for the user of the         *)
(* connection it came from, replacing that user's earlier grade of the     *)
(* question.  QuizServer implements it.                                    *)
(***************************************************************************)
EXTENDS Grading

CONSTANTS Conns, Users, Nobody, RawSelections

VARIABLES
  who,      \* who[c]: the user logged in on connection c, or Nobody
  started,  \* the users who have started the quiz
  grades,   \* grades[u][q]: the status of u's last answer to q, or "NONE"
  score     \* score[u]: the rewards of grades[u]

vars == <<who, started, grades, score>>

Points(g) == ScoreOf([tracker |-> g])

Init ==
  /\ who = [c \in Conns |-> Nobody]
  /\ started = {}
  /\ grades = [u \in Users |-> [q \in Questions |-> "NONE"]]
  /\ score = [u \in Users |-> 0]

Login(c, u) ==
  /\ \A d \in Conns : who[d] # u
  /\ who' = [who EXCEPT ![c] = u]
  /\ UNCHANGED <<started, grades, score>>

Leave(c) ==
  /\ who' = [who EXCEPT ![c] = Nobody]
  /\ UNCHANGED <<started, grades, score>>

Start(c) ==
  /\ who[c] \in Users \ started
  /\ started' = started \cup {who[c]}
  /\ UNCHANGED <<who, grades, score>>

Answer(c, q, sel) ==
  /\ who[c] \in started
  /\ grades' = [grades EXCEPT ![who[c]][q] = Grade(q, sel)]
  /\ score' = [score EXCEPT ![who[c]] = Points(grades'[who[c]])]
  /\ UNCHANGED <<who, started>>

Next ==
  \E c \in Conns :
    \/ \E u \in Users : Login(c, u)
    \/ Leave(c)
    \/ Start(c)
    \/ \E q \in Questions, raw \in RawSelections : Answer(c, q, SelectedOps(raw))

Spec == Init /\ [][Next]_vars
=============================================================================

------------------------------ MODULE Grading ------------------------------
(***************************************************************************)
(* Pure operators of the grading code: QuizHelper::ValidateUserAnswer,     *)
(* Answer::SetSelectedOp and the Result class (score, tracker_map,         *)
(* attempt_map).  A Result is a record; AddAnswer returns the new record.  *)
(* Scores are doubles in the code; the configured rewards are small        *)
(* multiples of 0.25, on which double arithmetic is exact, so the model    *)
(* counts them in integer units.                                           *)
(***************************************************************************)
EXTENDS Integers, FiniteSets

CONSTANTS
  NumQuestions,      \* QuestionBank::TotalQuestionCount(), the ids are 1..N
  Correct,           \* Correct[q]: the option indices marked correct in q
  CorrectReward,     \* QuizConfig::GetCorrectAnsReward()
  IncorrectPenalty,  \* QuizConfig::GetIncorrectAnsPenalty(), <= 0 as shipped
  PartialReward      \* QuizConfig::GetPartialAnsReward()

Questions == 1..NumQuestions
Options   == 0..3

ASSUME GradingAssumption ==
  /\ NumQuestions \in Nat
  /\ Correct \in [Questions -> SUBSET Options]
  /\ CorrectReward \in Int
  /\ IncorrectPenalty \in Int
  /\ PartialReward \in Int

(* eQuesAttemptStatus, and "NONE" for a question with no tracker_map entry. *)
Attempted == {"CORRECT", "INCORRECT", "PARTIALLY_CORRECT"}
Status    == Attempted \cup {"UNATTEMPTED"}

-----------------------------------------------------------------------------
(* Answer::SetSelectedOp: an index outside the array is refused (and the    *)
(* caller ignores the refusal), so only 0..3 reach the answer.              *)
SelectedOps(raw) == raw \cap Options

(* ValidateUserAnswer.  Only the correct options are looked at.  Its early  *)
(* return of UNATTEMPTED for "No answer selected", selected_ans.empty(), is *)
(* absent because std::array<bool,4> is never empty(): a blank selection is *)
(* graded INCORRECT.                                                        *)
Grade(q, sel) ==
  LET hasCorrect   == \E o \in Correct[q] : o \in sel
      hasIncorrect == \E o \in Correct[q] : o \notin sel
  IN  IF hasCorrect /\ hasIncorrect THEN "PARTIALLY_CORRECT"
      ELSE IF hasCorrect THEN "CORRECT"
      ELSE "INCORRECT"

Reward(st) ==
  IF st = "CORRECT" THEN CorrectReward
  ELSE IF st = "INCORRECT" THEN IncorrectPenalty
  ELSE IF st = "PARTIALLY_CORRECT" THEN PartialReward
  ELSE 0

(* The type of a Result: tracker_map, attempt_map ({} when it has no entry, *)
(* see HasAttempt) and vCurrScore.                                          *)
Results ==
  [ tracker : [Questions -> Status \cup {"NONE"}],
    attempt : [Questions -> SUBSET Options],
    score   : Int ]

EmptyResult ==
  [ tracker |-> [q \in Questions |-> "NONE"],
    attempt |-> [q \in Questions |-> {}],
    score   |-> 0 ]

HasAttempt(res, q) == res.tracker[q] \in Attempted

(* Deliberately wrong variants of AddAnswer, for the mutation entries. *)
AddAnswerNoRevert(res, q, sel) ==
  LET st == Grade(q, sel)
  IN  [ tracker |-> [res.tracker EXCEPT ![q] = st],
        attempt |-> [res.attempt EXCEPT ![q] = sel],
        score   |-> res.score + Reward(st) ]

AddAnswerStatusFirst(res, q, sel) ==
  LET st == Grade(q, sel)
  IN  [ tracker |-> [res.tracker EXCEPT ![q] = st],
        attempt |-> IF res.tracker[q] = "NONE"
                    THEN [res.attempt EXCEPT ![q] = sel] ELSE res.attempt,
        score   |-> res.score + Reward(st) - Reward(res.tracker[q]) ]

AddAnswerFirstWins(res, q, sel) ==
  LET st == Grade(q, sel)
  IN  IF res.tracker[q] # "NONE" THEN res
      ELSE [ tracker |-> [res.tracker EXCEPT ![q] = st],
             attempt |-> [res.attempt EXCEPT ![q] = sel],
             score   |-> res.score + Reward(st) ]

(* Result::AddAnswer.  A submission with the status already recorded        *)
(* returns early and leaves everything, attempt_map included, as it was.    *)
AddAnswer(res, q, sel) ==
  LET st == Grade(q, sel)
  IN  IF res.tracker[q] = st THEN res
      ELSE [ tracker |-> [res.tracker EXCEPT ![q] = st],
             attempt |-> IF st # "UNATTEMPTED"
                         THEN [res.attempt EXCEPT ![q] = sel]
                         ELSE res.attempt,
             score   |-> res.score - Reward(res.tracker[q]) + Reward(st) ]

(* Result::GetUnattemptedQuestionIds, as a set: the code lists it in order. *)
Unattempted(res) ==
  {q \in Questions : res.tracker[q] \in {"NONE", "UNATTEMPTED"}}

Count(res, st) == Cardinality({q \in Questions : res.tracker[q] = st})

(* What the score ought to be: the rewards of the recorded statuses. *)
ScoreOf(res) ==
  CorrectReward      * Count(res, "CORRECT")
  + IncorrectPenalty * Count(res, "INCORRECT")
  + PartialReward    * Count(res, "PARTIALLY_CORRECT")
=============================================================================

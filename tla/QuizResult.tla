---------------------------- MODULE QuizResult ----------------------------
(***************************************************************************)
(* One User's Result, driven by the submissions that reach                 *)
(* User::SetAndValidateUserAnswer in any order: first answers, corrections *)
(* and repetitions.  lastSel is a history variable: what was selected in   *)
(* the last submission of each question.                                   *)
(***************************************************************************)
EXTENDS Grading

CONSTANT RawSelections  \* the sets of option indices a request may carry

ASSUME RawSelectionsAssumption == RawSelections \subseteq SUBSET Int

VARIABLES result, answered, lastSel
vars == <<result, answered, lastSel>>

(* The Result record, its two maps keyed by question id, has its type. *)
TypeOK ==
  /\ result \in Results
  /\ answered \subseteq Questions
  /\ lastSel \in [Questions -> SUBSET Options]

Init ==
  /\ result = EmptyResult
  /\ answered = {}
  /\ lastSel = [q \in Questions |-> {}]

(* User::SetAndValidateUserAnswer on an Answer filled by SetSelectedOp. *)
Submit(q, raw) ==
  LET sel == SelectedOps(raw)
  IN  /\ result' = AddAnswer(result, q, sel)
      /\ answered' = answered \cup {q}
      /\ lastSel' = [lastSel EXCEPT ![q] = sel]

Next == \E q \in Questions, raw \in RawSelections : Submit(q, raw)

Spec == Init /\ [][Next]_vars

-----------------------------------------------------------------------------
(* The score is the sum of the rewards of the recorded statuses: reverting  *)
(* the previous status and applying the new one (Result::AddAnswer) never   *)
(* counts a question twice, loses one or keeps a stale reward.              *)
ScoreIsSumOfStatuses == result.score = ScoreOf(result)

(* The status of a question depends on its last submission only: it is the  *)
(* grade of what was selected last, whatever was submitted before, although *)
(* repeated statuses are skipped, and a question nobody has answered has    *)
(* none.  Blank submissions are left out of the claim: the sources call     *)
(* them UNATTEMPTED (Answer.h, and the first return of ValidateUserAnswer), *)
(* and the code grades them INCORRECT.                                      *)
StatusIsGradeOfLast ==
  \A q \in Questions :
    /\ q \notin answered => result.tracker[q] = "NONE"
    /\ q \in answered /\ lastSel[q] # {} => result.tracker[q] = Grade(q, lastSel[q])

(* attempt_map and tracker_map agree: the stored answer of a question still *)
(* earns the status recorded for it.                                        *)
StoredAnswerEarnsStatus ==
  \A q \in Questions :
    HasAttempt(result, q) => Grade(q, result.attempt[q]) = result.tracker[q]

(* A question never becomes unattempted again, so the list that             *)
(* CONTINUE_QUIZ and FETCH_UNATTEMPTED send only shrinks.                   *)
UnattemptedShrinks == [][Unattempted(result') \subseteq Unattempted(result)]_vars
=============================================================================

------------------------- MODULE QuizResultProofs -------------------------
(***************************************************************************)
(* Proofs about QuizResult, for every number of questions, answer key,     *)
(* reward scheme and set of submitted selections.                          *)
(***************************************************************************)
EXTENDS QuizResult, GradingProofs

(* The inductive invariant.  A submission with the status already recorded  *)
(* leaves the result alone, so the status invariant is what shows that the  *)
(* recorded status is right after such a submission too.                    *)
IInv ==
  /\ TypeOK
  /\ StatusIsGradeOfLast
  /\ StoredAnswerEarnsStatus
  /\ ScoreIsSumOfStatuses

LEMMA InitIInv == Init => IInv
  <1>. SUFFICES ASSUME Init PROVE IInv
    OBVIOUS
  <1>1. TypeOK
    BY EmptyResultFacts DEF Init, TypeOK
  <1>2. StatusIsGradeOfLast
    BY DEF Init, StatusIsGradeOfLast, EmptyResult
  <1>3. StoredAnswerEarnsStatus
    BY DEF Init, StoredAnswerEarnsStatus, EmptyResult, HasAttempt, Attempted
  <1>4. ScoreIsSumOfStatuses
    BY EmptyResultFacts DEF Init, ScoreIsSumOfStatuses
  <1>. QED
    BY <1>1, <1>2, <1>3, <1>4 DEF IInv

LEMMA SubmitIInv ==
  ASSUME IInv, NEW q \in Questions, NEW raw \in RawSelections, Submit(q, raw)
  PROVE  IInv'
  <1> DEFINE sel == SelectedOps(raw)
  <1>1. sel \in SUBSET Options
    BY SelectedType
  <1>2. result \in Results /\ result' = AddAnswer(result, q, sel)
    BY DEF IInv, TypeOK, Submit
  <1>3. result'.tracker = [result.tracker EXCEPT ![q] = Grade(q, sel)]
    BY <1>2, AddAnswerTracker
  <1>4. result.tracker \in [Questions -> Status \cup {"NONE"}]
    BY <1>2 DEF Results
  <1>5. lastSel \in [Questions -> SUBSET Options] /\ lastSel' = [lastSel EXCEPT ![q] = sel]
    BY DEF IInv, TypeOK, Submit
  <1>. HIDE DEF sel
  <1>6. TypeOK'
    BY <1>1, <1>2, <1>5, AddAnswerType DEF IInv, TypeOK, Submit
  <1>7. StatusIsGradeOfLast'
    BY <1>3, <1>4, <1>5 DEF IInv, StatusIsGradeOfLast, Submit
  <1>8. StoredAnswerEarnsStatus'
    <2>. SUFFICES ASSUME NEW p \in Questions, HasAttempt(result', p)
                  PROVE  Grade(p, result'.attempt[p]) = result'.tracker[p]
      BY DEF StoredAnswerEarnsStatus
    <2>1. result'.attempt[p] = IF p = q /\ result.tracker[q] # Grade(q, sel)
                               THEN sel ELSE result.attempt[p]
      BY <1>1, <1>2, AddAnswerType
    <2>2. Grade(q, sel) \in Attempted
      BY GradeType
    <2>. QED
      BY <1>3, <1>4, <2>1, <2>2 DEF IInv, StoredAnswerEarnsStatus, HasAttempt
  <1>9. ScoreIsSumOfStatuses'
    BY <1>1, <1>2, AddAnswerScore DEF IInv, ScoreIsSumOfStatuses
  <1>. QED
    BY <1>6, <1>7, <1>8, <1>9 DEF IInv

LEMMA NextIInv == IInv /\ [Next]_vars => IInv'
  <1>1. ASSUME IInv, Next PROVE IInv'
    BY <1>1, SubmitIInv DEF Next
  <1>2. ASSUME IInv, UNCHANGED vars PROVE IInv'
    BY <1>2 DEF IInv, vars, TypeOK, StatusIsGradeOfLast,
                StoredAnswerEarnsStatus, ScoreIsSumOfStatuses
  <1>. QED
    BY <1>1, <1>2

THEOREM Invariance == Spec => []IInv
  BY InitIInv, NextIInv, PTL DEF Spec

(* The Result object keeps its type, whatever is submitted in what order.  *)
THEOREM TypeCorrect == Spec => []TypeOK
  <1>1. IInv => TypeOK
    BY DEF IInv
  <1>. QED
    BY <1>1, Invariance, PTL

(* Result::vCurrScore is always the sum of the rewards of the recorded     *)
(* statuses, for every reward scheme and every history of corrections.     *)
THEOREM ScoreCorrect == Spec => []ScoreIsSumOfStatuses
  <1>1. IInv => ScoreIsSumOfStatuses
    BY DEF IInv
  <1>. QED
    BY <1>1, Invariance, PTL

(* The recorded status is the grade of the last submission of a question,  *)
(* unless that submission was blank.                                       *)
THEOREM LastSubmissionGraded == Spec => []StatusIsGradeOfLast
  <1>1. IInv => StatusIsGradeOfLast
    BY DEF IInv
  <1>. QED
    BY <1>1, Invariance, PTL

(* attempt_map and tracker_map agree on every attempted question.          *)
THEOREM AttemptMatchesStatus == Spec => []StoredAnswerEarnsStatus
  <1>1. IInv => StoredAnswerEarnsStatus
    BY DEF IInv
  <1>. QED
    BY <1>1, Invariance, PTL

(* The list of unattempted questions only shrinks.                         *)
THEOREM UnattemptedMonotone == Spec => UnattemptedShrinks
  <1>1. IInv /\ Next => Unattempted(result') \subseteq Unattempted(result)
    <2>. SUFFICES ASSUME IInv, NEW q \in Questions, NEW raw \in RawSelections,
                         Submit(q, raw)
                  PROVE  Unattempted(result') \subseteq Unattempted(result)
      BY DEF Next
    <2>1. result \in Results
      BY DEF IInv, TypeOK
    <2>2. result'.tracker = [result.tracker EXCEPT ![q] = Grade(q, SelectedOps(raw))]
      BY <2>1, AddAnswerTracker DEF Submit
    <2>3. result.tracker \in [Questions -> Status \cup {"NONE"}]
      BY <2>1 DEF Results
    <2>4. Grade(q, SelectedOps(raw)) \in Attempted
      BY GradeType
    <2>. QED
      BY <2>2, <2>3, <2>4 DEF Unattempted, Attempted
  <1>2. IInv /\ [Next]_vars
          => [Unattempted(result') \subseteq Unattempted(result)]_vars
    BY <1>1
  <1>. QED
    BY <1>2, Invariance, PTL DEF Spec, UnattemptedShrinks
=============================================================================

--------------------------- MODULE GradingProofs ---------------------------
(***************************************************************************)
(* What the operators of Grading preserve, for every number of questions,  *)
(* answer key and reward scheme.  The proofs about the modules that grade  *)
(* answers rest on these lemmas.                                           *)
(***************************************************************************)
EXTENDS Grading, FiniteSetTheorems, TLAPS

(* The questions whose entry in a status map f is s. *)
Having(f, s) == {p \in Questions : f[p] = s}

(* Grading always yields one of the three attempted statuses: the code      *)
(* never reaches UNATTEMPTED.                                               *)
LEMMA GradeType == \A q, sel : Grade(q, sel) \in Attempted
  BY DEF Grade, Attempted

LEMMA QuestionsFinite == IsFiniteSet(Questions)
  BY FS_Interval, GradingAssumption DEF Questions

LEMMA HavingFinite ==
  ASSUME NEW f, NEW s
  PROVE  /\ IsFiniteSet(Having(f, s))
         /\ Cardinality(Having(f, s)) \in Nat
  <1>1. Having(f, s) \subseteq Questions
    BY DEF Having
  <1>2. IsFiniteSet(Having(f, s))
    BY <1>1, QuestionsFinite, FS_Subset
  <1>. QED
    BY <1>2, FS_CardinalityType

(* What replacing the status old by st changes in the count of s. *)
Delta(old, st, s) == (IF s = st THEN 1 ELSE 0) - (IF s = old THEN 1 ELSE 0)

(* Changing one entry of a status map moves one question between two       *)
(* counts and leaves the others alone.                                      *)
LEMMA CountUpdate ==
  ASSUME NEW f \in [Questions -> Status \cup {"NONE"}], NEW q \in Questions,
         NEW st \in Status \cup {"NONE"}, NEW s, st # f[q]
  PROVE  Cardinality(Having([f EXCEPT ![q] = st], s))
           = Cardinality(Having(f, s)) + Delta(f[q], st, s)
  <1>. USE DEF Delta
  <1> DEFINE g == [f EXCEPT ![q] = st]
  <1>1. CASE s = st
    <2>1. Having(g, s) = Having(f, s) \cup {q}
      BY <1>1 DEF Having
    <2>2. q \notin Having(f, s)
      BY <1>1 DEF Having
    <2>3. Cardinality(Having(g, s)) = Cardinality(Having(f, s)) + 1
      BY <2>1, <2>2, HavingFinite, FS_AddElement
    <2>. QED
      BY <1>1, <2>3, HavingFinite
  <1>2. CASE s = f[q]
    <2>1. Having(g, s) = Having(f, s) \ {q}
      BY <1>2 DEF Having
    <2>2. q \in Having(f, s)
      BY <1>2 DEF Having
    <2>3. Cardinality(Having(g, s)) = Cardinality(Having(f, s)) - 1
      BY <2>1, <2>2, HavingFinite, FS_RemoveElement
    <2>. QED
      BY <1>2, <2>3, HavingFinite
  <1>3. CASE s # st /\ s # f[q]
    <2>1. Having(g, s) = Having(f, s)
      BY <1>3 DEF Having
    <2>. QED
      BY <1>3, <2>1, HavingFinite
  <1>. QED
    BY <1>1, <1>2, <1>3

LEMMA RewardType == \A st : Reward(st) \in Int
  BY GradingAssumption DEF Reward

(* The one fact of integer arithmetic the score needs. *)
LEMMA Distribute ==
  \A a, b, c \in Int : a * (b + c) = a * b + a * c
  OBVIOUS

(* A selection that passed SetSelectedOp is a set of option indices. *)
LEMMA SelectedType == \A raw : SelectedOps(raw) \subseteq Options
  BY DEF SelectedOps

(* What AddAnswer leaves in tracker_map, whether or not it returns early. *)
LEMMA AddAnswerTracker ==
  ASSUME NEW r \in Results, NEW q \in Questions, NEW sel
  PROVE  AddAnswer(r, q, sel).tracker = [r.tracker EXCEPT ![q] = Grade(q, sel)]
  BY DEF AddAnswer, Results

(* AddAnswer keeps the type, and when it stores the answer. *)
LEMMA AddAnswerType ==
  ASSUME NEW r \in Results, NEW q \in Questions, NEW sel \in SUBSET Options
  PROVE  /\ AddAnswer(r, q, sel) \in Results
         /\ \A p \in Questions :
              AddAnswer(r, q, sel).attempt[p]
                = IF p = q /\ r.tracker[q] # Grade(q, sel)
                  THEN sel ELSE r.attempt[p]
  <1>1. Grade(q, sel) \in Attempted
    BY GradeType
  <1>2. Grade(q, sel) \in Status \cup {"NONE"} /\ Grade(q, sel) # "UNATTEMPTED"
    BY <1>1 DEF Status, Attempted
  <1>3. CASE r.tracker[q] = Grade(q, sel)
    BY <1>2, <1>3 DEF AddAnswer, Results
  <1>4. CASE r.tracker[q] # Grade(q, sel)
    BY <1>2, <1>4, RewardType DEF AddAnswer, Results
  <1>. QED
    BY <1>3, <1>4

(* Reverting the old reward and applying the new one keeps the score equal *)
(* to the sum of the rewards of the statuses.                              *)
LEMMA AddAnswerScore ==
  ASSUME NEW r \in Results, NEW q \in Questions, NEW sel \in SUBSET Options,
         r.score = ScoreOf(r)
  PROVE  AddAnswer(r, q, sel).score = ScoreOf(AddAnswer(r, q, sel))
  <1> DEFINE st  == Grade(q, sel)
             old == r.tracker[q]
             new == AddAnswer(r, q, sel)
             n(s) == Count(r, s)
             d(s) == Delta(old, st, s)
  <1>1. CASE old = st
    BY <1>1 DEF AddAnswer
  <1>2. CASE old # st
    <2>1. st \in Attempted /\ st \in Status \cup {"NONE"}
      BY GradeType DEF Status
    <2>2. r.tracker \in [Questions -> Status \cup {"NONE"}]
      BY DEF Results
    <2>3. new.tracker = [r.tracker EXCEPT ![q] = st]
      BY AddAnswerTracker
    <2>4. \A s : n(s) \in Nat
      BY HavingFinite DEF Count, Having
    <2>5. \A s : Count(new, s) = n(s) + d(s)
      <3>. TAKE s
      <3>1. Cardinality(Having([r.tracker EXCEPT ![q] = st], s))
              = Cardinality(Having(r.tracker, s)) + d(s)
        BY <1>2, <2>1, <2>2, CountUpdate
      <3>2. /\ Count(new, s) = Cardinality(Having([r.tracker EXCEPT ![q] = st], s))
            /\ n(s) = Cardinality(Having(r.tracker, s))
        BY <2>3 DEF Count, Having
      <3>. QED
        BY <3>1, <3>2, <2>4
    <2>6. new.score = r.score - Reward(old) + Reward(st)
      BY <1>2 DEF AddAnswer
    <2>7. \A s : d(s) \in Int
      BY DEF Delta
    <2>. HIDE DEF n, d, new, st, old
    <2>8. /\ CorrectReward * (n("CORRECT") + d("CORRECT"))
              = CorrectReward * n("CORRECT") + CorrectReward * d("CORRECT")
          /\ IncorrectPenalty * (n("INCORRECT") + d("INCORRECT"))
              = IncorrectPenalty * n("INCORRECT") + IncorrectPenalty * d("INCORRECT")
          /\ PartialReward * (n("PARTIALLY_CORRECT") + d("PARTIALLY_CORRECT"))
              = PartialReward * n("PARTIALLY_CORRECT")
                + PartialReward * d("PARTIALLY_CORRECT")
      BY <2>4, <2>7, Distribute, GradingAssumption
    <2>9. CorrectReward * d("CORRECT") + IncorrectPenalty * d("INCORRECT")
            + PartialReward * d("PARTIALLY_CORRECT") = Reward(st) - Reward(old)
      BY <1>2, <2>1, GradingAssumption DEF Reward, Attempted, Delta, d
    <2>10. /\ CorrectReward * n("CORRECT") \in Int
          /\ IncorrectPenalty * n("INCORRECT") \in Int
          /\ PartialReward * n("PARTIALLY_CORRECT") \in Int
          /\ CorrectReward * d("CORRECT") \in Int
          /\ IncorrectPenalty * d("INCORRECT") \in Int
          /\ PartialReward * d("PARTIALLY_CORRECT") \in Int
      BY <2>4, <2>7, GradingAssumption
    <2>11. r.score = CorrectReward * n("CORRECT") + IncorrectPenalty * n("INCORRECT")
                     + PartialReward * n("PARTIALLY_CORRECT")
      BY DEF ScoreOf, n
    <2>12. ScoreOf(new)
             = CorrectReward * (n("CORRECT") + d("CORRECT"))
               + IncorrectPenalty * (n("INCORRECT") + d("INCORRECT"))
               + PartialReward * (n("PARTIALLY_CORRECT") + d("PARTIALLY_CORRECT"))
      BY <2>5 DEF ScoreOf
    <2>13. new.score = ScoreOf(new)
      BY <2>6, <2>8, <2>9, <2>10, <2>11, <2>12, RewardType
    <2>. QED
      BY <2>13 DEF new
  <1>. QED
    BY <1>1, <1>2

(* An empty Result is a Result, and its score is the sum of no rewards.    *)
LEMMA EmptyResultFacts ==
  /\ EmptyResult \in Results
  /\ EmptyResult.score = ScoreOf(EmptyResult)
  <1>1. EmptyResult \in Results
    BY DEF EmptyResult, Results
  <1>2. \A s \in Attempted : Count(EmptyResult, s) = 0
    <2>. TAKE s \in Attempted
    <2>1. {q \in Questions : EmptyResult.tracker[q] = s} = {}
      BY DEF EmptyResult, Attempted
    <2>. QED
      BY <2>1, FS_EmptySet DEF Count
  <1>3. EmptyResult.score = 0
    BY DEF EmptyResult
  <1>. QED
    BY <1>1, <1>2, <1>3, GradingAssumption DEF ScoreOf, Attempted
=============================================================================

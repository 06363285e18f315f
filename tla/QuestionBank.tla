---------------------------- MODULE QuestionBank ----------------------------
(***************************************************************************)
(* QuestionBank: the map from ids to questions that everybody reads.       *)
(*                                                                         *)
(* The map holds shared_ptrs, and GetQuestionById hands out copies, so a   *)
(* question is an object with an identity here: the bank may replace or    *)
(* drop one only while use_count() says that nobody else has it.  Every    *)
(* operation is one critical section of the bank's mutex and one action.   *)
(* An operation that returns false leaves the bank as it is; where that is *)
(* the only effect the action is simply not enabled.                       *)
(***************************************************************************)
EXTENDS Integers, FiniteSets

CONSTANTS
  Objs,     \* the Question objects there is memory for (a bound)
  NoObj,    \* the null shared_ptr
  Readers   \* those who may hold a question that GetQuestionById gave them

ASSUME QuestionBankAssumption == IsFiniteSet(Objs) /\ NoObj \notin Objs

VARIABLES
  quesmap,     \* quesmap: a function from the ids in use to Objs
  questionID,  \* Question::questionID of each object
  correct,     \* Question::correctOptions of each object
  held,        \* the question each reader holds, or NoObj
  orphans,     \* history: questions that were held when the bank was reset
  removed      \* history: has a question been taken out of the bank?

bankVars == <<quesmap, questionID, correct, held, orphans, removed>>

Ids == DOMAIN quesmap
Keep(map, ids) == [i \in ids |-> map[i]]
Put(map, i, o) == [j \in DOMAIN map \cup {i} |-> IF j = i THEN o ELSE map[j]]

(* The map, the objects and their holders have their types.                 *)
BankTypeOK ==
  /\ IsFiniteSet(Ids) /\ Ids \subseteq Nat \ {0}
  /\ quesmap \in [Ids -> Objs]
  /\ questionID \in [Objs -> Nat]
  /\ correct \in [Objs -> SUBSET Int]
  /\ held \in [Readers -> Objs \cup {NoObj}]
  /\ orphans \subseteq Objs
  /\ removed \in BOOLEAN

(* Memory that holds no question is cleared here, for want of a value.      *)
BankInit ==
  /\ quesmap = [i \in {} |-> NoObj]
  /\ questionID = [o \in Objs |-> 0]
  /\ correct = [o \in Objs |-> {}]
  /\ held = [r \in Readers |-> NoObj]
  /\ orphans = {}
  /\ removed = FALSE

-----------------------------------------------------------------------------
Held == {held[r] : r \in Readers}
InBank == {quesmap[i] : i \in Ids}

Fresh(o) == o \in Objs \ (Held \cup InBank)

(* The destructor of the questions in dead. *)
Destroy(dead) ==
  /\ correct' = [o \in Objs |-> IF o \in dead THEN {} ELSE correct[o]]
  /\ questionID' = [o \in Objs |-> IF o \in dead THEN 0 ELSE questionID[o]]

(* Mutant: every holder but the bank is forgotten. *)
NoOtherHolderUncounted(o) == o \in Objs

(* use_count () == 1 *)
NoOtherHolder(o) == o \notin Held

TotalQuestionCount == Cardinality(Ids)

NewId == TotalQuestionCount + 1

(* The key of the question that is stored under an id; none, none.          *)
GetCorrectOptionsById(id) == IF id \in Ids THEN correct[quesmap[id]] ELSE {}

(* The id is the size of the map plus one; emplace inserts nothing when it  *)
(* is taken, and the new question is lost.                                  *)
AddQuestionToBank(o, key) ==
  /\ Fresh(o)
  /\ IF NewId \in Ids THEN UNCHANGED <<quesmap, questionID, correct>>
     ELSE /\ quesmap' = Put(quesmap, NewId, o)
          /\ questionID' = [questionID EXCEPT ![o] = NewId]
          /\ correct' = [correct EXCEPT ![o] = key]
  /\ UNCHANGED <<held, orphans, removed>>

(* The old question dies with the bank's shared_ptr. *)
UpdateQuestionById(id, o, key) ==
  LET old == quesmap[id]
  IN  /\ Fresh(o) /\ id \in Ids /\ NoOtherHolder(old)
      /\ quesmap' = Put(quesmap, id, o)
      /\ questionID' = [questionID EXCEPT ![o] = id, ![old] = 0]
      /\ correct' = [correct EXCEPT ![o] = key, ![old] = {}]
      /\ UNCHANGED <<held, orphans, removed>>

RemoveQuestionById(id) ==
  /\ id \in Ids /\ NoOtherHolder(quesmap[id])
  /\ quesmap' = Keep(quesmap, Ids \ {id})
  /\ Destroy({quesmap[id]})
  /\ removed' = TRUE
  /\ UNCHANGED <<held, orphans>>

(* No use count here: whoever holds a question keeps it, without the bank.  *)
ResetQuestionBank ==
  /\ quesmap' = Keep(quesmap, {})
  /\ Destroy(InBank \ Held)
  /\ orphans' = orphans \cup (Held \cap InBank)
  /\ removed' = TRUE
  /\ UNCHANGED held

GetQuestionById(r, id) ==
  /\ held' = [held EXCEPT ![r] = IF id \in Ids THEN quesmap[id] ELSE NoObj]
  /\ UNCHANGED <<quesmap, questionID, correct, orphans, removed>>

(* The reader's shared_ptr goes out of scope, without the mutex; an orphan  *)
(* dies with its last holder.                                               *)
Release(r) ==
  LET others == {held[s] : s \in Readers \ {r}}
  IN  /\ held' = [held EXCEPT ![r] = NoObj]
      /\ orphans' = orphans \cap others
      /\ Destroy(orphans \ others)
      /\ UNCHANGED <<quesmap, removed>>
=============================================================================

--------------------------- MODULE QuizSetupProofs ---------------------------
(***************************************************************************)
(* Proofs about QuizSetup, for sheets and files of any length, any number  *)
(* of readers, and with or without edits of the bank.                      *)
(***************************************************************************)
EXTENDS QuizSetup, FiniteSetTheorems, SequenceTheorems, TLAPS

(* The object under an id knows that id, so no object is there twice.       *)
Named == \A i \in Ids : questionID[quesmap[i]] = i

(* An orphan is held by somebody, and is not in the bank again.             *)
OrphansInv == orphans \subseteq Held /\ orphans \cap InBank = {}

HeldInv ==
  \A r \in Readers :
    held[r] \notin {NoObj} \cup orphans =>
      asked[r] \in Ids /\ quesmap[asked[r]] = held[r]

(* Until something is removed the ids have no gap, and what a reader has    *)
(* accepted is one of them.                                                 *)
NoGap ==
  removed \/ /\ Ids = 1..TotalQuestionCount
             /\ \A r \in Readers : asked[r] \in Ids \cup {0}

(* The bank has what has been read of the sheet. *)
Loaded ==
  phase \in {"config", "bank", "serving"} /\ ~edited =>
    /\ Ids = 1..Len(sheet)
    /\ \A i \in Ids : correct[quesmap[i]] = sheet[i].tokens /\ sheet[i].tokens \subseteq Options

IInv == /\ TypeOK /\ Named /\ OrphansInv /\ HeldInv /\ NoGap
        /\ Loaded /\ AcceptedIdIsFound

(* A program state in which the bank's part of the invariant holds.         *)
BankInv == BankTypeOK /\ Named /\ OrphansInv

LEMMA Interval == \A n \in Nat : IsFiniteSet(1..n) /\ Cardinality(1..n) = n
  BY FS_Interval

LEMMA CountType == BankTypeOK => TotalQuestionCount \in Nat
  BY FS_CardinalityType DEF BankTypeOK, TotalQuestionCount

LEMMA InitIInv == Init => IInv
  <1>. SUFFICES ASSUME Init PROVE IInv
    OBVIOUS
  <1>1. Ids = {} /\ Held \subseteq {NoObj} /\ InBank = {}
    BY DEF Init, BankInit, Held, InBank, Ids
  <1>2. BankTypeOK
    BY <1>1, FS_EmptySet DEF Init, BankInit, BankTypeOK, Ids
  <1>3. Defaults \in Settings
    BY DEF Defaults, Settings, QuizModes
  <1>4. TypeOK
    <2>1. lines \in Seq(Lines) /\ sheet \in Seq(Rows)
      BY EmptySeq DEF Init, ConfigInit
    <2>. QED
      BY <1>2, <1>3, <2>1 DEF Init, ConfigInit, ConfigTypeOK, TypeOK, Phases
  <1>5. TotalQuestionCount = 0
    BY <1>1, FS_EmptySet DEF TotalQuestionCount
  <1>6. Named /\ OrphansInv /\ HeldInv
    BY <1>1 DEF Init, BankInit, Named, OrphansInv, HeldInv
  <1>7. NoGap /\ Loaded /\ AcceptedIdIsFound
    BY <1>1, <1>5 DEF Init, NoGap, Loaded, AcceptedIdIsFound
  <1>. QED
    BY <1>4, <1>6, <1>7 DEF IInv

-----------------------------------------------------------------------------
(* The operations of the bank. *)

LEMMA AddBank ==
  ASSUME BankInv, NEW o \in Objs, NEW key \in SUBSET Int, AddQuestionToBank(o, key)
  PROVE  /\ BankInv'
         /\ \A i \in Ids : i \in Ids' /\ quesmap'[i] = quesmap[i]
                           /\ correct'[quesmap[i]] = correct[quesmap[i]]
         /\ NewId \notin Ids => Ids' = Ids \cup {NewId} /\ correct'[quesmap'[NewId]] = key
         /\ NewId \in Ids => UNCHANGED <<quesmap, questionID, correct>>
         /\ UNCHANGED <<held, orphans, removed>>
  <1>1. NewId \in Nat \ {0}
    BY CountType DEF NewId, BankInv
  <1>2. UNCHANGED <<held, orphans, removed>> /\ o \notin Held /\ o \notin InBank
    BY DEF AddQuestionToBank, Fresh
  <1>3. CASE NewId \in Ids
    <2>1. UNCHANGED <<quesmap, questionID, correct>>
      BY <1>3 DEF AddQuestionToBank
    <2>. QED
      BY <1>2, <1>3, <2>1 DEF BankInv, BankTypeOK, Named, OrphansInv, Held, InBank, Ids
  <1>4. CASE NewId \notin Ids
    <2>1. /\ quesmap' = Put(quesmap, NewId, o)
          /\ questionID' = [questionID EXCEPT ![o] = NewId]
          /\ correct' = [correct EXCEPT ![o] = key]
      BY <1>4 DEF AddQuestionToBank
    <2>2. /\ Ids' = Ids \cup {NewId}
          /\ quesmap'[NewId] = o
          /\ \A i \in Ids : quesmap'[i] = quesmap[i] /\ quesmap[i] # o
      BY <1>2, <1>4, <2>1 DEF Put, Ids, InBank
    <2>3. BankTypeOK'
      <3>1. IsFiniteSet(Ids)' /\ (Ids \subseteq Nat \ {0})'
        BY <1>1, <2>2, FS_AddElement DEF BankInv, BankTypeOK
      <3>2. (quesmap \in [Ids -> Objs])'
        BY <2>1, <2>2 DEF Put, Ids, BankInv, BankTypeOK
      <3>3. questionID' \in [Objs -> Nat] /\ correct' \in [Objs -> SUBSET Int]
        BY <1>1, <2>1 DEF BankInv, BankTypeOK
      <3>. QED
        BY <1>2, <3>1, <3>2, <3>3 DEF BankInv, BankTypeOK
    <2>4. Named'
      BY <1>2, <2>1, <2>2 DEF BankInv, BankTypeOK, Named
    <2>5. InBank' = InBank \cup {o} /\ Held' = Held
      BY <1>2, <2>2 DEF InBank, Held
    <2>6. OrphansInv'
      BY <1>2, <2>5 DEF BankInv, OrphansInv
    <2>7. /\ \A i \in Ids : correct'[quesmap[i]] = correct[quesmap[i]]
          /\ correct'[quesmap'[NewId]] = key
      BY <2>1, <2>2 DEF BankInv, BankTypeOK
    <2>. QED
      BY <1>2, <1>4, <2>2, <2>3, <2>4, <2>6, <2>7 DEF BankInv
  <1>. QED
    BY <1>3, <1>4

LEMMA UpdateBank ==
  ASSUME BankInv, NEW o \in Objs, NEW key \in SUBSET Int, NEW id \in Ids,
         UpdateQuestionById(id, o, key)
  PROVE  /\ BankInv'
         /\ Ids' = Ids
         /\ \A i \in Ids : quesmap'[i] = quesmap[i] \/ quesmap[i] \notin Held
         /\ UNCHANGED <<held, orphans, removed>>
  <1>1. /\ UNCHANGED <<held, orphans, removed>> /\ o \notin Held /\ o \notin InBank
        /\ quesmap[id] \notin Held /\ quesmap' = Put(quesmap, id, o)
        /\ questionID' = [questionID EXCEPT ![o] = id, ![quesmap[id]] = 0]
        /\ correct' = [correct EXCEPT ![o] = key, ![quesmap[id]] = {}]
    BY DEF UpdateQuestionById, Fresh, NoOtherHolder
  <1>2. /\ Ids' = Ids /\ quesmap'[id] = o
        /\ \A i \in Ids \ {id} : quesmap'[i] = quesmap[i]
        /\ \A i \in Ids : quesmap[i] # o
    BY <1>1 DEF Put, Ids, InBank
  <1>3. \A i \in Ids \ {id} : quesmap[i] # quesmap[id]
    BY DEF BankInv, Named
  <1>4. BankTypeOK'
    <2>1. (quesmap \in [Ids -> Objs])'
      BY <1>1, <1>2 DEF Put, Ids, BankInv, BankTypeOK
    <2>2. questionID' \in [Objs -> Nat] /\ correct' \in [Objs -> SUBSET Int]
      BY <1>1 DEF BankInv, BankTypeOK
    <2>. QED
      BY <1>1, <1>2, <2>1, <2>2 DEF BankInv, BankTypeOK
  <1>5. Named'
    <2>. SUFFICES ASSUME NEW i \in Ids PROVE questionID'[quesmap'[i]] = i
      BY <1>2 DEF Named
    <2>1. CASE i = id
      BY <1>1, <1>2, <2>1 DEF BankInv, BankTypeOK
    <2>2. CASE i # id
      <3>1. quesmap'[i] = quesmap[i] /\ quesmap[i] \in Objs \ {o, quesmap[id]}
        BY <1>2, <1>3, <2>2 DEF BankInv, BankTypeOK
      <3>. QED
        BY <1>1, <3>1 DEF BankInv, BankTypeOK, Named
    <2>. QED
      BY <2>1, <2>2
  <1>6. InBank' \subseteq InBank \cup {o} /\ Held' = Held
    BY <1>1, <1>2 DEF InBank, Held
  <1>7. OrphansInv'
    BY <1>1, <1>6 DEF BankInv, OrphansInv
  <1>. QED
    BY <1>1, <1>2, <1>4, <1>5, <1>7 DEF BankInv

(* A destructor keeps the questions of the bank, if none of them dies.      *)
LEMMA DestroyKeeps ==
  ASSUME BankTypeOK, NEW dead, Destroy(dead)
  PROVE  /\ questionID' \in [Objs -> Nat] /\ correct' \in [Objs -> SUBSET Int]
         /\ \A o \in Objs \ dead : questionID'[o] = questionID[o] /\ correct'[o] = correct[o]
  BY DEF Destroy, BankTypeOK

LEMMA RemoveBank ==
  ASSUME BankInv, NEW id \in Ids, RemoveQuestionById(id)
  PROVE  /\ BankInv'
         /\ \A i \in Ids : quesmap[i] \in Held => i \in Ids' /\ quesmap'[i] = quesmap[i]
         /\ UNCHANGED <<held, orphans>> /\ removed'
  <1>1. /\ UNCHANGED <<held, orphans>> /\ removed' = TRUE /\ quesmap[id] \notin Held
        /\ quesmap' = Keep(quesmap, Ids \ {id}) /\ Destroy({quesmap[id]})
    BY DEF RemoveQuestionById, NoOtherHolder
  <1>2. /\ Ids' = Ids \ {id}
        /\ \A i \in Ids' : quesmap'[i] = quesmap[i]
    BY <1>1 DEF Keep, Ids
  <1>3. \A i \in Ids' : quesmap[i] \in Objs \ {quesmap[id]}
    BY <1>2 DEF BankInv, Named, BankTypeOK
  <1>4. BankTypeOK'
    <2>1. IsFiniteSet(Ids)' /\ (Ids \subseteq Nat \ {0})'
      BY <1>2, FS_Subset DEF BankInv, BankTypeOK
    <2>2. (quesmap \in [Ids -> Objs])'
      BY <1>1, <1>2 DEF Keep, Ids, BankInv, BankTypeOK
    <2>. QED
      BY <1>1, <2>1, <2>2, DestroyKeeps DEF BankInv, BankTypeOK
  <1>5. Named'
    <2>1. \A o \in Objs \ {quesmap[id]} : questionID'[o] = questionID[o]
      BY <1>1, DestroyKeeps DEF BankInv
    <2>2. ASSUME NEW i \in Ids' PROVE questionID'[quesmap'[i]] = i
      <3>1. quesmap'[i] = quesmap[i] /\ quesmap[i] \in Objs \ {quesmap[id]} /\ i \in Ids
        BY <1>2, <1>3
      <3>2. questionID[quesmap[i]] = i
        BY <3>1 DEF BankInv, Named
      <3>. QED
        BY <2>1, <3>1, <3>2
    <2>. QED
      BY <2>2 DEF Named
  <1>6. InBank' \subseteq InBank /\ Held' = Held
    BY <1>1, <1>2 DEF InBank, Held
  <1>7. OrphansInv'
    BY <1>1, <1>6 DEF BankInv, OrphansInv
  <1>. QED
    BY <1>1, <1>2, <1>4, <1>5, <1>7 DEF BankInv

LEMMA ResetBank ==
  ASSUME BankInv, ResetQuestionBank
  PROVE  BankInv' /\ orphans' = orphans \cup (Held \cap InBank) /\ removed' /\ UNCHANGED held
  <1>1. /\ quesmap' = Keep(quesmap, {}) /\ Destroy(InBank \ Held)
        /\ orphans' = orphans \cup (Held \cap InBank)
        /\ removed' = TRUE /\ UNCHANGED held
    BY DEF ResetQuestionBank
  <1>2. Ids' = {} /\ InBank' = {} /\ Held' = Held
    BY <1>1 DEF Keep, Ids, InBank, Held
  <1>3. (quesmap \in [Ids -> Objs])'
    BY <1>1, <1>2 DEF Keep, Ids
  <1>4. Held \cap InBank \subseteq Objs
    BY DEF InBank, Ids, BankInv, BankTypeOK
  <1>5. BankTypeOK'
    BY <1>1, <1>2, <1>3, <1>4, DestroyKeeps, FS_EmptySet DEF BankInv, BankTypeOK
  <1>6. Named' /\ OrphansInv'
    BY <1>1, <1>2 DEF Named, OrphansInv, BankInv
  <1>. QED
    BY <1>1, <1>5, <1>6 DEF BankInv

LEMMA ReleaseBank ==
  ASSUME BankInv, NEW r \in Readers, Release(r)
  PROVE  /\ BankInv'
         /\ held' = [held EXCEPT ![r] = NoObj]
         /\ \A s \in Readers \ {r} : held[s] \in orphans => held[s] \in orphans'
         /\ orphans' \subseteq orphans
         /\ \A i \in Ids : correct'[quesmap[i]] = correct[quesmap[i]]
         /\ UNCHANGED <<quesmap, removed>>
  <1> DEFINE others == {held[s] : s \in Readers \ {r}}
  <1>1. /\ held' = [held EXCEPT ![r] = NoObj] /\ orphans' = orphans \cap others
        /\ Destroy(orphans \ others) /\ UNCHANGED <<quesmap, removed>>
    BY DEF Release
  <1>2. InBank' = InBank /\ Ids' = Ids
    BY <1>1 DEF InBank, Ids
  <1>3. others \subseteq Held'
    <2>1. \A s \in Readers \ {r} : held'[s] = held[s]
      BY <1>1 DEF BankInv, BankTypeOK
    <2>. QED
      BY <2>1 DEF Held
  <1>4. held' \in [Readers -> Objs \cup {NoObj}]
    BY <1>1 DEF BankInv, BankTypeOK
  <1>5. \A i \in Ids : quesmap[i] \in Objs \ (orphans \ others)
    BY DEF BankInv, BankTypeOK, OrphansInv, InBank, Ids
  <1>. HIDE DEF others
  <1>6. BankTypeOK'
    BY <1>1, <1>2, <1>4, DestroyKeeps DEF BankInv, BankTypeOK
  <1>7. Named' /\ \A i \in Ids : correct'[quesmap[i]] = correct[quesmap[i]]
    BY <1>1, <1>2, <1>5, DestroyKeeps DEF BankInv, Named
  <1>8. OrphansInv'
    BY <1>1, <1>2, <1>3 DEF BankInv, OrphansInv
  <1>. QED
    BY <1>1, <1>6, <1>7, <1>8 DEF BankInv, others

-----------------------------------------------------------------------------
(* A step that leaves the bank and what has been asked alone.               *)
LEMMA BankIdle ==
  ASSUME IInv, UNCHANGED <<bankVars, asked>>
  PROVE  (BankTypeOK /\ Named /\ OrphansInv /\ HeldInv /\ NoGap)'
         /\ Ids' = Ids /\ (asked \in [Readers -> Nat])'
  BY DEF IInv, TypeOK, BankTypeOK, Named, OrphansInv, HeldInv, NoGap, TotalQuestionCount,
         Held, InBank, Ids, bankVars

LEMMA ParserType ==
  ASSUME cfg \in Settings, NEW line \in Lines
  PROVE  Parser(cfg, line[1], line[2]) \in Settings
  <1>1. \A v \in Int : /\ [cfg EXCEPT !.posMarking = 2 * v] \in Settings
                      /\ [cfg EXCEPT !.negMarking = 2 * v, !.vIsNegMarking = TRUE] \in Settings
                      /\ [cfg EXCEPT !.partialMarking = 2 * v] \in Settings
    <2>1. \A w \in Int : [cfg EXCEPT !.posMarking = w] \in Settings
      BY DEF Settings
    <2>2. \A w \in Int : [cfg EXCEPT !.negMarking = w, !.vIsNegMarking = TRUE] \in Settings
      BY DEF Settings
    <2>3. \A w \in Int : [cfg EXCEPT !.partialMarking = w] \in Settings
      BY DEF Settings
    <2>4. \A v \in Int : 2 * v \in Int
      OBVIOUS
    <2>. QED
      BY <2>1, <2>2, <2>3, <2>4
  <1>2. \A v \in BOOLEAN : /\ [cfg EXCEPT !.vIsSingleUser = v] \in Settings
                          /\ SetKBC(cfg, v) \in Settings
    BY DEF SetKBC, Settings
  <1>3. \A v \in BOOLEAN : SetMulti(cfg, v) \in Settings
    <2>1. cfg.posMarking \div 2 \in Int
      BY DEF Settings
    <2>. QED
      BY <2>1 DEF SetMulti, Settings
  <1>4. \A v \in QuizModes : [cfg EXCEPT !.vQuizMode = v] \in Settings
    BY DEF Settings
  <1>5. \A v \in Int : SetTime(cfg, v) \in Settings
    <2>1. \A v \in Nat \ {0} : [cfg EXCEPT !.vTimeAllowed = v] \in Settings
      BY DEF Settings
    <2>2. 1..MaxTimeAllowed \subseteq Nat \ {0}
      BY DEF MaxTimeAllowed
    <2>. QED
      BY <2>1, <2>2 DEF SetTime
  <1>6. \/ line[1] = "refused"
        \/ line[1] \in ScoreKeys /\ line[2] \in Int
        \/ line[1] = "QuizMode" /\ line[2] \in QuizModes
        \/ line[1] = "TimeAllowed" /\ line[2] \in Int
        \/ line[1] \in FlagKeys /\ line[2] \in BOOLEAN
    BY QuizConfigAssumption
  <1>. QED
    BY <1>1, <1>2, <1>3, <1>4, <1>5, <1>6 DEF Parser, ScoreKeys, FlagKeys

LEMMA ConfigSteps ==
  ASSUME IInv, ReadLine \/ ConfigLoaded PROVE IInv'
  <1>1. UNCHANGED <<bankVars, asked, sheet, edited>> /\ phase' \in Phases
        /\ phase = "config" /\ phase' \in {"config", "bank", "failed"}
    BY DEF ReadLine, ConfigLoaded, setupVars, Phases
  <1>2. (cfg \in Settings)' /\ (lines \in Seq(Lines))'
    <2>1. CASE ReadLine
      <3>1. PICK line \in Lines : cfg' = Parser(cfg, line[1], line[2])
                                  /\ lines' = Append(lines, line)
        BY <2>1 DEF ReadLine, ParseLine
      <3>. QED
        BY <3>1, ParserType DEF IInv, TypeOK, ConfigTypeOK
    <2>2. CASE ConfigLoaded
      BY <2>2, EmptySeq DEF ConfigLoaded, IInv, TypeOK, ConfigTypeOK
    <2>. QED
      BY <2>1, <2>2
  <1>3. Loaded' /\ AcceptedIdIsFound'
    BY <1>1 DEF IInv, Loaded, AcceptedIdIsFound, Ids, bankVars
  <1>. QED
    BY <1>1, <1>2, <1>3, BankIdle DEF IInv, TypeOK, ConfigTypeOK

(* What HeldInv and NoGap need of a step that changes the bank.             *)
LEMMA KeepsHeld ==
  ASSUME IInv, UNCHANGED <<held, asked>>, orphans \subseteq orphans',
         \A i \in Ids : quesmap[i] \in Held \ orphans' => i \in Ids' /\ quesmap'[i] = quesmap[i]
  PROVE  HeldInv'
  BY DEF IInv, HeldInv, Held

LEMMA NoGapAfterAdd ==
  ASSUME IInv, UNCHANGED <<asked, removed>>, Ids' = Ids \cup {NewId}
  PROVE  NoGap'
  <1> DEFINE n == TotalQuestionCount
  <1>1. n \in Nat
    BY CountType DEF IInv, TypeOK
  <1>2. CASE removed
    BY <1>2 DEF NoGap
  <1>3. CASE Ids = 1..n /\ \A r \in Readers : asked[r] \in Ids \cup {0}
    <2>1. Ids' = 1..(n + 1)
      BY <1>1, <1>3 DEF NewId
    <2>2. n + 1 \in Nat
      BY <1>1
    <2>. HIDE DEF n
    <2>3. Cardinality(1..(n + 1)) = n + 1
      BY <2>2, Interval
    <2>4. TotalQuestionCount' = n + 1
      BY <2>1, <2>3 DEF TotalQuestionCount
    <2>. QED
      BY <1>3, <2>1, <2>4 DEF NoGap
  <1>. QED
    BY <1>2, <1>3 DEF IInv, NoGap

LEMMA LoadRowStep ==
  ASSUME IInv, LoadRow PROVE IInv'
  <1>1. PICK row \in Rows :
          /\ sheet' = Append(sheet, row)
          /\ IF MakesQuestion(row)
             THEN \E o \in Objs : AddQuestionToBank(o, row.tokens)
             ELSE UNCHANGED bankVars
          /\ phase' = IF MakesQuestion(row) /\ NewId \notin Ids THEN phase ELSE "failed"
    BY DEF LoadRow
  <1>2. phase = "bank" /\ UNCHANGED <<configVars, asked, edited>> /\ phase' \in Phases
    BY <1>1 DEF LoadRow, Phases
  <1>3. ConfigTypeOK' /\ (sheet \in Seq(Rows))' /\ (edited \in BOOLEAN)' /\ AcceptedIdIsFound'
    BY <1>1, <1>2 DEF IInv, TypeOK, ConfigTypeOK, configVars, AcceptedIdIsFound
  <1>4. CASE UNCHANGED bankVars /\ phase' = "failed"
    BY <1>2, <1>3, <1>4, BankIdle DEF IInv, TypeOK, Loaded
  <1>5. CASE MakesQuestion(row)
    <2>1. PICK o \in Objs : AddQuestionToBank(o, row.tokens)
      BY <1>1, <1>5
    <2>2. row.tokens \in SUBSET Int /\ BankInv
      BY QuizSetupAssumption DEF IInv, TypeOK, BankInv
    <2>3. CASE NewId \in Ids
      <3>1. UNCHANGED bankVars /\ phase' = "failed"
        BY <1>1, <2>1, <2>2, <2>3, AddBank DEF bankVars
      <3>. QED
        BY <1>4, <3>1
    <2>4. CASE NewId \notin Ids
      <3>1. /\ BankInv' /\ Ids' = Ids \cup {NewId} /\ correct'[quesmap'[NewId]] = row.tokens
            /\ \A i \in Ids : /\ i \in Ids' /\ quesmap'[i] = quesmap[i]
                              /\ correct'[quesmap[i]] = correct[quesmap[i]]
            /\ UNCHANGED <<held, orphans, removed>>
        BY <2>1, <2>2, <2>4, AddBank
      <3>2. HeldInv' /\ NoGap'
        BY <1>2, <3>1, KeepsHeld, NoGapAfterAdd
      <3>3. Loaded'
        <4>. SUFFICES ASSUME ~edited
                      PROVE  /\ Ids' = 1..Len(sheet')
                             /\ \A i \in Ids' : correct'[quesmap'[i]] = sheet'[i].tokens
                                               /\ sheet'[i].tokens \subseteq Options
          BY <1>2 DEF Loaded
        <4>1. Ids = 1..Len(sheet) /\ Len(sheet) \in Nat
          BY <1>2 DEF IInv, Loaded, TypeOK
        <4>2. NewId = Len(sheet) + 1
          BY <4>1, Interval DEF NewId, TotalQuestionCount
        <4>3. /\ Len(sheet') = Len(sheet) + 1 /\ sheet'[NewId] = row
              /\ \A i \in 1..Len(sheet) : sheet'[i] = sheet[i]
          BY <1>1, <4>2 DEF IInv, TypeOK
        <4>4. \A i \in Ids : correct[quesmap[i]] = sheet[i].tokens /\ sheet[i].tokens \subseteq Options
          BY <1>2 DEF IInv, Loaded
        <4>. QED
          BY <1>5, <3>1, <4>1, <4>2, <4>3, <4>4 DEF MakesQuestion
      <3>. QED
        BY <1>2, <1>3, <3>1, <3>2, <3>3 DEF IInv, TypeOK, BankInv
    <2>. QED
      BY <2>3, <2>4
  <1>. QED
    BY <1>1, <1>4, <1>5

LEMMA BankLoadedStep ==
  ASSUME IInv, BankLoaded PROVE IInv'
  <1>1. /\ UNCHANGED <<bankVars, asked, configVars, sheet, edited>> /\ phase = "bank"
        /\ phase' \in {"serving", "failed"} /\ phase' \in Phases
    BY DEF BankLoaded, Phases
  <1>2. ConfigTypeOK' /\ Loaded' /\ AcceptedIdIsFound'
    BY <1>1 DEF IInv, TypeOK, ConfigTypeOK, Loaded, AcceptedIdIsFound, Ids, bankVars, configVars
  <1>. QED
    BY <1>1, <1>2, BankIdle DEF IInv, TypeOK

-----------------------------------------------------------------------------
LEMMA AcceptIdStep ==
  ASSUME IInv, NEW r \in Readers, AcceptId(r) PROVE IInv'
  <1>1. PICK id \in 1..TotalQuestionCount : asked' = [asked EXCEPT ![r] = id]
    BY DEF AcceptId, ValidIds
  <1>2. /\ UNCHANGED <<bankVars, configVars, phase, sheet, edited>> /\ asked[r] = 0
    BY DEF AcceptId
  <1>3. UNCHANGED <<quesmap, questionID, correct, held, orphans, removed, cfg, lines>>
        /\ Ids' = Ids /\ TotalQuestionCount' = TotalQuestionCount
    BY <1>2 DEF bankVars, configVars, Ids, TotalQuestionCount
  <1>4. TypeOK'
    <2>1. asked' \in [Readers -> Nat]
      BY <1>1, CountType DEF IInv, TypeOK
    <2>. QED
      BY <1>2, <1>3, <2>1 DEF IInv, TypeOK, BankTypeOK, ConfigTypeOK
  <1>5. HeldInv'
    <2>1. 0 \notin Ids
      BY DEF IInv, TypeOK, BankTypeOK
    <2>2. held[r] \in {NoObj} \cup orphans
      BY <1>2, <2>1 DEF IInv, HeldInv
    <2>3. \A s \in Readers \ {r} : asked'[s] = asked[s]
      BY <1>1 DEF IInv, TypeOK
    <2>. QED
      BY <1>3, <2>2, <2>3 DEF IInv, HeldInv
  <1>6. NoGap'
    <2>1. \A s \in Readers : asked'[s] \in {asked[s], id}
      BY <1>1 DEF IInv, TypeOK
    <2>. QED
      BY <1>3, <2>1 DEF IInv, NoGap
  <1>7. Named' /\ OrphansInv' /\ Loaded' /\ AcceptedIdIsFound'
    BY <1>2, <1>3 DEF IInv, Named, OrphansInv, Held, InBank, Loaded, AcceptedIdIsFound
  <1>. QED
    BY <1>4, <1>5, <1>6, <1>7 DEF IInv

LEMMA FetchQuestionStep ==
  ASSUME IInv, NEW r \in Readers, FetchQuestion(r) PROVE IInv'
  <1>1. /\ phase = "serving" /\ asked[r] # 0 /\ held[r] = NoObj
        /\ held' = [held EXCEPT ![r] = IF asked[r] \in Ids THEN quesmap[asked[r]] ELSE NoObj]
        /\ UNCHANGED <<quesmap, questionID, correct, orphans, removed>>
        /\ UNCHANGED <<configVars, asked, sheet, edited>>
        /\ phase' = IF asked[r] \in Ids THEN phase ELSE "crashed"
    BY DEF FetchQuestion, GetQuestionById
  <1>2. Ids' = Ids /\ InBank' = InBank /\ TotalQuestionCount' = TotalQuestionCount
    BY <1>1 DEF Ids, InBank, TotalQuestionCount
  <1>3. \A s \in Readers \ {r} : held'[s] = held[s]
    BY <1>1 DEF IInv, TypeOK, BankTypeOK
  <1>4. held'[r] = IF asked[r] \in Ids THEN quesmap[asked[r]] ELSE NoObj
    BY <1>1 DEF IInv, TypeOK, BankTypeOK
  <1>5. TypeOK'
    <2>1. held' \in [Readers -> Objs \cup {NoObj}]
      BY <1>1 DEF IInv, TypeOK, BankTypeOK
    <2>. QED
      BY <1>1, <1>2, <2>1 DEF IInv, TypeOK, BankTypeOK, ConfigTypeOK, configVars, Phases
  <1>6. HeldInv'
    BY <1>1, <1>2, <1>3, <1>4 DEF IInv, HeldInv
  <1>7. OrphansInv'
    <2>1. NoObj \notin orphans
      BY QuestionBankAssumption DEF IInv, TypeOK, BankTypeOK
    <2>2. orphans \subseteq Held'
      BY <1>1, <1>3, <2>1 DEF IInv, OrphansInv, Held
    <2>. QED
      BY <1>1, <1>2, <2>2 DEF IInv, OrphansInv
  <1>8. Named' /\ Loaded' /\ NoGap'
    BY <1>1, <1>2 DEF IInv, Named, Loaded, NoGap
  <1>9. AcceptedIdIsFound'
    BY <1>1 DEF IInv, NoGap, AcceptedIdIsFound
  <1>. QED
    BY <1>5, <1>6, <1>7, <1>8, <1>9 DEF IInv

LEMMA ReplySentStep ==
  ASSUME IInv, NEW r \in Readers, ReplySent(r) PROVE IInv'
  <1>1. /\ asked' = [asked EXCEPT ![r] = 0] /\ Release(r) /\ BankInv
        /\ UNCHANGED <<configVars, phase, sheet, edited>>
    BY DEF ReplySent, BankInv, IInv, TypeOK
  <1>2. /\ BankInv'
        /\ held' = [held EXCEPT ![r] = NoObj]
        /\ \A s \in Readers \ {r} : held[s] \in orphans => held[s] \in orphans'
        /\ \A i \in Ids : correct'[quesmap[i]] = correct[quesmap[i]]
        /\ UNCHANGED <<quesmap, removed>>
    BY <1>1, ReleaseBank
  <1>3. Ids' = Ids /\ TotalQuestionCount' = TotalQuestionCount
    BY <1>2 DEF Ids, TotalQuestionCount
  <1>4. \A s \in Readers : /\ s # r => held'[s] = held[s] /\ asked'[s] = asked[s]
                           /\ s = r => held'[s] = NoObj /\ asked'[s] = 0
    BY <1>1, <1>2 DEF IInv, TypeOK, BankTypeOK
  <1>5. TypeOK'
    <2>1. asked' \in [Readers -> Nat]
      BY <1>1 DEF IInv, TypeOK
    <2>. QED
      BY <1>1, <1>2, <2>1 DEF IInv, TypeOK, BankInv, ConfigTypeOK, configVars
  <1>6. HeldInv'
    BY <1>2, <1>3, <1>4 DEF IInv, HeldInv
  <1>7. NoGap'
    BY <1>2, <1>3, <1>4 DEF IInv, NoGap
  <1>8. Loaded' /\ AcceptedIdIsFound'
    BY <1>1, <1>2, <1>3 DEF IInv, Loaded, AcceptedIdIsFound
  <1>. QED
    BY <1>2, <1>5, <1>6, <1>7, <1>8 DEF IInv, BankInv

LEMMA EditBankStep ==
  ASSUME IInv, EditBank PROVE IInv'
  <1>1. UNCHANGED <<configVars, phase, asked>> /\ edited' = TRUE /\ sheet' = << >>
        /\ phase = "serving" /\ BankInv
    BY DEF EditBank, IInv, TypeOK, BankInv
  <1>2. BankInv' /\ HeldInv' /\ NoGap'
    <2>1. ASSUME NEW o \in Objs, NEW row \in Rows, AddQuestionToBank(o, row.tokens)
          PROVE  BankInv' /\ HeldInv' /\ NoGap'
      <3>1. row.tokens \in SUBSET Int
        BY QuizSetupAssumption
      <3>2. CASE NewId \in Ids
        <4>1. UNCHANGED <<bankVars, asked>>
          BY <1>1, <2>1, <3>1, <3>2, AddBank DEF bankVars
        <4>. QED
          BY <4>1, BankIdle DEF BankInv
      <3>3. CASE NewId \notin Ids
        <4>1. /\ BankInv' /\ Ids' = Ids \cup {NewId}
              /\ \A i \in Ids : i \in Ids' /\ quesmap'[i] = quesmap[i]
              /\ UNCHANGED <<held, orphans, removed>>
          BY <1>1, <2>1, <3>1, <3>3, AddBank
        <4>. QED
          BY <1>1, <4>1, KeepsHeld, NoGapAfterAdd
      <3>. QED
        BY <3>2, <3>3
    <2>2. ASSUME NEW o \in Objs, NEW row \in Rows, NEW id \in Ids,
                 UpdateQuestionById(id, o, row.tokens)
          PROVE  BankInv' /\ HeldInv' /\ NoGap'
      <3>1. row.tokens \in SUBSET Int
        BY QuizSetupAssumption
      <3>2. /\ BankInv' /\ Ids' = Ids
            /\ \A i \in Ids : quesmap'[i] = quesmap[i] \/ quesmap[i] \notin Held
            /\ UNCHANGED <<held, orphans, removed>>
        BY <1>1, <2>2, <3>1, UpdateBank
      <3>3. HeldInv'
        BY <1>1, <3>2, KeepsHeld
      <3>4. NoGap'
        BY <1>1, <3>2 DEF IInv, NoGap, TotalQuestionCount
      <3>. QED
        BY <3>2, <3>3, <3>4
    <2>3. ASSUME NEW id \in Ids, RemoveQuestionById(id)
          PROVE  BankInv' /\ HeldInv' /\ NoGap'
      <3>1. /\ BankInv' /\ UNCHANGED <<held, orphans>> /\ removed'
            /\ \A i \in Ids : quesmap[i] \in Held => i \in Ids' /\ quesmap'[i] = quesmap[i]
        BY <1>1, <2>3, RemoveBank
      <3>. QED
        BY <1>1, <3>1, KeepsHeld DEF NoGap
    <2>4. ASSUME ResetQuestionBank PROVE BankInv' /\ HeldInv' /\ NoGap'
      <3>1. /\ BankInv' /\ orphans' = orphans \cup (Held \cap InBank) /\ removed'
            /\ UNCHANGED held
        BY <1>1, <2>4, ResetBank
      <3>2. \A i \in Ids : quesmap[i] \in InBank
        BY DEF InBank
      <3>. QED
        BY <1>1, <3>1, <3>2, KeepsHeld DEF NoGap
    <2>. QED
      BY <2>1, <2>2, <2>3, <2>4 DEF EditBank
  <1>3. TypeOK'
    <2>1. sheet' \in Seq(Rows)
      BY <1>1, EmptySeq
    <2>. QED
      BY <1>1, <1>2, <2>1 DEF IInv, TypeOK, BankInv, ConfigTypeOK, configVars
  <1>4. Loaded' /\ AcceptedIdIsFound'
    BY <1>1 DEF Loaded, AcceptedIdIsFound
  <1>. QED
    BY <1>2, <1>3, <1>4 DEF IInv, BankInv

LEMMA NextIInv == IInv /\ [Next]_vars => IInv'
  <1>1. ASSUME IInv, UNCHANGED vars PROVE IInv'
    <2>1. UNCHANGED <<bankVars, asked, cfg, lines, phase, sheet, edited>>
      BY <1>1 DEF vars, configVars, setupVars
    <2>2. ConfigTypeOK' /\ Loaded' /\ AcceptedIdIsFound'
      BY <1>1, <2>1 DEF IInv, TypeOK, ConfigTypeOK, Loaded, AcceptedIdIsFound, Ids, bankVars
    <2>. QED
      BY <1>1, <2>1, <2>2, BankIdle DEF IInv, TypeOK
  <1>2. ASSUME IInv, NEW r \in Readers, AcceptId(r) \/ FetchQuestion(r) \/ ReplySent(r)
        PROVE  IInv'
    BY <1>2, AcceptIdStep, FetchQuestionStep, ReplySentStep
  <1>. QED
    BY <1>1, <1>2, ConfigSteps, LoadRowStep, BankLoadedStep, EditBankStep DEF Next

THEOREM Invariance == Spec => []IInv
  BY InitIInv, NextIInv, PTL DEF Spec

-----------------------------------------------------------------------------
(* The bank, the settings and the program are of their types in every       *)
(* state, after any edits.                                                  *)
THEOREM TypeCorrect == Spec => []TypeOK
  <1>1. IInv => TypeOK
    BY DEF IInv
  <1>. QED
    BY <1>1, Invariance, PTL

(* A server that serves, and whose bank has not been edited, has the whole  *)
(* sheet in order, with keys that name options.                             *)
THEOREM ServesTheSheet == Spec => []ServingIsReady
  <1>1. IInv => ServingIsReady
    BY DEF IInv, Loaded, Named, ServingIsReady, GetCorrectOptionsById
  <1>. QED
    BY <1>1, Invariance, PTL

(* A question somebody reads stays in the bank under the id that was asked  *)
(* for, whatever the others do to the bank.                                 *)
THEOREM HeldQuestionStays == Spec => []HeldStays
  <1>1. IInv => HeldStays
    BY DEF IInv, HeldInv, Named, HeldStays
  <1>. QED
    BY <1>1, Invariance, PTL

(* A fetch dereferences null only if a question has been taken out.         *)
THEOREM AcceptedIsFound == Spec => []AcceptedIdIsFound
  <1>1. IInv => AcceptedIdIsFound
    BY DEF IInv
  <1>. QED
    BY <1>1, Invariance, PTL
-----------------------------------------------------------------------------
(* Grading, and with it QuizServer, has the questions for constants.        *)

(* The keys that QuizHelper::ValidateUserAnswer looks up. *)
AnswerKey == [q \in 1..TotalQuestionCount |-> GetCorrectOptionsById(q)]

Unedited == ~edited /\ orphans = {}

LEMMA UneditedStep ==
  ASSUME HostEdits = FALSE, Unedited, [Next]_vars PROVE Unedited'
  <1>1. CASE ReadLine \/ ConfigLoaded \/ LoadRow \/ BankLoaded \/ UNCHANGED vars
    BY <1>1 DEF ReadLine, ConfigLoaded, LoadRow, BankLoaded, AddQuestionToBank, vars, bankVars,
                setupVars, Unedited
  <1>2. ASSUME NEW r \in Readers, AcceptId(r) \/ FetchQuestion(r) \/ ReplySent(r)
        PROVE  Unedited'
    BY <1>2 DEF AcceptId, FetchQuestion, ReplySent, GetQuestionById, Release, bankVars, Unedited
  <1>. QED
    BY <1>1, <1>2 DEF Next, EditBank

LEMMA ServingStep ==
  ASSUME IInv, HostEdits = FALSE, Unedited, phase = "serving", [Next]_vars
  PROVE  UNCHANGED <<quesmap, correct>>
  <1>1. CASE UNCHANGED vars
    BY <1>1 DEF vars, bankVars
  <1>2. ASSUME NEW r \in Readers, AcceptId(r) \/ FetchQuestion(r)
        PROVE  UNCHANGED <<quesmap, correct>>
    BY <1>2 DEF AcceptId, FetchQuestion, GetQuestionById, bankVars
  <1>3. ASSUME NEW r \in Readers, ReplySent(r) PROVE UNCHANGED <<quesmap, correct>>
    <2>1. quesmap' = quesmap /\ correct' = [o \in Objs |-> correct[o]]
      BY <1>3 DEF ReplySent, Release, Destroy, Unedited
    <2>. QED
      BY <2>1 DEF IInv, TypeOK, BankTypeOK
  <1>. QED
    BY <1>1, <1>2, <1>3
       DEF Next, ReadLine, ConfigLoaded, LoadRow, BankLoaded, EditBank

(* A server whose host does not edit the bank serves questions that satisfy *)
(* Grading's assumption on NumQuestions and Correct, and that never change: *)
(* what is proved of Grading, QuizResult and QuizServer for constants holds *)
(* of the program as main() starts it.                                      *)
THEOREM ServedQuestionsAreConstant ==
  ASSUME HostEdits = FALSE
  PROVE  Spec => /\ [](phase = "serving" =>
                         /\ TotalQuestionCount \in Nat
                         /\ AnswerKey \in [1..TotalQuestionCount -> SUBSET Options])
                 /\ [][phase = "serving" => UNCHANGED <<TotalQuestionCount, AnswerKey>>]_vars
  <1> DEFINE Inv == IInv /\ Unedited
  <1>1. Init => Inv
    BY InitIInv DEF Init, BankInit, Unedited
  <1>2. Inv /\ [Next]_vars => Inv'
    BY NextIInv, UneditedStep
  <1>3. Inv => (phase = "serving" =>
                  /\ TotalQuestionCount \in Nat
                  /\ AnswerKey \in [1..TotalQuestionCount -> SUBSET Options])
    <2>. SUFFICES ASSUME Inv, phase = "serving"
                  PROVE  /\ TotalQuestionCount \in Nat
                         /\ AnswerKey \in [1..TotalQuestionCount -> SUBSET Options]
      OBVIOUS
    <2>1. TotalQuestionCount \in Nat
      BY CountType DEF IInv, TypeOK
    <2>2. \A i \in Ids : correct[quesmap[i]] \subseteq Options
      BY DEF IInv, Loaded, Unedited
    <2>. QED
      BY <2>1, <2>2 DEF AnswerKey, GetCorrectOptionsById
  <1>4. Inv /\ [Next]_vars
          => [phase = "serving" => UNCHANGED <<TotalQuestionCount, AnswerKey>>]_vars
    <2>. SUFFICES ASSUME Inv, [Next]_vars, phase = "serving"
                  PROVE  UNCHANGED <<TotalQuestionCount, AnswerKey>>
      OBVIOUS
    <2>1. UNCHANGED <<quesmap, correct>>
      BY ServingStep
    <2>2. UNCHANGED TotalQuestionCount
      BY <2>1 DEF TotalQuestionCount, Ids
    <2>. QED
      BY <2>1, <2>2 DEF AnswerKey, GetCorrectOptionsById, Ids
  <1>. HIDE DEF Inv
  <1>. QED
    BY <1>1, <1>2, <1>3, <1>4, PTL DEF Spec

-----------------------------------------------------------------------------
(* The order of the lines.  What the property says of the lines read so far *)
(* is said here of any file q; n is the place of the line that is added.    *)

Value(q, S, d)  == IF S = {} THEN d ELSE q[LastOf(S)][2]
KeyLines(q, k)  == {i \in 1..Len(q) : q[i][1] = k}
Mode(q, i)      == Value(q, Before(KeyLines(q, "QuizMode"), i), "BULLET_TIMER_MODE")
Reward(q, i)    == 2 * Value(q, Before(KeyLines(q, "CorrectScore"), i), 1)
TimeLines(q)    == {i \in KeyLines(q, "TimeAllowed") : q[i][2] \in 1..MaxTimeAllowed}
KBCLines(q)     == {i \in KeyLines(q, "IsKBCMode") : Mode(q, i) = "BULLET_TIMER_MODE"}
MultiOnLines(q) == {i \in KeyLines(q, "IsMultiOptionSelect") : q[i][2]}
PartialLines(q) == KeyLines(q, "PartialScore") \cup MultiOnLines(q)

FollowsLast(c, q) ==
  /\ c.vQuizMode = Mode(q, Len(q) + 1)
  /\ c.posMarking = Reward(q, Len(q) + 1)
  /\ (IF c.vIsNegMarking THEN c.negMarking ELSE 0) = 2 * Value(q, KeyLines(q, "IncorrectPenalty"), 0)
  /\ c.vTimeAllowed = Value(q, TimeLines(q), 15000)
  /\ c.vIsSingleUser = Value(q, KeyLines(q, "IsSingleUser"), TRUE)
  /\ c.vIsMultiOptionSelect = Value(q, KeyLines(q, "IsMultiOptionSelect"), FALSE)
  /\ c.partialMarking =
       IF PartialLines(q) = {} THEN 2
       ELSE IF LastOf(PartialLines(q)) \in MultiOnLines(q)
            THEN Reward(q, LastOf(PartialLines(q))) \div 2
            ELSE 2 * q[LastOf(PartialLines(q))][2]

(* And KBC mode is what the last IsKBCMode line said at which the mode was   *)
(* BULLET.                                                                  *)
FollowsFile(c, q) ==
  FollowsLast(c, q) /\ c.vIsKBCMode = Value(q, KBCLines(q), FALSE)

(* Any lines of the file have a last one. *)
HasLasts(q) ==
  \A S \in SUBSET (1..Len(q)) : S # {} => LastOf(S) \in S /\ \A j \in S : j <= LastOf(S)

FileInv == HasLasts(lines) /\ (phase = "config" => FollowsFile(cfg, lines))

LEMMA FollowsLines == FileInv => ConfigFollowsOrder
  <1>1. ConfigFollowsOrder <=> (phase = "config" => FollowsLast(cfg, lines))
    BY DEF ConfigFollowsOrder, FollowsLast, Value, KeyLines, Mode, Reward, TimeLines,
           MultiOnLines, PartialLines, LinesOf, ValueAt, ModeAt, RewardAt, GetIncorrectAnsPenalty
  <1>. QED
    BY <1>1 DEF FileInv, FollowsFile

(* KBC mode is on by a line where the mode was BULLET; if that line has     *)
(* every QuizMode line before it, the mode there is the mode of the file.   *)
LEMMA KBCByALine == FileInv => KBCNeedsBullet
  <1>. SUFFICES ASSUME FileInv, phase = "config", ModeComesFirst, cfg.vIsKBCMode
                PROVE  cfg.vQuizMode = "BULLET_TIMER_MODE"
    BY DEF KBCNeedsBullet
  <1>. DEFINE modes == KeyLines(lines, "QuizMode")
  <1>1. cfg.vQuizMode = Mode(lines, Len(lines) + 1)
    BY DEF FileInv, FollowsFile, FollowsLast
  <1>2. PICK j \in KBCLines(lines) : TRUE
    <2>1. cfg.vIsKBCMode = Value(lines, KBCLines(lines), FALSE)
      BY Zenon DEF FileInv, FollowsFile
    <2>2. KBCLines(lines) = {} => Value(lines, KBCLines(lines), FALSE) = FALSE
      BY DEF Value
    <2>. QED
      BY <2>1, <2>2, Zenon
  <1>3. Mode(lines, j) = "BULLET_TIMER_MODE" /\ \A i \in modes : i < j
    BY DEF KBCLines, KeyLines, ModeComesFirst, LinesOf
  <1>4. \A i \in modes : i < Len(lines) + 1
    BY DEF KeyLines
  <1>5. Before(modes, j) = modes /\ Before(modes, Len(lines) + 1) = modes
    BY <1>3, <1>4 DEF Before
  <1>6. Mode(lines, j) = Mode(lines, Len(lines) + 1)
    BY <1>5 DEF Mode
  <1>. QED
    BY <1>1, <1>3, <1>6

LEMMA EmptyFile == FollowsFile(Defaults, << >>) /\ HasLasts(<< >>)
  <1>1. Len(<< >>) = 0
    BY EmptySeq
  <1>2. \A k : KeyLines(<< >>, k) = {}
    BY <1>1 DEF KeyLines
  <1>3. \A i : Before({}, i) = {}
    BY DEF Before
  <1>4. \A d : Value(<< >>, {}, d) = d
    BY DEF Value
  <1>5. \A i : Mode(<< >>, i) = "BULLET_TIMER_MODE" /\ Reward(<< >>, i) = 2 * 1
    BY <1>2, <1>3, <1>4 DEF Mode, Reward
  <1>6. TimeLines(<< >>) = {} /\ KBCLines(<< >>) = {} /\ MultiOnLines(<< >>) = {}
        /\ PartialLines(<< >>) = {}
    BY <1>2 DEF TimeLines, KBCLines, MultiOnLines, PartialLines
  <1>7. FollowsFile(Defaults, << >>)
    <2>1. (IF Defaults.vIsNegMarking THEN Defaults.negMarking ELSE 0) = 2 * 0
      BY DEF Defaults
    <2>2. Defaults.posMarking = 2 * 1 /\ Defaults.partialMarking = 2
          /\ Defaults.vQuizMode = "BULLET_TIMER_MODE" /\ Defaults.vTimeAllowed = 15000
          /\ Defaults.vIsKBCMode = FALSE /\ Defaults.vIsSingleUser = TRUE
          /\ Defaults.vIsMultiOptionSelect = FALSE
      BY DEF Defaults
    <2>. HIDE DEF Defaults
    <2>3. \A e : /\ e = Value(<< >>, TimeLines(<< >>), e) /\ e = Value(<< >>, KBCLines(<< >>), e)
                /\ \A k : e = Value(<< >>, KeyLines(<< >>, k), e)
      BY <1>2, <1>4, <1>6
    <2>4. /\ Defaults.vQuizMode = Mode(<< >>, Len(<< >>) + 1)
          /\ Defaults.posMarking = Reward(<< >>, Len(<< >>) + 1)
      BY <1>5, <2>2
    <2>5. (IF Defaults.vIsNegMarking THEN Defaults.negMarking ELSE 0)
            = 2 * Value(<< >>, KeyLines(<< >>, "IncorrectPenalty"), 0)
      BY <2>1, <2>3
    <2>6. Defaults.vTimeAllowed = Value(<< >>, TimeLines(<< >>), 15000)
      BY <2>2, <2>3
    <2>7. Defaults.vIsKBCMode = Value(<< >>, KBCLines(<< >>), FALSE)
      <3>1. Defaults.vIsKBCMode = FALSE
        BY <2>2
      <3>2. \A e : e = Value(<< >>, KBCLines(<< >>), e)
        BY <2>3
      <3>. QED
        BY <3>1, <3>2
    <2>8. Defaults.vIsSingleUser = Value(<< >>, KeyLines(<< >>, "IsSingleUser"), TRUE)
      <3>1. Defaults.vIsSingleUser = TRUE
        BY <2>2
      <3>2. \A e : e = Value(<< >>, KeyLines(<< >>, "IsSingleUser"), e)
        BY <2>3
      <3>. QED
        BY <3>1, <3>2
    <2>9. Defaults.vIsMultiOptionSelect
            = Value(<< >>, KeyLines(<< >>, "IsMultiOptionSelect"), FALSE)
      <3>1. Defaults.vIsMultiOptionSelect = FALSE
        BY <2>2
      <3>2. \A e : e = Value(<< >>, KeyLines(<< >>, "IsMultiOptionSelect"), e)
        BY <2>3
      <3>. QED
        BY <3>1, <3>2
    <2>. QED
      BY <1>6, <2>2, <2>4, <2>5, <2>6, <2>7, <2>8, <2>9 DEF FollowsFile, FollowsLast
  <1>8. HasLasts(<< >>)
    <2>1. 1..Len(<< >>) = {}
      BY <1>1
    <2>. QED
      BY <2>1 DEF HasLasts
  <1>. QED
    BY <1>7, <1>8

LEMMA LastOfNew ==
  ASSUME NEW m \in Nat, NEW S \in SUBSET (1..m)
  PROVE  LastOf(S \cup {m + 1}) = m + 1
  <1>1. \A i \in S \cup {m + 1} : (\A j \in S \cup {m + 1} : j <= i) => i = m + 1
    OBVIOUS
  <1>2. \A j \in S \cup {m + 1} : j <= m + 1
    OBVIOUS
  <1>. QED
    BY <1>1, <1>2 DEF LastOf

Splits(S, m, n) ==
  /\ Before(S, n) = S /\ Before(S, n + 1) = S
  /\ Before(S \cup {n}, n) = S /\ Before(S \cup {n}, n + 1) = S \cup {n}
  /\ \A i \in 1..m : Before(S \cup {n}, i) = Before(S, i)
  /\ \A i : Before(S, i) \in SUBSET (1..m)

LEMMA LinesBefore ==
  ASSUME NEW m \in Nat, NEW S \in SUBSET (1..m), NEW n, n = m + 1
  PROVE  Splits(S, m, n)
  <1>1. \A j \in S : j < n /\ j < n + 1 /\ j \in 1..m
    OBVIOUS
  <1>2. ~(n < n) /\ n < n + 1 /\ \A i \in 1..m : ~(n < i)
    OBVIOUS
  <1>3. Before(S, n) = S /\ Before(S, n + 1) = S
    BY <1>1 DEF Before
  <1>4. Before(S \cup {n}, n) = S
    BY <1>1, <1>2 DEF Before
  <1>5. Before(S \cup {n}, n + 1) = S \cup {n}
    BY <1>1, <1>2 DEF Before
  <1>6. \A i \in 1..m : Before(S \cup {n}, i) = Before(S, i)
    BY <1>2 DEF Before
  <1>7. \A i : Before(S, i) \in SUBSET (1..m)
    BY <1>1 DEF Before
  <1>. QED
    BY <1>3, <1>4, <1>5, <1>6, <1>7 DEF Splits

(* A file q that grows by one line l: the lines of each kind, what they     *)
(* say, and the mode and the reward at each line.                           *)
OneMore(p, q, l, n) ==
  /\ Len(p) = n /\ p[n] = l /\ HasLasts(p)
  /\ \A i \in 1..Len(q) : p[i] = q[i]
  /\ \A k : KeyLines(q, k) \in SUBSET (1..Len(q))
  /\ \A k : KeyLines(p, k) = IF l[1] = k THEN KeyLines(q, k) \cup {n} ELSE KeyLines(q, k)
  /\ \A S \in SUBSET (1..Len(q)) :
       \A d : Value(p, S, d) = Value(q, S, d) /\ Value(p, S \cup {n}, d) = l[2]
  /\ \A i \in 1..n : Mode(p, i) = Mode(q, i) /\ Reward(p, i) = Reward(q, i)
  /\ Mode(p, n + 1) = IF l[1] = "QuizMode" THEN l[2] ELSE Mode(q, n)
  /\ Reward(p, n + 1) = IF l[1] = "CorrectScore" THEN 2 * l[2] ELSE Reward(q, n)

LEMMA OneMoreLine ==
  ASSUME NEW q \in Seq(Lines), HasLasts(q), NEW l \in Lines,
         NEW n, n = Len(q) + 1, NEW p, p = Append(q, l)
  PROVE  OneMore(p, q, l, n)
  <1>1. Len(q) \in Nat /\ n \in Nat /\ 1..n = (1..Len(q)) \cup {n} /\ n \notin 1..Len(q)
    OBVIOUS
  <1>2. Len(p) = n /\ p[n] = l /\ \A i \in 1..Len(q) : p[i] = q[i]
    OBVIOUS
  <1>3. \A S \in SUBSET (1..Len(q)) : LastOf(S \cup {n}) = n
    BY <1>1, LastOfNew
  <1>4. HasLasts(p)
    <2>. SUFFICES ASSUME NEW S \in SUBSET (1..n), S # {}
                  PROVE  LastOf(S) \in S /\ \A j \in S : j <= LastOf(S)
      BY <1>2 DEF HasLasts
    <2>1. CASE n \in S
      <3>1. (S \ {n}) \in SUBSET (1..Len(q)) /\ (S \ {n}) \cup {n} = S
        BY <1>1, <2>1
      <3>2. LastOf(S) = n
        BY <1>3, <3>1
      <3>. QED
        BY <1>1, <2>1, <3>2
    <2>2. CASE n \notin S
      BY <1>1, <2>2 DEF HasLasts
    <2>. QED
      BY <2>1, <2>2
  <1>5. \A k : KeyLines(q, k) \in SUBSET (1..Len(q))
    BY DEF KeyLines
  <1>6. \A k : KeyLines(p, k) = IF l[1] = k THEN KeyLines(q, k) \cup {n} ELSE KeyLines(q, k)
    BY <1>1, <1>2 DEF KeyLines
  <1>7. \A S \in SUBSET (1..Len(q)) : \A d : Value(p, S, d) = Value(q, S, d)
    BY <1>2 DEF Value, HasLasts
  <1>8. \A S \in SUBSET (1..Len(q)) : \A d : Value(p, S \cup {n}, d) = l[2]
    BY <1>2, <1>3 DEF Value
  <1>9. ASSUME NEW k, NEW d
        PROVE  /\ \A i \in 1..n :
                    Value(p, Before(KeyLines(p, k), i), d) = Value(q, Before(KeyLines(q, k), i), d)
               /\ Value(p, Before(KeyLines(p, k), n + 1), d) =
                    IF l[1] = k THEN l[2] ELSE Value(q, Before(KeyLines(q, k), n), d)
    <2>. DEFINE S == KeyLines(q, k)
    <2>1. S \in SUBSET (1..Len(q))
      BY <1>5
    <2>2. KeyLines(p, k) = IF l[1] = k THEN S \cup {n} ELSE S
      BY <1>6
    <2>. HIDE DEF S
    <2>3. /\ Before(S, n) = S /\ Before(S, n + 1) = S
          /\ Before(S \cup {n}, n) = S /\ Before(S \cup {n}, n + 1) = S \cup {n}
          /\ \A i \in 1..Len(q) : Before(S \cup {n}, i) = Before(S, i)
          /\ \A i : Before(S, i) \in SUBSET (1..Len(q))
      <3>1. Splits(S, Len(q), n)
        BY <1>1, <2>1, LinesBefore
      <3>. QED
        BY <3>1 DEF Splits
    <2>4. \A i \in 1..n : Before(KeyLines(p, k), i) = Before(S, i)
      BY <1>1, <2>2, <2>3
    <2>5. Before(KeyLines(p, k), n + 1) = IF l[1] = k THEN S \cup {n} ELSE S
      BY <2>2, <2>3
    <2>6. \A i \in 1..n : Value(p, Before(KeyLines(p, k), i), d) = Value(q, Before(S, i), d)
      BY <1>7, <2>3, <2>4
    <2>7. Value(p, Before(KeyLines(p, k), n + 1), d) =
            IF l[1] = k THEN l[2] ELSE Value(q, Before(S, n), d)
      BY <1>7, <1>8, <2>1, <2>3, <2>5
    <2>. QED
      BY <2>6, <2>7 DEF S
  <1>10. /\ \A i \in 1..n : Mode(p, i) = Mode(q, i)
         /\ Mode(p, n + 1) = IF l[1] = "QuizMode" THEN l[2] ELSE Mode(q, n)
    BY <1>9 DEF Mode
  <1>11. /\ \A i \in 1..n : Reward(p, i) = Reward(q, i)
         /\ Reward(p, n + 1) = IF l[1] = "CorrectScore" THEN 2 * l[2] ELSE Reward(q, n)
    BY <1>9 DEF Reward
  <1>. QED
    BY <1>1, <1>2, <1>4, <1>5, <1>6, <1>7, <1>8, <1>10, <1>11 DEF OneMore

LEMMA ParserFollows ==
  ASSUME NEW c \in Settings, NEW q \in Seq(Lines), HasLasts(q), FollowsFile(c, q),
         NEW l \in Lines, NEW p, p = Append(q, l)
  PROVE  FollowsFile(Parser(c, l[1], l[2]), p) /\ HasLasts(p)
  <1>. DEFINE n == Len(q) + 1
              d == Parser(c, l[1], l[2])
  <1>1. n = Len(q) + 1 /\ n \in Nat /\ n \notin 1..Len(q) /\ n \in 1..n
        /\ Len(q) \in Nat /\ \A i \in 1..Len(q) : i \in 1..n
    OBVIOUS
  <1>. HIDE DEF n
  <1>2. OneMore(p, q, l, n)
    BY <1>1, OneMoreLine
  <1>3. /\ Len(p) = n /\ p[n] = l /\ HasLasts(p)
        /\ \A i \in 1..Len(q) : p[i] = q[i]
        /\ \A k : KeyLines(q, k) \in SUBSET (1..Len(q))
        /\ \A k : KeyLines(p, k) = IF l[1] = k THEN KeyLines(q, k) \cup {n} ELSE KeyLines(q, k)
        /\ \A i \in 1..n : Mode(p, i) = Mode(q, i) /\ Reward(p, i) = Reward(q, i)
        /\ Mode(p, n + 1) = IF l[1] = "QuizMode" THEN l[2] ELSE Mode(q, n)
        /\ Reward(p, n + 1) = IF l[1] = "CorrectScore" THEN 2 * l[2] ELSE Reward(q, n)
    BY <1>2 DEF OneMore
  <1>4. /\ c.vQuizMode = Mode(q, n) /\ c.posMarking = Reward(q, n)
        /\ (IF c.vIsNegMarking THEN c.negMarking ELSE 0)
             = 2 * Value(q, KeyLines(q, "IncorrectPenalty"), 0)
        /\ c.vTimeAllowed = Value(q, TimeLines(q), 15000)
        /\ c.vIsKBCMode = Value(q, KBCLines(q), FALSE)
        /\ c.vIsSingleUser = Value(q, KeyLines(q, "IsSingleUser"), TRUE)
        /\ c.vIsMultiOptionSelect = Value(q, KeyLines(q, "IsMultiOptionSelect"), FALSE)
        /\ c.partialMarking =
             IF PartialLines(q) = {} THEN 2
             ELSE IF LastOf(PartialLines(q)) \in MultiOnLines(q)
                  THEN Reward(q, LastOf(PartialLines(q))) \div 2
                  ELSE 2 * q[LastOf(PartialLines(q))][2]
    BY <1>1 DEF FollowsFile, FollowsLast
  <1>5. \/ l[1] = "refused"
        \/ l[1] \in ScoreKeys /\ l[2] \in Int
        \/ l[1] = "QuizMode" /\ l[2] \in QuizModes
        \/ l[1] = "TimeAllowed" /\ l[2] \in Int
        \/ l[1] \in FlagKeys /\ l[2] \in BOOLEAN
    BY QuizConfigAssumption
  <1>6. d.vQuizMode = (IF l[1] = "QuizMode" THEN l[2] ELSE c.vQuizMode)
    BY DEF Parser, SetMulti, SetKBC, SetTime, Settings
  <1>7. d.posMarking = (IF l[1] = "CorrectScore" THEN 2 * l[2] ELSE c.posMarking)
    BY DEF Parser, SetMulti, SetKBC, SetTime, Settings
  <1>8. (IF d.vIsNegMarking THEN d.negMarking ELSE 0) =
          (IF l[1] = "IncorrectPenalty" THEN 2 * l[2]
           ELSE IF c.vIsNegMarking THEN c.negMarking ELSE 0)
    BY DEF Parser, SetMulti, SetKBC, SetTime, Settings
  <1>9. d.vTimeAllowed = (IF l[1] = "TimeAllowed" /\ l[2] \in 1..MaxTimeAllowed
                          THEN l[2] ELSE c.vTimeAllowed)
    BY DEF Parser, SetMulti, SetKBC, SetTime, Settings
  <1>10. d.vIsKBCMode = (IF l[1] = "IsKBCMode" /\ c.vQuizMode = "BULLET_TIMER_MODE"
                        THEN l[2] ELSE c.vIsKBCMode)
    BY DEF Parser, SetMulti, SetKBC, SetTime, Settings
  <1>11. d.vIsSingleUser = (IF l[1] = "IsSingleUser" THEN l[2] ELSE c.vIsSingleUser)
    BY DEF Parser, SetMulti, SetKBC, SetTime, Settings
  <1>12. d.vIsMultiOptionSelect =
           (IF l[1] = "IsMultiOptionSelect" THEN l[2] ELSE c.vIsMultiOptionSelect)
    BY <1>5 DEF Parser, SetMulti, SetKBC, SetTime, Settings, ScoreKeys
  <1>13. d.partialMarking =
           (IF l[1] = "PartialScore" THEN 2 * l[2]
            ELSE IF l[1] = "IsMultiOptionSelect" /\ l[2] THEN c.posMarking \div 2
            ELSE c.partialMarking)
    BY DEF Parser, SetMulti, SetKBC, SetTime, Settings
  <1>. HIDE DEF d
  <1>14. TimeLines(p) = IF l[1] = "TimeAllowed" /\ l[2] \in 1..MaxTimeAllowed
                        THEN TimeLines(q) \cup {n} ELSE TimeLines(q)
    BY <1>3, <1>1 DEF TimeLines
  <1>15. KBCLines(p) = IF l[1] = "IsKBCMode" /\ Mode(q, n) = "BULLET_TIMER_MODE"
                       THEN KBCLines(q) \cup {n} ELSE KBCLines(q)
    BY <1>3, <1>1 DEF KBCLines
  <1>16. MultiOnLines(p) = IF l[1] = "IsMultiOptionSelect" /\ l[2]
                           THEN MultiOnLines(q) \cup {n} ELSE MultiOnLines(q)
    BY <1>3, <1>1 DEF MultiOnLines
  <1>17. /\ TimeLines(q) \in SUBSET (1..Len(q)) /\ KBCLines(q) \in SUBSET (1..Len(q))
         /\ MultiOnLines(q) \in SUBSET (1..Len(q)) /\ PartialLines(q) \in SUBSET (1..Len(q))
    BY <1>3 DEF TimeLines, KBCLines, MultiOnLines, PartialLines
  <1>18. d.vQuizMode = Mode(p, n + 1) /\ d.posMarking = Reward(p, n + 1)
    BY <1>3, <1>4, <1>6, <1>7
  <1>19. \A S \in SUBSET (1..Len(q)) : \A e :
            Value(p, S, e) = Value(q, S, e) /\ Value(p, S \cup {n}, e) = l[2]
    BY <1>2 DEF OneMore
  <1>20. \A k, e : Value(p, KeyLines(p, k), e) =
                      IF l[1] = k THEN l[2] ELSE Value(q, KeyLines(q, k), e)
    <2>. SUFFICES ASSUME NEW k, NEW e
                  PROVE  Value(p, KeyLines(p, k), e) =
                           IF l[1] = k THEN l[2] ELSE Value(q, KeyLines(q, k), e)
      OBVIOUS
    <2>1. KeyLines(q, k) \in SUBSET (1..Len(q))
          /\ KeyLines(p, k) = IF l[1] = k THEN KeyLines(q, k) \cup {n} ELSE KeyLines(q, k)
      BY <1>3
    <2>. QED
      BY <1>19, <2>1
  <1>21. /\ (IF d.vIsNegMarking THEN d.negMarking ELSE 0)
              = 2 * Value(p, KeyLines(p, "IncorrectPenalty"), 0)
         /\ d.vIsSingleUser = Value(p, KeyLines(p, "IsSingleUser"), TRUE)
         /\ d.vIsMultiOptionSelect = Value(p, KeyLines(p, "IsMultiOptionSelect"), FALSE)
    <2>1. (IF d.vIsNegMarking THEN d.negMarking ELSE 0)
            = 2 * Value(p, KeyLines(p, "IncorrectPenalty"), 0)
      BY <1>4, <1>8, <1>20
    <2>2. \A e : c.vIsSingleUser = Value(q, KeyLines(q, "IsSingleUser"), e)
                  => d.vIsSingleUser = Value(p, KeyLines(p, "IsSingleUser"), e)
      BY <1>11, <1>20
    <2>3. \A e : c.vIsMultiOptionSelect = Value(q, KeyLines(q, "IsMultiOptionSelect"), e)
                  => d.vIsMultiOptionSelect = Value(p, KeyLines(p, "IsMultiOptionSelect"), e)
      BY <1>12, <1>20
    <2>4. d.vIsSingleUser = Value(p, KeyLines(p, "IsSingleUser"), TRUE)
      <3>1. c.vIsSingleUser = Value(q, KeyLines(q, "IsSingleUser"), TRUE)
        BY <1>4
      <3>. QED
        BY <3>1, <2>2
    <2>5. d.vIsMultiOptionSelect = Value(p, KeyLines(p, "IsMultiOptionSelect"), FALSE)
      <3>1. c.vIsMultiOptionSelect = Value(q, KeyLines(q, "IsMultiOptionSelect"), FALSE)
        BY <1>4
      <3>. QED
        BY <3>1, <2>3
    <2>. QED
      BY <2>1, <2>4, <2>5
  <1>22. d.vTimeAllowed = Value(p, TimeLines(p), 15000)
    <2>1. \A e : c.vTimeAllowed = Value(q, TimeLines(q), e)
                  => d.vTimeAllowed = Value(p, TimeLines(p), e)
      <3>1. CASE l[1] = "TimeAllowed" /\ l[2] \in 1..MaxTimeAllowed
        <4>1. d.vTimeAllowed = l[2] /\ TimeLines(p) = TimeLines(q) \cup {n}
          BY <1>9, <1>14, <3>1
        <4>. QED
          BY <1>17, <1>19, <4>1
      <3>2. CASE ~(l[1] = "TimeAllowed" /\ l[2] \in 1..MaxTimeAllowed)
        <4>1. d.vTimeAllowed = c.vTimeAllowed /\ TimeLines(p) = TimeLines(q)
          BY <1>9, <1>14, <3>2
        <4>. QED
          BY <1>17, <1>19, <4>1
      <3>. QED
        BY <3>1, <3>2
    <2>. QED
      BY <1>4, <2>1
  <1>23. d.vIsKBCMode = Value(p, KBCLines(p), FALSE)
    <2>1. c.vQuizMode = Mode(q, n)
      BY <1>4
    <2>2. \A e : c.vIsKBCMode = Value(q, KBCLines(q), e)
                  => d.vIsKBCMode = Value(p, KBCLines(p), e)
      BY <1>10, <1>15, <1>17, <1>19, <2>1
    <2>3. c.vIsKBCMode = Value(q, KBCLines(q), FALSE)
      BY <1>4
    <2>. QED
      BY <2>2, <2>3
  <1>24. d.partialMarking =
           IF PartialLines(p) = {} THEN 2
           ELSE IF LastOf(PartialLines(p)) \in MultiOnLines(p)
                THEN Reward(p, LastOf(PartialLines(p))) \div 2
                ELSE 2 * p[LastOf(PartialLines(p))][2]
    <2>1. CASE l[1] = "PartialScore" \/ (l[1] = "IsMultiOptionSelect" /\ l[2])
      <3>1. PartialLines(p) = PartialLines(q) \cup {n}
        BY <1>3, <1>16, <2>1 DEF PartialLines
      <3>2. LastOf(PartialLines(p)) = n
        BY <1>1, <1>17, <3>1, LastOfNew DEF n
      <3>3. n \in MultiOnLines(p) <=> l[1] # "PartialScore"
        BY <1>1, <1>16, <1>17, <2>1
      <3>. QED
        BY <1>3, <1>1, <1>4, <1>13, <2>1, <3>1, <3>2, <3>3
    <2>2. CASE ~(l[1] = "PartialScore" \/ (l[1] = "IsMultiOptionSelect" /\ l[2]))
      <3>1. PartialLines(p) = PartialLines(q) /\ MultiOnLines(p) = MultiOnLines(q)
        BY <1>3, <1>16, <2>2 DEF PartialLines
      <3>2. PartialLines(q) # {} => LastOf(PartialLines(q)) \in 1..Len(q)
        BY <1>17 DEF HasLasts
      <3>. QED
        BY <1>3, <1>1, <1>4, <1>13, <2>2, <3>1, <3>2
    <2>. QED
      BY <2>1, <2>2
  <1>. QED
    BY <1>3, <1>18, <1>21, <1>24, <1>22, <1>23 DEF FollowsFile, FollowsLast, d

LEMMA FileStep == FileInv /\ TypeOK /\ [Next]_vars => FileInv'
  <1>. SUFFICES ASSUME FileInv, TypeOK, Next \/ UNCHANGED vars PROVE FileInv'
    OBVIOUS
  <1>1. CASE ReadLine
    <2>1. PICK l \in Lines : cfg' = Parser(cfg, l[1], l[2]) /\ lines' = Append(lines, l)
      BY <1>1 DEF ReadLine, ParseLine
    <2>2. FollowsFile(cfg, lines) /\ phase = "config" /\ HasLasts(lines)
      BY <1>1 DEF ReadLine, FileInv
    <2>3. FollowsFile(cfg', lines') /\ HasLasts(lines')
      BY <2>1, <2>2, ParserFollows DEF TypeOK, ConfigTypeOK
    <2>. QED
      BY <2>3 DEF FileInv
  <1>2. CASE ConfigLoaded
    <2>1. phase' # "config" /\ lines' = << >>
      BY <1>2 DEF ConfigLoaded
    <2>. QED
      BY <2>1, EmptyFile DEF FileInv
  <1>3. CASE LoadRow \/ BankLoaded \/ EditBank
             \/ \E r \in Readers : AcceptId(r) \/ FetchQuestion(r) \/ ReplySent(r)
    <2>1. phase' # "config" /\ lines' = lines
      BY <1>3 DEF LoadRow, BankLoaded, EditBank, AcceptId, FetchQuestion, ReplySent, configVars
    <2>. QED
      BY <2>1 DEF FileInv
  <1>4. CASE UNCHANGED vars
    <2>1. UNCHANGED <<phase, cfg, lines>>
      BY <1>4 DEF vars, configVars, setupVars
    <2>. QED
      BY <2>1 DEF FileInv
  <1>. QED
    BY <1>1, <1>2, <1>3, <1>4 DEF Next

LEMMA FileInvariant == Spec => []FileInv
  <1>1. Init => FileInv
    BY EmptyFile DEF Init, ConfigInit, FileInv
  <1>2. IInv => TypeOK
    BY DEF IInv
  <1>. QED
    BY <1>1, <1>2, FileStep, Invariance, PTL DEF Spec

(* Each setting is decided by the last accepted line of its key, except for *)
(* the partial score, which may also come from the reward at the line that  *)
(* allows several options.                                                  *)
THEOREM OrderDecides == Spec => []ConfigFollowsOrder
  BY FollowsLines, FileInvariant, PTL

(* A file that gives the mode of the quiz before it asks for KBC mode never *)
(* combines KBC mode with a time-bound quiz.                                *)
THEOREM KBCOnlyInBullet == Spec => []KBCNeedsBullet
  BY KBCByALine, FileInvariant, PTL
=============================================================================

------------------------------ MODULE QuizSetup ------------------------------
(***************************************************************************)
(* The server program from main() on: the configuration is loaded, then    *)
(* the questions, then requests are served that read the bank.  It         *)
(* composes QuizConfig and QuestionBank with MakeQuestionFromExcelRow, the *)
(* loading loop of QuizMgr and the part of HandleFetchQuestion that takes  *)
(* a question out of the bank.                                             *)
(*                                                                         *)
(* A row of the sheet is what the conversion distinguishes: whether every  *)
(* field is there, whether the number parses, and the option index each    *)
(* token of the last cell stands for (-1 for a token that is none).        *)
(* HostEdits: whether the bank is edited while the server runs, through    *)
(* its public operations.  No shipped program does.                        *)
(***************************************************************************)
EXTENDS QuestionBank, QuizConfig

CONSTANTS
  Rows,       \* the rows a sheet may contain
  MaxRows,    \* bound on their number
  HostEdits

Options == 0..3

ASSUME QuizSetupAssumption ==
  /\ Rows \subseteq [complete : BOOLEAN, numbered : BOOLEAN, tokens : SUBSET Int]
  /\ MaxRows \in Nat
  /\ HostEdits \in BOOLEAN

VARIABLES
  phase,    \* how far main() has come
  asked,    \* the id each reader has accepted (0: none)
  sheet,    \* history: the rows read so far, until the bank is edited
  edited    \* history: has the bank been edited since?

setupVars == <<phase, asked, sheet, edited>>
vars == <<bankVars, configVars, setupVars>>

(* config, bank   loading          serving   StartServer runs               *)
(* failed         main() returned  crashed   a null question dereferenced   *)
Phases == {"config", "bank", "serving", "failed", "crashed"}

(* Bank, settings and program are of their types. *)
TypeOK ==
  /\ BankTypeOK /\ ConfigTypeOK
  /\ phase \in Phases
  /\ asked \in [Readers -> Nat]
  /\ sheet \in Seq(Rows)
  /\ edited \in BOOLEAN

Init ==
  /\ BankInit /\ ConfigInit
  /\ phase = "config"
  /\ asked = [r \in Readers |-> 0]
  /\ sheet = << >>
  /\ edited = FALSE

-----------------------------------------------------------------------------
(* InitializeQuizConfigs. *)

ReadLine ==
  /\ phase = "config"
  /\ ParseLine
  /\ UNCHANGED <<bankVars, setupVars>>

(* The end of the file, or the file cannot be opened: the only failure that *)
(* LoadConfigFromFile knows, and it comes before the first line.            *)
ConfigLoaded ==
  /\ phase = "config"
  /\ \/ phase' = "bank"
     \/ lines = << >> /\ phase' = "failed"
  /\ lines' = << >>
  /\ UNCHANGED <<bankVars, cfg, asked, sheet, edited>>

-----------------------------------------------------------------------------
(* InitializeQuestionBank. *)

(* Mutant: the range of an option is not tested. *)
MakesQuestionUnchecked(row) == row.complete /\ row.numbered

(* MakeQuestionFromExcelRow returns a question: the others return null or   *)
(* throw, which the caller treats alike.                                    *)
MakesQuestion(row) == row.complete /\ row.numbered /\ row.tokens \subseteq Options

(* The first bad row, or a question the bank does not take, ends main().    *)
LoadRow ==
  /\ phase = "bank" /\ Len(sheet) < MaxRows
  /\ \E row \in Rows :
       /\ sheet' = Append(sheet, row)
       /\ IF MakesQuestion(row)
          THEN \E o \in Objs : AddQuestionToBank(o, row.tokens)
          ELSE UNCHANGED bankVars
       /\ phase' = IF MakesQuestion(row) /\ NewId \notin Ids THEN phase ELSE "failed"
  /\ UNCHANGED <<configVars, asked, edited>>

(* The last row has been read and the port opened; or the workbook, or the  *)
(* port, throws.                                                            *)
BankLoaded ==
  /\ phase = "bank"
  /\ phase' \in {"serving", "failed"}
  /\ UNCHANGED <<bankVars, configVars, asked, sheet, edited>>

-----------------------------------------------------------------------------
(* HandleFetchQuestion: the id is compared with TotalQuestionCount, without *)
(* the mutex, and GetQuestionById looks it up under it, later.              *)

(* Mutant: one id too many. *)
ValidIdsAndNext == 1..(TotalQuestionCount + 1)

ValidIds == 1..TotalQuestionCount

AcceptId(r) ==
  /\ phase = "serving" /\ asked[r] = 0
  /\ \E id \in ValidIds : asked' = [asked EXCEPT ![r] = id]
  /\ UNCHANGED <<bankVars, configVars, phase, sheet, edited>>

(* The result is dereferenced at once. *)
FetchQuestion(r) ==
  /\ phase = "serving" /\ asked[r] # 0 /\ held[r] = NoObj
  /\ GetQuestionById(r, asked[r])
  /\ phase' = IF asked[r] \in Ids THEN phase ELSE "crashed"
  /\ UNCHANGED <<configVars, asked, sheet, edited>>

ReplySent(r) ==
  /\ phase = "serving" /\ held[r] # NoObj
  /\ Release(r)
  /\ asked' = [asked EXCEPT ![r] = 0]
  /\ UNCHANGED <<configVars, phase, sheet, edited>>

(* The operations that change the bank, used while the server runs.         *)
EditBank ==
  /\ HostEdits /\ phase = "serving"
  /\ \/ \E o \in Objs, row \in Rows :
          /\ MakesQuestion(row)
          /\ \/ AddQuestionToBank(o, row.tokens)
             \/ \E id \in Ids : UpdateQuestionById(id, o, row.tokens)
     \/ \E id \in Ids : RemoveQuestionById(id)
     \/ ResetQuestionBank
  /\ edited' = TRUE /\ sheet' = << >>
  /\ UNCHANGED <<configVars, phase, asked>>

Next ==
  \/ ReadLine \/ ConfigLoaded \/ LoadRow \/ BankLoaded \/ EditBank
  \/ \E r \in Readers : AcceptId(r) \/ FetchQuestion(r) \/ ReplySent(r)

Spec == Init /\ [][Next]_vars

-----------------------------------------------------------------------------
(* A server that serves has every row of the sheet, in order, under the ids *)
(* 1, 2, ...: the question that a client asks for by number is graded by    *)
(* the key of that row, and the key names options that exist.  It never     *)
(* serves the first half of a sheet.  (QuizServer assumes this.)            *)
ServingIsReady ==
  phase = "serving" /\ ~edited =>
    /\ Ids = 1..Len(sheet)
    /\ \A i \in Ids : /\ questionID[quesmap[i]] = i
                      /\ GetCorrectOptionsById(i) = sheet[i].tokens
                      /\ GetCorrectOptionsById(i) \subseteq Options

(* While a handler reads a question, the bank has that very question under  *)
(* the id the client asked for: it is not replaced, removed, or confused by *)
(* the edits of others.  Only a reset takes it from the bank.               *)
HeldStays ==
  \A r \in Readers :
    held[r] \notin {NoObj} \cup orphans =>
      /\ asked[r] \in Ids /\ quesmap[asked[r]] = held[r]
      /\ questionID[held[r]] = asked[r]

(* The range test of the id is enough to dereference what the bank returns, *)
(* unless a question has ever been taken out of the bank.                   *)
AcceptedIdIsFound == phase = "crashed" => removed

(* The settings depend on the order of the lines exactly so: the last       *)
(* accepted line of a key decides, except that IsMultiOptionSelect also     *)
(* sets the partial score, from the reward at that point of the file.       *)
LinesOf(key) == {i \in 1..Len(lines) : lines[i][1] = key}
LastOf(S) == CHOOSE i \in S : \A j \in S : j <= i
ValueAt(S, default) == IF S = {} THEN default ELSE lines[LastOf(S)][2]
Before(S, i) == {j \in S : j < i}

ModeAt(i)   == ValueAt(Before(LinesOf("QuizMode"), i), "BULLET_TIMER_MODE")
RewardAt(i) == 2 * ValueAt(Before(LinesOf("CorrectScore"), i), 1)

ConfigFollowsOrder ==
  LET end      == Len(lines) + 1
      penalty  == LinesOf("IncorrectPenalty")
      times    == {i \in LinesOf("TimeAllowed") : lines[i][2] \in 1..MaxTimeAllowed}
      multi    == LinesOf("IsMultiOptionSelect")
      multiOn  == {i \in multi : lines[i][2]}
      partial  == LinesOf("PartialScore") \cup multiOn
  IN  phase = "config" =>
        /\ cfg.vQuizMode = ModeAt(end)
        /\ cfg.posMarking = RewardAt(end)
        /\ GetIncorrectAnsPenalty = 2 * ValueAt(penalty, 0)
        /\ cfg.vTimeAllowed = ValueAt(times, 15000)
        /\ cfg.vIsSingleUser = ValueAt(LinesOf("IsSingleUser"), TRUE)
        /\ cfg.vIsMultiOptionSelect = ValueAt(multi, FALSE)
        /\ cfg.partialMarking =
             IF partial = {} THEN 2
             ELSE IF LastOf(partial) \in multiOn THEN RewardAt(LastOf(partial)) \div 2
             ELSE 2 * lines[LastOf(partial)][2]

(* "KBC Mode should not be allowed with TIMERBOUND quiz" (QuizConfig.h): it *)
(* is not, in a file that gives the mode of the quiz first.  Only then: the *)
(* parser compares an IsKBCMode line with the mode at that line, and a      *)
(* QuizMode line below it changes the mode and leaves KBC mode on.          *)
ModeComesFirst == \A i \in LinesOf("QuizMode"), j \in LinesOf("IsKBCMode") : i < j

KBCNeedsBullet ==
  phase = "config" /\ ModeComesFirst /\ cfg.vIsKBCMode
    => cfg.vQuizMode = "BULLET_TIMER_MODE"
=============================================================================

----------------------------- MODULE QuizConfig -----------------------------
(***************************************************************************)
(* QuizConfig: the settings, and the parser that ini_parse calls once for  *)
(* each line of quiz_config.ini.                                           *)
(*                                                                         *)
(* A line is <<key, value>>.  A line with an unknown section or key, or a  *)
(* value that does not parse, is <<"refused", 0>>: the parser returns 0    *)
(* and ini_parse goes on to the next line.  Scores are counted in half     *)
(* points.                                                                 *)
(***************************************************************************)
EXTENDS Integers, Sequences

CONSTANTS
  Lines,     \* the lines a file may contain
  MaxLines   \* bound on the length of the file

VARIABLES
  cfg,       \* the QuizConfig singleton
  lines      \* history: the lines read so far, while the file is read

configVars == <<cfg, lines>>

QuizModes == {"BULLET_TIMER_MODE", "TIME_BOUND_MODE", "STRICT_TIME_BOUND_MODE"}
MaxTimeAllowed == 43200

ScoreKeys == {"CorrectScore", "IncorrectPenalty", "PartialScore"}
FlagKeys  == {"IsSingleUser", "IsMultiOptionSelect", "IsKBCMode"}

ASSUME QuizConfigAssumption ==
  /\ MaxLines \in Nat
  /\ \A line \in Lines :
       \/ line[1] = "refused"
       \/ line[1] \in ScoreKeys /\ line[2] \in Int
       \/ line[1] = "QuizMode" /\ line[2] \in QuizModes
       \/ line[1] = "TimeAllowed" /\ line[2] \in Int
       \/ line[1] \in FlagKeys /\ line[2] \in BOOLEAN

(* vTimeAllowed is a union of two members of one type: one field.           *)
Settings ==
  [ vQuizMode : QuizModes,
    vIsSingleUser : BOOLEAN, vIsMultiOptionSelect : BOOLEAN, vIsKBCMode : BOOLEAN,
    vIsNegMarking : BOOLEAN, negMarking : Int, posMarking : Int, partialMarking : Int,
    vTimeAllowed : Nat \ {0} ]

Defaults ==
  [ vQuizMode |-> "BULLET_TIMER_MODE",
    vIsSingleUser |-> TRUE, vIsMultiOptionSelect |-> FALSE, vIsKBCMode |-> FALSE,
    vIsNegMarking |-> FALSE, negMarking |-> 0, posMarking |-> 2, partialMarking |-> 2,
    vTimeAllowed |-> 15000 ]

ConfigTypeOK == cfg \in Settings /\ lines \in Seq(Lines)

ConfigInit == cfg = Defaults /\ lines = << >>

-----------------------------------------------------------------------------
(* Mutant: the partial score is halved whatever the flag. *)
SetMultiAlways(c, flag) ==
  [c EXCEPT !.vIsMultiOptionSelect = flag, !.partialMarking = c.posMarking \div 2]

SetMulti(c, flag) ==
  IF flag
  THEN [c EXCEPT !.vIsMultiOptionSelect = TRUE, !.partialMarking = c.posMarking \div 2]
  ELSE [c EXCEPT !.vIsMultiOptionSelect = FALSE]

(* Mutant: the mode is not looked at. *)
SetKBCInAnyMode(c, flag) == [c EXCEPT !.vIsKBCMode = flag]

SetKBC(c, flag) ==
  IF c.vQuizMode = "BULLET_TIMER_MODE" THEN [c EXCEPT !.vIsKBCMode = flag] ELSE c

SetTime(c, secs) ==
  IF secs \in 1..MaxTimeAllowed THEN [c EXCEPT !.vTimeAllowed = secs] ELSE c

(* Parser: the settings after one more line. *)
Parser(c, key, value) ==
  IF key = "CorrectScore" THEN [c EXCEPT !.posMarking = 2 * value]
  ELSE IF key = "IncorrectPenalty"
  THEN [c EXCEPT !.negMarking = 2 * value, !.vIsNegMarking = TRUE]
  ELSE IF key = "PartialScore" THEN [c EXCEPT !.partialMarking = 2 * value]
  ELSE IF key = "QuizMode" THEN [c EXCEPT !.vQuizMode = value]
  ELSE IF key = "TimeAllowed" THEN SetTime(c, value)
  ELSE IF key = "IsSingleUser" THEN [c EXCEPT !.vIsSingleUser = value]
  ELSE IF key = "IsMultiOptionSelect" THEN SetMulti(c, value)
  ELSE IF key = "IsKBCMode" THEN SetKBC(c, value)
  ELSE c

GetIncorrectAnsPenalty == IF cfg.vIsNegMarking THEN cfg.negMarking ELSE 0

(* ini_parse reads one more line and calls the parser with it.              *)
ParseLine ==
  /\ Len(lines) < MaxLines
  /\ \E line \in Lines :
       /\ cfg' = Parser(cfg, line[1], line[2])
       /\ lines' = Append(lines, line)
=============================================================================

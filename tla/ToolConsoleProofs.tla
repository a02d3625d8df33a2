--------------------------- MODULE ToolConsoleProofs ---------------------------
(* Proofs about ToolConsole for every max_attempts and any number of commands.  *)
EXTENDS ToolConsole, TLAPS

(* What the program may still be told, or has been.                           *)
News == {answer, response, printed} \cup {toHost[i] : i \in DOMAIN toHost}

StopDone == Tool!AnswerTo("STOP", "OK")
FaultResults == {"FAULT", "REJECTED_FAULT", "REJECTED_SENSOR_CONFLICT"}

(* A piece of news about the command is true of the tool.                      *)
TrueOf(a) ==
    /\ a.cmd \in {"NONE", "CORRUPT", command}
    /\ command = "STOP" /\ a = StopDone => granted = "NONE" /\ driven = {}
    /\ a.result \in FaultResults => faulty /\ command \notin {"STOP", "RESET_FAULT"}

(* Unless an earlier command was given up, everything under way belongs to this  *)
(* one, and all that is told of it is true.                                    *)
OwnOnly ==
    ~doubt =>
        /\ \A i \in DOMAIN toTool : toTool[i] = command
        /\ held \in {"NONE", command}
        /\ \A a \in News : TrueOf(a)

(* How much is under way between the program and the tool.                     *)
Attended  == IF held = "NONE" THEN 0 ELSE 1
Answered  == IF answer = Tool!NoAnswer THEN 0 ELSE 1
UnderWay  == Len(toTool) + Len(toHost) + Attended + Answered

(* Before anything has been given up only the command awaited is.               *)
OneAtATime == ~doubt /\ ~givenUp => UnderWay <= IF phase = "await" THEN 1 ELSE 0

ResponseLooked == phase # "print" => response = Tool!NoAnswer

ConsoleInv == TypeOK /\ OwnOnly /\ OneAtATime /\ ResponseLooked

-----------------------------------------------------------------------------
(* Lemmas on sequences.                                                       *)

(* What is left of a queue when its head is taken.                             *)
LEMMA TakenOff ==
    ASSUME NEW A, NEW s \in Seq(A), s # <<>>
    PROVE  /\ Head(s) \in A /\ Tail(s) \in Seq(A)
           /\ Len(s) \in Nat /\ Len(s) > 0 /\ Len(Tail(s)) = Len(s) - 1
           /\ Head(s) = s[1] /\ 1 \in DOMAIN s
           /\ \A i \in DOMAIN Tail(s) : i + 1 \in DOMAIN s /\ Tail(s)[i] = s[i + 1]
OBVIOUS

(* What a queue holds when something is put at its end.                        *)
LEMMA PutOn ==
    ASSUME NEW A, NEW s \in Seq(A), NEW x \in A
    PROVE  /\ Append(s, x) \in Seq(A)
           /\ Len(s) \in Nat /\ Len(Append(s, x)) = Len(s) + 1
           /\ \A i \in DOMAIN Append(s, x) :
                  IF i \in DOMAIN s THEN Append(s, x)[i] = s[i] ELSE Append(s, x)[i] = x
OBVIOUS

(* An empty queue has any type.                                               *)
LEMMA NothingTyped == ASSUME NEW A PROVE <<>> \in Seq(A)
OBVIOUS

-----------------------------------------------------------------------------
(* Types.                                                                    *)

(* The part of the type invariant that belongs to the program.                *)
ProgramType ==
    /\ phase \in Phases /\ portOpen \in BOOLEAN
    /\ command \in Codes \cup {"NONE"} /\ attempt \in Nat /\ transaction \in 0..MAX_TRANSACTIONS
    /\ phase \in Transacting => command # "NONE"
    /\ response \in Answers \cup {Corrupt, Tool!NoAnswer}
    /\ printed \in Answers \cup {Tool!NoAnswer}
    /\ givenUp \in BOOLEAN /\ doubt \in BOOLEAN

LineType == toTool \in Seq(Codes) /\ toHost \in Seq(Answers \cup {Corrupt})

ToolType ==
    /\ held \in Codes \cup {"NONE"} /\ answer \in Answers \cup {Tool!NoAnswer}
    /\ granted \in Tool!Directions \cup {"NONE"} /\ driven \subseteq Tool!Directions
    /\ faulty \in BOOLEAN

(* The three parts are all of it.                                              *)
LEMMA TypeParts == TypeOK <=> ProgramType /\ LineType /\ ToolType
BY DEF TypeOK, ProgramType, LineType, ToolType

(* An answer of the tool is one of Answers.                                    *)
LEMMA AnswerTyped ==
    ASSUME ToolType, Tool!AnswerStep
    PROVE  ToolType'
<1> USE DEF ToolType, Answers, Results, Codes, Tool!Commands, Tool!Directions, Tool!Reports,
            Tool!AnswerTo, Tool!Reply, Tool!Halt
<1>1. CASE Tool!Stop
  BY <1>1 DEF Tool!Stop
<1>2. CASE Tool!Grant
  BY <1>2 DEF Tool!Grant
<1>3. CASE Tool!Refuse
  BY <1>3 DEF Tool!Refuse, Tool!RejectedAt
<1>4. CASE Tool!Condemn
  BY <1>4 DEF Tool!Condemn
<1>5. CASE Tool!Report
  BY <1>5 DEF Tool!Report
<1> QED BY <1>1, <1>2, <1>3, <1>4, <1>5 DEF Tool!AnswerStep

(* So are its movements.                                                      *)
LEMMA MoveTyped ==
    ASSUME ToolType, Tool!Deliver \/ Tool!Start \/ Tool!Arrive \/ Tool!Fail
    PROVE  ToolType'
BY DEF ToolType, Tool!Deliver, Tool!Start, Tool!Arrive, Tool!Fail, Tool!Halt, Tool!Directions

(* Every step of the program keeps its types.                                  *)
LEMMA ProgramTyped ==
    ASSUME TypeOK, StartUp \/ (\E c \in Codes : EnterCommand(c)) \/ Quit \/ TransactionStep \/ ReadNoise
    PROVE  ProgramType' /\ LineType' /\ ToolType'
<1>0. ProgramType /\ LineType /\ ToolType
  BY TypeParts
<1> USE DEF ProgramType, Phases, Transacting
<1>1. ASSUME UNCHANGED lineVars, UNCHANGED toolVars PROVE LineType' /\ ToolType'
  BY <1>0, <1>1 DEF LineType, ToolType, lineVars, toolVars
<1>2. CASE StartUp \/ Quit
  BY <1>0, <1>1, <1>2 DEF StartUp, BadArguments, GoodArguments, OpenPort, OpenFails, Quit, ClosePort, Elsewhere,
                          answerVars, historyVars
<1>3. ASSUME NEW c \in Codes, EnterCommand(c) PROVE ProgramType' /\ LineType' /\ ToolType'
  <2>1. /\ transaction < MAX_TRANSACTIONS /\ transaction' = transaction + 1
        /\ phase' = "attempt" /\ command' = c /\ attempt' = 1
        /\ printed' = Tool!NoAnswer /\ doubt' = (doubt \/ givenUp) /\ givenUp' = FALSE
        /\ UNCHANGED <<portOpen, response>>
    BY <1>3 DEF EnterCommand
  <2>2. UNCHANGED lineVars /\ UNCHANGED toolVars
    BY <1>3 DEF EnterCommand
  <2>3. LineType' /\ ToolType'
    BY <1>1, <2>2
  <2>4. transaction' \in 0..MAX_TRANSACTIONS
    BY <1>0, <2>1, TransactionsAssumption
  <2>5. doubt' \in BOOLEAN
    BY <1>0, <2>1, Zenon
  <2>6. ProgramType'
    <3>1. command' # "NONE"
      BY <2>1 DEF Codes
    <3> QED BY <1>0, <2>1, <2>4, <2>5, <3>1
  <2> QED BY <2>3, <2>6
<1>4. CASE NoAttemptLeft \/ SendFails
  BY <1>0, <1>1, <1>4 DEF NoAttemptLeft, SendFails, Return, answerVars, historyVars
<1>5. CASE SendCommand
  <2>1. /\ phase = "attempt" /\ phase' = "await" /\ toTool' \in {toTool, Append(toTool, command)}
        /\ UNCHANGED <<portOpen, command, attempt, transaction, response, printed, toHost, held, answer,
                      granted, driven, faulty, givenUp, doubt>>
    BY <1>5 DEF SendCommand, answerVars, toolVars, historyVars
  <2>2. command \in Codes
    BY <1>0, <2>1
  <2>3. toTool' \in Seq(Codes)
    <3>1. toTool \in Seq(Codes)
      BY <1>0 DEF LineType
    <3> QED BY <3>1, <2>1, <2>2, PutOn
  <2>4. LineType' /\ ToolType'
    BY <1>0, <2>1, <2>3 DEF LineType, ToolType
  <2>5. ProgramType'
    BY <1>0, <2>1
  <2> QED BY <2>4, <2>5
<1>6. CASE ReadFrame
  <2>1. /\ toHost # <<>> /\ response' = Head(toHost) /\ toHost' = Tail(toHost)
        /\ phase = "await" /\ phase' = "print"
        /\ UNCHANGED <<portOpen, command, attempt, transaction, printed, toTool, held, answer,
                      granted, driven, faulty, givenUp, doubt>>
    BY <1>6 DEF ReadFrame, toolVars, historyVars
  <2>2. response' \in Answers \cup {Corrupt} /\ toHost' \in Seq(Answers \cup {Corrupt})
    <3>1. toHost \in Seq(Answers \cup {Corrupt})
      BY <1>0 DEF LineType
    <3> QED BY <3>1, <2>1, TakenOff
  <2>3. LineType' /\ ToolType'
    BY <1>0, <2>1, <2>2 DEF LineType, ToolType
  <2>4. ProgramType'
    BY <1>0, <2>1, <2>2
  <2> QED BY <2>3, <2>4
<1>7. CASE ReadNoise
  BY <1>0, <1>1, <1>7 DEF ReadNoise
<1>8. CASE ReadTimesOut
  BY <1>0, <1>1, <1>8 DEF ReadTimesOut, NextAttempt, answerVars
<1>9. CASE ReadIsCut
  <2>1. /\ toHost # <<>> /\ toHost' = Tail(toHost) /\ phase = "await"
        /\ NextAttempt
        /\ UNCHANGED <<response, printed, toTool, held, answer,
                      granted, driven, faulty, givenUp, doubt>>
    BY <1>9 DEF ReadIsCut, answerVars, toolVars, historyVars
  <2>2. toHost' \in Seq(Answers \cup {Corrupt})
    <3>1. toHost \in Seq(Answers \cup {Corrupt})
      BY <1>0 DEF LineType
    <3> QED BY <3>1, <2>1, TakenOff
  <2>3. LineType' /\ ToolType'
    BY <1>0, <2>1, <2>2 DEF LineType, ToolType
  <2>4. ProgramType'
    BY <1>0, <2>1 DEF NextAttempt
  <2> QED BY <2>3, <2>4
<1>10. CASE PrintResponse
  BY <1>0, <1>1, <1>10 DEF PrintResponse, Valid, Return, historyVars
<1>11. CASE InvalidResponse
  BY <1>0, <1>1, <1>11 DEF InvalidResponse, NextAttempt, historyVars
<1> QED
  BY <1>2, <1>3, <1>4, <1>5, <1>6, <1>7, <1>8, <1>9, <1>10, <1>11 DEF TransactionStep

(* Every step of the tool keeps its types and the line's.                      *)
LEMMA ToolTyped ==
    ASSUME TypeOK, ToolStep
    PROVE  ProgramType' /\ LineType' /\ ToolType'
<1>0. ProgramType /\ LineType /\ ToolType
  BY TypeParts
<1>1. ProgramType'
  <2>1. UNCHANGED TheirVars
    BY DEF ToolStep, ToolTakes, ToolAnswers, ToolDelivers, ToolStarts, ToolStops
  <2> QED BY <1>0, <2>1 DEF ProgramType, TheirVars, mainVars, answerVars
<1>2. CASE ToolTakes
  <2>1. /\ toTool # <<>> /\ held' = Head(toTool) /\ toTool' = Tail(toTool)
        /\ UNCHANGED <<toHost, answer, granted, driven, faulty>>
    BY <1>2 DEF ToolTakes, Tool!Take
  <2>2. held' \in Codes /\ toTool' \in Seq(Codes)
    <3>1. toTool \in Seq(Codes)
      BY <1>0 DEF LineType
    <3> QED BY <3>1, <2>1, TakenOff
  <2> QED BY <1>0, <1>1, <2>1, <2>2 DEF LineType, ToolType
<1>3. CASE ToolAnswers
  BY <1>0, <1>1, <1>3, AnswerTyped DEF ToolAnswers, lineVars, LineType
<1>4. CASE ToolDelivers
  <2>1. ToolType' /\ toTool' = toTool
    BY <1>0, <1>4, MoveTyped DEF ToolDelivers
  <2>2. toHost' \in Seq(Answers \cup {Corrupt})
    <3>1. toHost \in Seq(Answers \cup {Corrupt})
      BY <1>0 DEF LineType
    <3>2. answer \in Answers \cup {Corrupt}
      BY <1>0, <1>4 DEF ToolDelivers, Tool!Deliver, ToolType
    <3>3. /\ Append(toHost, answer) \in Seq(Answers \cup {Corrupt})
          /\ Append(toHost, Corrupt) \in Seq(Answers \cup {Corrupt})
      BY <3>1, <3>2, PutOn
    <3> QED BY <3>1, <3>3, <1>4 DEF ToolDelivers
  <2> QED BY <1>0, <1>1, <2>1, <2>2 DEF LineType
<1>5. CASE ToolStarts \/ ToolStops
  BY <1>0, <1>1, <1>5, MoveTyped DEF ToolStarts, ToolStops, lineVars, LineType
<1> QED BY <1>2, <1>3, <1>4, <1>5 DEF ToolStep

(* Every step keeps the types.                                               *)
LEMMA TypeStep == TypeOK /\ [Next]_vars => TypeOK'
<1> SUFFICES ASSUME TypeOK, [Next]_vars PROVE TypeOK'
  OBVIOUS
<1>1. CASE Next
  <2>1. ProgramType' /\ LineType' /\ ToolType'
    BY <1>1, ProgramTyped, ToolTyped DEF Next
  <2> QED BY <2>1 DEF TypeOK, ProgramType, LineType, ToolType
<1>2. CASE UNCHANGED vars
  BY <1>2 DEF TypeOK, vars, mainVars, answerVars, lineVars, toolVars, historyVars
<1> QED BY <1>1, <1>2

(* Every initial state has the types.                                         *)
LEMMA TypeInit == Init => TypeOK
<1> SUFFICES ASSUME Init PROVE TypeOK
  OBVIOUS
<1>1. ProgramType
  <2>1. phase \in Phases /\ phase \notin Transacting
    BY DEF Init, Phases, Transacting
  <2>2. portOpen \in BOOLEAN /\ givenUp \in BOOLEAN /\ doubt \in BOOLEAN
    BY DEF Init
  <2>3. command \in Codes \cup {"NONE"} /\ attempt \in Nat /\ transaction \in 0..MAX_TRANSACTIONS
    BY TransactionsAssumption DEF Init
  <2>4. response = Tool!NoAnswer /\ printed = Tool!NoAnswer
    BY DEF Init
  <2> QED BY <2>1, <2>2, <2>3, <2>4 DEF ProgramType
<1>2. LineType
  <2>1. toTool = <<>> /\ toHost = <<>>
    BY DEF Init
  <2> QED BY <2>1, NothingTyped DEF LineType
<1>3. ToolType
  <2>1. /\ held = "NONE" /\ answer = Tool!NoAnswer /\ granted = "NONE" /\ driven = {}
        /\ faulty \in BOOLEAN
    BY DEF Init, Tool!ServiceInit
  <2> QED BY <2>1 DEF ToolType
<1> QED BY <1>1, <1>2, <1>3, TypeParts

(* Every reachable state of the program has its types.                         *)
THEOREM TypeCorrect == Spec => []TypeOK
BY TypeInit, TypeStep, PTL DEF Spec

-----------------------------------------------------------------------------
(* What is told of a command is true of the tool.                              *)

(* No answer and a damaged one tell nothing.                                   *)
LEMMA NothingTold == TrueOf(Tool!NoAnswer) /\ TrueOf(Corrupt)
BY DEF TrueOf, Corrupt, StopDone, FaultResults, Tool!NoAnswer, Tool!AnswerTo

(* While the tool and the command stay as they are, so does what is true of them: *)
(* the program and the line may only forget news, damage it, or repeat the command. *)
LEMMA OwnKept ==
    ASSUME OwnOnly, UNCHANGED <<command, granted, driven, faulty, doubt>>,
           \A i \in DOMAIN toTool' :
               toTool'[i] = command \/ \E j \in DOMAIN toTool : toTool'[i] = toTool[j],
           held' \in {held, "NONE"} \/ \E j \in DOMAIN toTool : held' = toTool[j],
           \A a \in News' : a \in News \cup {Corrupt, Tool!NoAnswer}
    PROVE  OwnOnly'
<1> SUFFICES ASSUME ~doubt
             PROVE  /\ \A i \in DOMAIN toTool' : toTool'[i] = command'
                    /\ held' \in {"NONE", command'}
                    /\ \A a \in News' : TrueOf(a)'
  BY DEF OwnOnly
<1>1. /\ \A i \in DOMAIN toTool : toTool[i] = command
      /\ held \in {"NONE", command}
      /\ \A a \in News : TrueOf(a)
  BY DEF OwnOnly
<1>2. \A i \in DOMAIN toTool' : toTool'[i] = command'
  BY <1>1
<1>3. held' \in {"NONE", command'}
  BY <1>1
<1>4. ASSUME NEW a \in News' PROVE TrueOf(a)'
  <2>1. TrueOf(a)
    BY <1>1, <1>4, NothingTold
  <2> QED BY <2>1 DEF TrueOf
<1> QED BY <1>2, <1>3, <1>4

(* The answer to the command the tool holds is true of it when it is given.       *)
LEMMA AnswerTrue ==
    ASSUME Tool!AnswerStep, held = command, UNCHANGED command, NEW a, a = answer'
    PROVE  TrueOf(a)'
<1> USE DEF TrueOf, StopDone, FaultResults, Tool!Reply, Tool!AnswerTo
<1>1. CASE Tool!Stop
  BY <1>1 DEF Tool!Stop, Tool!Halt
<1>2. CASE Tool!Grant
  BY <1>2 DEF Tool!Grant, Tool!Directions
<1>3. CASE Tool!Refuse
  BY <1>3 DEF Tool!Refuse, Tool!RejectedAt, Tool!Directions
<1>4. CASE Tool!Condemn
  BY <1>4 DEF Tool!Condemn, Tool!Directions
<1>5. CASE Tool!Report
  <2>1. PICK r \in Tool!Reports : Tool!Reply(r) /\ (r = "FAULT") = faulty
    BY <1>5 DEF Tool!Report
  <2>2. held = "STATUS_REQUEST" /\ UNCHANGED <<granted, driven, faulty>>
    BY <1>5 DEF Tool!Report
  <2>3. a.cmd = command /\ a.result = r
    BY <2>1
  <2>4. r \in FaultResults => r = "FAULT"
    BY <2>1 DEF Tool!Reports
  <2>5. r \in FaultResults => faulty
    BY <2>1, <2>4
  <2> QED BY <2>2, <2>3, <2>5
<1> QED BY <1>1, <1>2, <1>3, <1>4, <1>5 DEF Tool!AnswerStep

(* It does not make what is told already untrue.                              *)
LEMMA AnswerKeepsTruth ==
    ASSUME Tool!AnswerStep, held = command, UNCHANGED command, NEW a, TrueOf(a)
    PROVE  TrueOf(a)'
<1> USE DEF TrueOf
<1>1. CASE Tool!Stop
  BY <1>1 DEF Tool!Stop, Tool!Halt
<1>2. CASE Tool!Grant
  BY <1>2 DEF Tool!Grant, Tool!Directions
<1>3. CASE Tool!Refuse
  BY <1>3 DEF Tool!Refuse
<1>4. CASE Tool!Condemn
  BY <1>4 DEF Tool!Condemn, Tool!Halt, Tool!Directions
<1>5. CASE Tool!Report
  BY <1>5 DEF Tool!Report
<1> QED BY <1>1, <1>2, <1>3, <1>4, <1>5 DEF Tool!AnswerStep

(* Nor do the tool's own movements: it does not start with nothing granted.       *)
LEMMA MoveKeepsTruth ==
    ASSUME Tool!Start \/ Tool!Arrive \/ Tool!Fail, UNCHANGED command, NEW a, TrueOf(a)
    PROVE  TrueOf(a)'
BY DEF TrueOf, Tool!Start, Tool!Arrive, Tool!Fail, Tool!Halt

(* A new command finds nothing under way unless one was given up.              *)
LEMMA NothingUnderWay ==
    ASSUME TypeOK, OneAtATime, ~doubt, ~givenUp, phase # "await"
    PROVE  toTool = <<>> /\ toHost = <<>> /\ held = "NONE" /\ answer = Tool!NoAnswer
<1>1. UnderWay <= 0
  BY DEF OneAtATime
<1>2. toTool \in Seq(Codes) /\ toHost \in Seq(Answers \cup {Corrupt})
  BY DEF TypeOK
<1>3. Len(toTool) \in Nat /\ Len(toHost) \in Nat
  BY <1>2
<1>4. Attended \in {0, 1} /\ Answered \in {0, 1}
  BY DEF Attended, Answered
<1>5. Len(toTool) = 0 /\ Len(toHost) = 0 /\ Attended = 0 /\ Answered = 0
  BY <1>1, <1>3, <1>4 DEF UnderWay
<1>6. toTool = <<>> /\ toHost = <<>>
  BY <1>2, <1>5
<1> QED BY <1>5, <1>6 DEF Attended, Answered

-----------------------------------------------------------------------------
(* The parts of the invariant, one step at a time.                             *)

(* Everything under way keeps belonging to the command, and is true of it, when   *)
(* the program takes a step.                                                 *)
LEMMA ProgramKeepsOwn ==
    ASSUME ConsoleInv,
           StartUp \/ (\E c \in Codes : EnterCommand(c)) \/ Quit \/ TransactionStep \/ ReadNoise
    PROVE  OwnOnly'
<1>0. TypeOK /\ OwnOnly /\ OneAtATime /\ ResponseLooked
  BY DEF ConsoleInv
<1>s. toTool \in Seq(Codes) /\ toHost \in Seq(Answers \cup {Corrupt})
  BY <1>0 DEF TypeOK
<1>a. ASSUME UNCHANGED <<command, lineVars, toolVars, doubt>>,
             response' \in {response, Corrupt, Tool!NoAnswer}, printed' \in {printed, response}
      PROVE  OwnOnly'
  <2>1. UNCHANGED <<command, granted, driven, faulty, doubt, held, answer, toTool, toHost>>
    BY <1>a DEF lineVars, toolVars
  <2>2. \A a \in News' : a \in News \cup {Corrupt, Tool!NoAnswer}
    BY <1>a, <2>1 DEF News
  <2> QED BY <1>0, <2>1, <2>2, OwnKept
<1>1. CASE StartUp \/ Quit
  BY <1>a, <1>1 DEF StartUp, BadArguments, GoodArguments, OpenPort, OpenFails, Quit, ClosePort, Elsewhere,
                    answerVars, historyVars
<1>2. ASSUME NEW c \in Codes, EnterCommand(c) PROVE OwnOnly'
  <2>1. /\ phase = "menu" /\ printed' = Tool!NoAnswer /\ response' = response
        /\ doubt' = (doubt \/ givenUp)
    BY <1>2 DEF EnterCommand
  <2>2. UNCHANGED <<toTool, toHost, held, answer>>
    BY <1>2 DEF EnterCommand, lineVars, toolVars
  <2>3. SUFFICES ASSUME ~doubt'
                 PROVE  /\ \A i \in DOMAIN toTool' : toTool'[i] = command'
                        /\ held' \in {"NONE", command'}
                        /\ \A a \in News' : TrueOf(a)'
    BY DEF OwnOnly
  <2>4. toTool = <<>> /\ toHost = <<>> /\ held = "NONE" /\ answer = Tool!NoAnswer
    BY <1>0, <2>1, <2>3, NothingUnderWay
  <2>5. response = Tool!NoAnswer
    BY <1>0, <2>1 DEF ResponseLooked
  <2>6. \A a \in News' : a = Tool!NoAnswer
    BY <2>1, <2>2, <2>4, <2>5 DEF News
  <2>7. TrueOf(Tool!NoAnswer)'
    BY NothingTold, PTL
  <2>8. \A a \in News' : TrueOf(a)'
    BY <2>6, <2>7
  <2> QED BY <2>2, <2>4, <2>8
<1>3. CASE NoAttemptLeft \/ SendFails
  BY <1>a, <1>3 DEF NoAttemptLeft, SendFails, Return, answerVars, historyVars
<1>4. CASE SendCommand
  <2>1. /\ toTool' \in {toTool, Append(toTool, command)}
        /\ UNCHANGED <<command, response, printed, toHost, held, answer, granted, driven, faulty, doubt>>
    BY <1>4 DEF SendCommand, answerVars, toolVars, historyVars
  <2>2. command \in Codes
    BY <1>0, <1>4 DEF SendCommand, TypeOK, Transacting
  <2>3. \A i \in DOMAIN toTool' :
            toTool'[i] = command \/ \E j \in DOMAIN toTool : toTool'[i] = toTool[j]
    BY <1>s, <2>1, <2>2, PutOn
  <2>4. News' = News
    BY <2>1 DEF News
  <2> QED BY <1>0, <2>1, <2>3, <2>4, OwnKept
<1>5. CASE ReadFrame
  <2>1. /\ toHost # <<>> /\ response' = Head(toHost) /\ toHost' = Tail(toHost)
        /\ UNCHANGED <<command, printed, toTool, held, answer, granted, driven, faulty, doubt>>
    BY <1>5 DEF ReadFrame, toolVars, historyVars
  <2>2. Head(toHost) = toHost[1] /\ 1 \in DOMAIN toHost
        /\ \A i \in DOMAIN Tail(toHost) : i + 1 \in DOMAIN toHost /\ Tail(toHost)[i] = toHost[i + 1]
    BY <1>s, <2>1, TakenOff
  <2>3. \A a \in News' : a \in News
    BY <2>1, <2>2 DEF News
  <2> QED BY <1>0, <2>1, <2>3, OwnKept
<1>6. CASE ReadNoise
  BY <1>a, <1>6 DEF ReadNoise
<1>7. CASE ReadTimesOut
  BY <1>a, <1>7 DEF ReadTimesOut, NextAttempt, answerVars
<1>8. CASE ReadIsCut
  <2>1. /\ toHost # <<>> /\ toHost' = Tail(toHost)
        /\ UNCHANGED <<command, response, printed, toTool, held, answer, granted, driven, faulty, doubt>>
    BY <1>8 DEF ReadIsCut, NextAttempt, answerVars, toolVars, historyVars
  <2>2. \A i \in DOMAIN Tail(toHost) : i + 1 \in DOMAIN toHost /\ Tail(toHost)[i] = toHost[i + 1]
    BY <1>s, <2>1, TakenOff
  <2>3. \A a \in News' : a \in News
    BY <2>1, <2>2 DEF News
  <2> QED BY <1>0, <2>1, <2>3, OwnKept
<1>9. CASE PrintResponse
  BY <1>a, <1>9 DEF PrintResponse, Return, historyVars
<1>10. CASE InvalidResponse
  BY <1>a, <1>10 DEF InvalidResponse, NextAttempt, historyVars
<1> QED
  BY <1>1, <1>2, <1>3, <1>4, <1>5, <1>6, <1>7, <1>8, <1>9, <1>10 DEF TransactionStep

(* So it does when the tool takes a step.                                      *)
LEMMA ToolKeepsOwn ==
    ASSUME ConsoleInv, ToolStep
    PROVE  OwnOnly'
<1>0. TypeOK /\ OwnOnly
  BY DEF ConsoleInv
<1>s. toTool \in Seq(Codes) /\ toHost \in Seq(Answers \cup {Corrupt})
  BY <1>0 DEF TypeOK
<1>t. UNCHANGED <<command, response, printed, doubt>>
  BY DEF ToolStep, ToolTakes, ToolAnswers, ToolDelivers, ToolStarts, ToolStops, TheirVars, mainVars,
         answerVars
<1>1. CASE ToolTakes
  <2>1. /\ toTool # <<>> /\ held' = Head(toTool) /\ toTool' = Tail(toTool)
        /\ UNCHANGED <<toHost, answer, granted, driven, faulty>>
    BY <1>1 DEF ToolTakes, Tool!Take
  <2>2. Head(toTool) = toTool[1] /\ 1 \in DOMAIN toTool
        /\ \A i \in DOMAIN Tail(toTool) : i + 1 \in DOMAIN toTool /\ Tail(toTool)[i] = toTool[i + 1]
    BY <1>s, <2>1, TakenOff
  <2>3. \A a \in News' : a \in News
    BY <1>t, <2>1 DEF News
  <2> QED BY <1>0, <1>t, <2>1, <2>2, <2>3, OwnKept
<1>2. CASE ToolAnswers
  <2>1. Tool!AnswerStep /\ UNCHANGED <<toTool, toHost>>
    BY <1>2 DEF ToolAnswers, lineVars
  <2>2. held # "NONE" /\ held' = "NONE"
    BY <2>1 DEF Tool!AnswerStep, Tool!Stop, Tool!Grant, Tool!Refuse, Tool!Condemn, Tool!Report,
                Tool!Reply, Tool!Directions
  <2>3. SUFFICES ASSUME ~doubt
                 PROVE  /\ \A i \in DOMAIN toTool' : toTool'[i] = command'
                        /\ held' \in {"NONE", command'}
                        /\ \A a \in News' : TrueOf(a)'
    BY <1>t DEF OwnOnly
  <2>4. /\ \A i \in DOMAIN toTool : toTool[i] = command
        /\ held = command
        /\ \A a \in News : TrueOf(a)
    BY <1>0, <2>2, <2>3 DEF OwnOnly
  <2>5. \A i \in DOMAIN toTool' : toTool'[i] = command'
    BY <1>t, <2>1, <2>4
  <2>6. ASSUME NEW a \in News' PROVE TrueOf(a)'
    <3>1. a = answer' \/ a \in News
      BY <1>t, <2>1, <2>6 DEF News
    <3>2. CASE a = answer'
      BY <3>2, <1>t, <2>1, <2>4, AnswerTrue
    <3>3. CASE a \in News
      <4>1. TrueOf(a)
        BY <3>3, <2>4
      <4> QED BY <4>1, <1>t, <2>1, <2>4, AnswerKeepsTruth
    <3> QED BY <3>1, <3>2, <3>3
  <2> QED BY <2>2, <2>5, <2>6
<1>3. CASE ToolDelivers
  <2>1. /\ answer' = Tool!NoAnswer
        /\ toHost' \in {Append(toHost, answer), Append(toHost, Corrupt), toHost}
        /\ UNCHANGED <<toTool, held, granted, driven, faulty>>
    BY <1>3 DEF ToolDelivers, Tool!Deliver
  <2>2. answer \in Answers
    BY <1>0, <1>3 DEF ToolDelivers, Tool!Deliver, TypeOK
  <2>3. \A i \in DOMAIN toHost' :
            toHost'[i] \in {answer, Corrupt} \/ \E j \in DOMAIN toHost : toHost'[i] = toHost[j]
    <3>1. CASE toHost' = toHost
      BY <3>1
    <3>2. CASE toHost' = Append(toHost, answer)
      BY <1>s, <2>2, <3>2, PutOn
    <3>3. CASE toHost' = Append(toHost, Corrupt)
      BY <1>s, <3>3, PutOn
    <3> QED BY <2>1, <3>1, <3>2, <3>3
  <2>4. \A a \in News' : a \in News \cup {Corrupt, Tool!NoAnswer}
    BY <1>t, <2>1, <2>3 DEF News
  <2> QED BY <1>0, <1>t, <2>1, <2>4, OwnKept
<1>4. CASE ToolStarts \/ ToolStops
  <2>1. Tool!Start \/ Tool!Arrive \/ Tool!Fail
    BY <1>4 DEF ToolStarts, ToolStops
  <2>2. UNCHANGED <<toTool, toHost, held, answer>>
    BY <1>4 DEF ToolStarts, ToolStops, lineVars, Tool!Start, Tool!Arrive, Tool!Fail
  <2>3. News' = News
    BY <1>t, <2>2 DEF News
  <2>4. \A a : TrueOf(a) => TrueOf(a)'
    BY <1>t, <2>1, MoveKeepsTruth
  <2> QED BY <1>0, <1>t, <2>2, <2>3, <2>4 DEF OwnOnly
<1> QED BY <1>1, <1>2, <1>3, <1>4 DEF ToolStep

(* What is under way, counted.                                                *)
LEMMA Counted ==
    ASSUME TypeOK
    PROVE  Len(toTool) \in Nat /\ Len(toHost) \in Nat /\ Attended \in {0, 1} /\ Answered \in {0, 1}
<1>1. toTool \in Seq(Codes) /\ toHost \in Seq(Answers \cup {Corrupt})
  BY DEF TypeOK
<1>2. Len(toTool) \in Nat /\ Len(toHost) \in Nat
  BY <1>1
<1> QED BY <1>2 DEF Attended, Answered

(* As long as nothing was given up, at most the command awaited is under way,    *)
(* whatever the program does next.                                            *)
LEMMA ProgramKeepsCount ==
    ASSUME ConsoleInv,
           StartUp \/ (\E c \in Codes : EnterCommand(c)) \/ Quit \/ TransactionStep \/ ReadNoise
    PROVE  OneAtATime'
<1>0. TypeOK /\ OneAtATime
  BY DEF ConsoleInv
<1>s. toTool \in Seq(Codes) /\ toHost \in Seq(Answers \cup {Corrupt})
  BY <1>0 DEF TypeOK
<1>c. Len(toTool) \in Nat /\ Len(toHost) \in Nat /\ Attended \in {0, 1} /\ Answered \in {0, 1}
  BY <1>0, Counted
<1>a. ASSUME UNCHANGED <<lineVars, toolVars>>, phase # "await", phase' # "await",
             ~doubt' /\ ~givenUp' => ~doubt /\ ~givenUp
      PROVE  OneAtATime'
  <2>1. UnderWay' = UnderWay
    BY <1>a DEF UnderWay, Attended, Answered, lineVars, toolVars
  <2> QED BY <1>0, <1>a, <2>1 DEF OneAtATime
<1>1. CASE StartUp \/ Quit
  BY <1>a, <1>1 DEF StartUp, BadArguments, GoodArguments, OpenPort, OpenFails, Quit, ClosePort, Elsewhere,
                    historyVars
<1>2. ASSUME NEW c \in Codes, EnterCommand(c) PROVE OneAtATime'
  BY <1>a, <1>2 DEF EnterCommand
<1>3. CASE NoAttemptLeft \/ SendFails
  BY <1>a, <1>3 DEF NoAttemptLeft, SendFails, Return, historyVars
<1>4. CASE SendCommand
  <2>1. /\ phase = "attempt" /\ phase' = "await" /\ toTool' \in {toTool, Append(toTool, command)}
        /\ UNCHANGED <<toHost, held, answer, givenUp, doubt>>
    BY <1>4 DEF SendCommand, toolVars, historyVars
  <2>2. command \in Codes
    BY <1>0, <1>4 DEF SendCommand, TypeOK, Transacting
  <2>3. Len(toTool') \in {Len(toTool), Len(toTool) + 1}
    BY <1>s, <2>1, <2>2, PutOn
  <2>4. Len(toHost') = Len(toHost) /\ Attended' = Attended /\ Answered' = Answered
    BY <2>1 DEF Attended, Answered
  <2>5. UnderWay' <= UnderWay + 1 /\ UnderWay \in Int
    BY <1>c, <2>3, <2>4 DEF UnderWay
  <2> QED BY <1>0, <1>c, <2>1, <2>3, <2>4, <2>5 DEF OneAtATime, UnderWay
<1>5. CASE ReadFrame \/ ReadIsCut
  <2>1. /\ phase = "await" /\ phase' # "await" /\ toHost # <<>> /\ toHost' = Tail(toHost)
        /\ UNCHANGED <<toTool, held, answer, givenUp, doubt>>
    BY <1>5 DEF ReadFrame, ReadIsCut, NextAttempt, toolVars, historyVars
  <2>2. Len(toHost') = Len(toHost) - 1
    BY <1>s, <2>1, TakenOff
  <2>3. Len(toTool') = Len(toTool) /\ Attended' = Attended /\ Answered' = Answered
    BY <2>1 DEF Attended, Answered
  <2> QED BY <1>0, <1>c, <2>1, <2>2, <2>3 DEF OneAtATime, UnderWay
<1>6. CASE ReadNoise \/ ReadTimesOut
  BY <1>6 DEF ReadNoise, ReadTimesOut, OneAtATime
<1>7. CASE PrintResponse \/ InvalidResponse
  BY <1>a, <1>7 DEF PrintResponse, InvalidResponse, Return, NextAttempt, historyVars
<1> QED BY <1>1, <1>2, <1>3, <1>4, <1>5, <1>6, <1>7 DEF TransactionStep

(* And whatever the tool does: it gives one answer to one command.               *)
LEMMA ToolKeepsCount ==
    ASSUME ConsoleInv, ToolStep
    PROVE  OneAtATime'
<1>0. TypeOK /\ OneAtATime
  BY DEF ConsoleInv
<1>s. toTool \in Seq(Codes) /\ toHost \in Seq(Answers \cup {Corrupt})
  BY <1>0 DEF TypeOK
<1>c. Len(toTool) \in Nat /\ Len(toHost) \in Nat /\ Attended \in {0, 1} /\ Answered \in {0, 1}
  BY <1>0, Counted
<1>t. UNCHANGED <<phase, givenUp, doubt>>
  BY DEF ToolStep, ToolTakes, ToolAnswers, ToolDelivers, ToolStarts, ToolStops, TheirVars, mainVars
<1>a. ASSUME Len(toTool') + Len(toHost') + Attended' + Answered'
               <= Len(toTool) + Len(toHost) + Attended + Answered,
             Len(toTool') \in Nat, Len(toHost') \in Nat
      PROVE  OneAtATime'
  <2>1. Attended' \in {0, 1} /\ Answered' \in {0, 1}
    BY DEF Attended, Answered
  <2> QED BY <1>0, <1>c, <1>t, <1>a, <2>1 DEF OneAtATime, UnderWay
<1>1. CASE ToolTakes
  <2>1. /\ toTool # <<>> /\ toTool' = Tail(toTool) /\ held = "NONE" /\ UNCHANGED <<toHost, answer>>
    BY <1>1 DEF ToolTakes, Tool!Take, Tool!Free
  <2>2. Len(toTool') = Len(toTool) - 1 /\ Len(toTool) > 0
    BY <1>s, <2>1, TakenOff
  <2>3. Attended = 0 /\ Attended' \in {0, 1} /\ Answered' = Answered /\ Len(toHost') = Len(toHost)
    BY <2>1 DEF Attended, Answered
  <2> QED BY <1>a, <1>c, <2>2, <2>3
<1>2. CASE ToolAnswers
  <2>1. UNCHANGED <<toTool, toHost>> /\ held # "NONE" /\ held' = "NONE"
    BY <1>2 DEF ToolAnswers, lineVars, Tool!AnswerStep, Tool!Stop, Tool!Grant, Tool!Refuse,
                Tool!Condemn, Tool!Report, Tool!Reply, Tool!Directions
  <2>2. Attended = 1 /\ Attended' = 0 /\ Answered' \in {0, 1}
    BY <2>1 DEF Attended, Answered
  <2>3. Len(toTool') = Len(toTool) /\ Len(toHost') = Len(toHost)
    BY <2>1
  <2> QED BY <1>a, <1>c, <2>2, <2>3
<1>3. CASE ToolDelivers
  <2>1. /\ answer # Tool!NoAnswer /\ answer' = Tool!NoAnswer
        /\ toHost' \in {Append(toHost, answer), Append(toHost, Corrupt), toHost}
        /\ UNCHANGED <<toTool, held>>
    BY <1>3 DEF ToolDelivers, Tool!Deliver
  <2>2. answer \in Answers
    BY <1>0, <2>1 DEF TypeOK
  <2>3. Len(toHost') \in {Len(toHost), Len(toHost) + 1}
    BY <1>s, <2>1, <2>2, PutOn
  <2>4. Answered = 1 /\ Answered' = 0 /\ Attended' = Attended /\ Len(toTool') = Len(toTool)
    BY <2>1 DEF Attended, Answered
  <2> QED BY <1>a, <1>c, <2>3, <2>4
<1>4. CASE ToolStarts \/ ToolStops
  <2>1. UNCHANGED <<toTool, toHost, held, answer>>
    BY <1>4 DEF ToolStarts, ToolStops, lineVars, Tool!Start, Tool!Arrive, Tool!Fail
  <2>2. Attended' = Attended /\ Answered' = Answered /\ Len(toTool') = Len(toTool)
        /\ Len(toHost') = Len(toHost)
    BY <2>1 DEF Attended, Answered
  <2> QED BY <1>a, <1>c, <2>2
<1> QED BY <1>1, <1>2, <1>3, <1>4 DEF ToolStep

(* A frame is only held while it is looked at.                                 *)
LEMMA FrameLookedAt ==
    ASSUME ResponseLooked, Next
    PROVE  ResponseLooked'
<1> USE DEF ResponseLooked
<1>1. CASE StartUp \/ (\E c \in Codes : EnterCommand(c)) \/ Quit
  BY <1>1 DEF StartUp, BadArguments, GoodArguments, OpenPort, OpenFails, Quit, ClosePort, Elsewhere,
              EnterCommand, answerVars
<1>2. CASE TransactionStep \/ ReadNoise
  BY <1>2 DEF TransactionStep, NoAttemptLeft, SendCommand, SendFails, ReadFrame, ReadTimesOut, ReadIsCut,
              PrintResponse, InvalidResponse, ReadNoise, Return, NextAttempt, answerVars
<1>3. CASE ToolStep
  BY <1>3 DEF ToolStep, ToolTakes, ToolAnswers, ToolDelivers, ToolStarts, ToolStops, TheirVars,
              mainVars, answerVars
<1> QED BY <1>1, <1>2, <1>3 DEF Next

-----------------------------------------------------------------------------
(* The invariant and what it says to the operator.                             *)

(* Before the program has sent anything nothing is told.                        *)
LEMMA ConsoleInit == Init => ConsoleInv
<1> SUFFICES ASSUME Init PROVE ConsoleInv
  OBVIOUS
<1>1. TypeOK
  BY TypeInit
<1>2. /\ toTool = <<>> /\ toHost = <<>> /\ held = "NONE" /\ answer = Tool!NoAnswer
      /\ response = Tool!NoAnswer /\ printed = Tool!NoAnswer
  BY DEF Init, Tool!ServiceInit
<1>3. \A a \in News : a = Tool!NoAnswer
  BY <1>2 DEF News
<1>4. OwnOnly
  <2>1. \A a \in News : TrueOf(a)
    BY <1>3, NothingTold
  <2> QED BY <1>2, <2>1 DEF OwnOnly
<1>5. OneAtATime
  <2>1. Len(toTool) = 0 /\ Len(toHost) = 0 /\ Attended = 0 /\ Answered = 0
    BY <1>2 DEF Attended, Answered
  <2> QED BY <2>1 DEF OneAtATime, UnderWay
<1>6. ResponseLooked
  BY <1>2 DEF ResponseLooked
<1> QED BY <1>1, <1>4, <1>5, <1>6 DEF ConsoleInv

(* Every step keeps the invariant.                                             *)
LEMMA ConsoleStep == ConsoleInv /\ [Next]_vars => ConsoleInv'
<1> SUFFICES ASSUME ConsoleInv, [Next]_vars PROVE ConsoleInv'
  OBVIOUS
<1>1. CASE Next
  <2>1. TypeOK'
    BY <1>1, TypeStep DEF ConsoleInv
  <2>2. OwnOnly'
    BY <1>1, ProgramKeepsOwn, ToolKeepsOwn DEF Next
  <2>3. OneAtATime'
    BY <1>1, ProgramKeepsCount, ToolKeepsCount DEF Next
  <2>4. ResponseLooked'
    BY <1>1, FrameLookedAt DEF ConsoleInv
  <2> QED BY <2>1, <2>2, <2>3, <2>4 DEF ConsoleInv
<1>2. CASE UNCHANGED vars
  BY <1>2 DEF ConsoleInv, TypeOK, OwnOnly, TrueOf, News, OneAtATime, UnderWay, Attended, Answered,
              ResponseLooked, vars, mainVars, answerVars, lineVars, toolVars, historyVars
<1> QED BY <1>1, <1>2

(* It holds in every reachable state.                                          *)
THEOREM ConsoleInvariant == Spec => []ConsoleInv
BY ConsoleInit, ConsoleStep, PTL DEF Spec

(* An operator who reads that his STOP was executed has a tool that stands, for   *)
(* any number of attempts and of commands before it, none of them given up.       *)
THEOREM StopIsConfirmed == Spec => []StopConfirmed
<1>1. ConsoleInv => StopConfirmed
  BY DEF ConsoleInv, OwnOnly, News, TrueOf, StopDone, StopConfirmed
<1> QED BY <1>1, ConsoleInvariant, PTL

(* An operator who reads of a fault has a tool in fault.                         *)
THEOREM FaultIsConfirmed == Spec => []FaultConfirmed
<1>1. ConsoleInv => FaultConfirmed
  BY DEF ConsoleInv, OwnOnly, News, TrueOf, FaultResults, FaultConfirmed
<1> QED BY <1>1, ConsoleInvariant, PTL
-----------------------------------------------------------------------------
(* The tool of this model does nothing but what ControllerService promises.    *)
LEMMA ToolServed ==
    ASSUME TypeOK, [Next]_vars
    PROVE  [Tool!ServiceNext]_(Tool!serviceVars)
<1>1. CASE UNCHANGED toolVars
  BY <1>1 DEF toolVars, Tool!serviceVars
<1>2. CASE ToolTakes
  <2>1. toTool \in Seq(Codes) /\ toTool # <<>> /\ Tool!Take(Head(toTool))
    BY <1>2 DEF TypeOK, ToolTakes
  <2>2. Head(toTool) \in Codes
    BY <2>1, TakenOff
  <2>3. Head(toTool) \in Tool!Commands
    BY <2>2 DEF Codes, Tool!Commands, Tool!Directions
  <2> QED BY <2>1, <2>3 DEF Tool!ServiceNext
<1>3. CASE ToolAnswers
  BY <1>3 DEF ToolAnswers, Tool!ServiceNext
<1>4. CASE ToolDelivers
  BY <1>4 DEF ToolDelivers, Tool!ServiceNext
<1>5. CASE ToolStarts
  BY <1>5 DEF ToolStarts, Tool!ServiceNext
<1>6. CASE ToolStops
  BY <1>6 DEF ToolStops, Tool!ServiceNext
<1>7. CASE StartUp \/ Quit
  BY <1>1, <1>7 DEF StartUp, BadArguments, GoodArguments, OpenPort, OpenFails, Quit, ClosePort, Elsewhere
<1>8. CASE (\E c \in Codes : EnterCommand(c)) \/ ReadNoise
  BY <1>1, <1>8 DEF EnterCommand, ReadNoise
<1>9. CASE TransactionStep
  BY <1>1, <1>9 DEF TransactionStep, NoAttemptLeft, SendCommand, SendFails, ReadFrame, ReadTimesOut,
                    ReadIsCut, PrintResponse, InvalidResponse
<1>10. CASE UNCHANGED vars
  BY <1>1, <1>10 DEF vars
<1> QED BY <1>2, <1>3, <1>4, <1>5, <1>6, <1>7, <1>8, <1>9, <1>10 DEF Next, ToolStep

(* What is proved of this program is proved of one that speaks to any tool that   *)
(* keeps ControllerService, which ToolController is proved to do: this model      *)
(* gives its tool no step that the service does not allow.                      *)
THEOREM ToolIsService == Spec => Tool!ServiceSpec
<1>1. Init => Tool!ServiceInit
  BY DEF Init
<1>2. TypeOK /\ [Next]_vars => [Tool!ServiceNext]_(Tool!serviceVars)
  BY ToolServed
<1> QED BY <1>1, <1>2, TypeCorrect, PTL DEF Spec, Tool!ServiceSpec
-----------------------------------------------------------------------------
(* Every command of the operator comes to an end: a measure of what is left of    *)
(* its transaction.                                                          *)

AttemptsLeft == IF AttemptLeft THEN MAX_ATTEMPTS + 1 - attempt ELSE 0

(* At most so many steps of transactWithRetries are left of the command: three    *)
(* for each attempt, and the one that finds none left.                          *)
StepsLeft ==
    CASE phase = "attempt" -> 3 * AttemptsLeft + 1
      [] phase = "await"   -> 3 * AttemptsLeft
      [] phase = "print"   -> 3 * AttemptsLeft - 1
      [] OTHER             -> 0

(* An answer is awaited and looked at only in an attempt that was allowed.       *)
AttemptAllowed == phase \in {"await", "print"} => AttemptLeft

(* The measure is a number that is positive exactly during a transaction.        *)
LEMMA Measured ==
    ASSUME TypeOK, AttemptAllowed
    PROVE  StepsLeft \in Nat /\ (StepsLeft > 0 <=> phase \in Transacting)
<1>1. AttemptsLeft \in Nat /\ (AttemptLeft => AttemptsLeft > 0)
  BY AttemptsAssumption DEF TypeOK, AttemptsLeft, AttemptLeft
<1>2. CASE phase \in {"await", "print"}
  BY <1>1, <1>2 DEF AttemptAllowed, StepsLeft, Transacting
<1>3. CASE phase \notin {"await", "print"}
  BY <1>1, <1>3 DEF StepsLeft, Transacting
<1> QED BY <1>2, <1>3

(* Every step of a transaction makes it smaller.                               *)
LEMMA StepShrinks ==
    ASSUME TypeOK, AttemptAllowed, TransactionStep \/ ReadNoise
    PROVE  StepsLeft' < StepsLeft /\ AttemptAllowed' /\ phase \in Transacting
<1>0. attempt \in Nat /\ MAX_ATTEMPTS \in Int
  BY AttemptsAssumption DEF TypeOK
<1> USE DEF Transacting
<1>1. ASSUME phase \in Transacting, Return PROVE StepsLeft' < StepsLeft /\ AttemptAllowed'
  BY <1>1, Measured DEF Return, StepsLeft, AttemptAllowed
<1>2. ASSUME phase \in {"await", "print"}, NextAttempt PROVE StepsLeft' < StepsLeft /\ AttemptAllowed'
  <2>1. phase' = "attempt" /\ attempt' = attempt + 1 /\ AttemptLeft
    BY <1>2 DEF NextAttempt, AttemptAllowed
  <2>2. AttemptsLeft' = AttemptsLeft - 1 /\ AttemptsLeft \in Nat
    BY <1>0, <2>1 DEF AttemptsLeft, AttemptLeft
  <2>3. StepsLeft' = 3 * (AttemptsLeft - 1) + 1
    BY <2>1, <2>2 DEF StepsLeft
  <2>4. StepsLeft \in Int /\ StepsLeft >= 3 * AttemptsLeft - 1
    BY <1>2, <2>2 DEF StepsLeft
  <2> QED BY <2>1, <2>2, <2>3, <2>4 DEF AttemptAllowed
<1>3. CASE SendCommand
  <2>1. phase = "attempt" /\ phase' = "await" /\ AttemptLeft /\ attempt' = attempt
    BY <1>3 DEF SendCommand
  <2>2. AttemptsLeft' = AttemptsLeft /\ AttemptsLeft \in Nat /\ AttemptLeft'
    BY <1>0, <2>1 DEF AttemptsLeft, AttemptLeft
  <2> QED BY <2>1, <2>2 DEF StepsLeft, AttemptAllowed
<1>4. CASE ReadFrame \/ ReadNoise
  <2>1. phase = "await" /\ phase' = "print" /\ AttemptLeft /\ attempt' = attempt
    BY <1>4 DEF ReadFrame, ReadNoise, AttemptAllowed
  <2>2. AttemptsLeft' = AttemptsLeft /\ AttemptsLeft \in Nat /\ AttemptLeft'
    BY <1>0, <2>1 DEF AttemptsLeft, AttemptLeft
  <2> QED BY <2>1, <2>2 DEF StepsLeft, AttemptAllowed
<1>5. CASE NoAttemptLeft \/ SendFails \/ PrintResponse
  BY <1>1, <1>5 DEF NoAttemptLeft, SendFails, PrintResponse
<1>6. CASE ReadTimesOut \/ ReadIsCut \/ InvalidResponse
  BY <1>2, <1>6 DEF ReadTimesOut, ReadIsCut, InvalidResponse
<1>7. phase \in Transacting
  BY DEF TransactionStep, ReadNoise, NoAttemptLeft, SendCommand, SendFails, ReadFrame, ReadTimesOut,
         ReadIsCut, PrintResponse, InvalidResponse
<1> QED BY <1>3, <1>4, <1>5, <1>6, <1>7 DEF TransactionStep

(* No step outside it makes it larger, except that a new command is entered.     *)
LEMMA StepsKept ==
    ASSUME TypeOK, AttemptAllowed, [Next]_vars, ~(TransactionStep \/ ReadNoise)
    PROVE  AttemptAllowed' /\ (phase \in Transacting => phase' = phase /\ StepsLeft' = StepsLeft)
<1>1. CASE ToolStep \/ UNCHANGED vars
  <2>1. phase' = phase /\ attempt' = attempt
    BY <1>1 DEF ToolStep, ToolTakes, ToolAnswers, ToolDelivers, ToolStarts, ToolStops, TheirVars,
                mainVars, vars
  <2> QED BY <2>1 DEF AttemptAllowed, AttemptLeft, StepsLeft, AttemptsLeft
<1>2. CASE StartUp \/ (\E c \in Codes : EnterCommand(c)) \/ Quit
  BY <1>2 DEF StartUp, BadArguments, GoodArguments, OpenPort, OpenFails, Quit, ClosePort, EnterCommand,
              AttemptAllowed, Transacting
<1> QED BY <1>1, <1>2 DEF Next

(* It always is one.                                                         *)
LEMMA Allowed == Spec => [](TypeOK /\ AttemptAllowed)
<1>1. Init => AttemptAllowed
  BY DEF Init, AttemptAllowed
<1>2. TypeOK /\ AttemptAllowed /\ [Next]_vars => AttemptAllowed'
  BY StepShrinks, StepsKept
<1> QED BY <1>1, <1>2, TypeCorrect, PTL DEF Spec

(* A command takes at most three steps of the program for each attempt and one     *)
(* more, for every max_attempts, whatever the line and the tool do meanwhile: a    *)
(* step of the transaction, and noise that closes a frame, bring its end nearer,   *)
(* and nothing else that happens puts it off.                                  *)
CommandSteps ==
    /\ TransactionStep \/ ReadNoise => StepsLeft' < StepsLeft
    /\ ToolStep => StepsLeft' = StepsLeft

THEOREM CommandBounded ==
    Spec => [][CommandSteps]_vars /\ [](StepsLeft \in Nat /\ (StepsLeft > 0 <=> phase \in Transacting))
<1>1. TypeOK /\ AttemptAllowed /\ [Next]_vars => [CommandSteps]_vars
  <2> SUFFICES ASSUME TypeOK, AttemptAllowed PROVE CommandSteps
    OBVIOUS
  <2>1. TransactionStep \/ ReadNoise => StepsLeft' < StepsLeft
    BY StepShrinks
  <2>2. ASSUME ToolStep PROVE StepsLeft' = StepsLeft
    <3>1. phase' = phase /\ attempt' = attempt
      BY <2>2 DEF ToolStep, ToolTakes, ToolAnswers, ToolDelivers, ToolStarts, ToolStops, TheirVars, mainVars
    <3> QED BY <3>1 DEF StepsLeft, AttemptsLeft, AttemptLeft
  <2> QED BY <2>1, <2>2 DEF CommandSteps
<1>2. TypeOK /\ AttemptAllowed => StepsLeft \in Nat /\ (StepsLeft > 0 <=> phase \in Transacting)
  BY Measured
<1> QED BY <1>1, <1>2, Allowed, PTL DEF Spec

(* While a command is under way the program goes on with it: what FairSpec says     *)
(* of TransactionStep, which a transaction always allows.                        *)
Transacts == <>[](phase \in Transacting) => []<><<TransactionStep>>_vars

(* Then whatever is left of a command becomes less.  With CommandBounded every      *)
(* command so comes back to the menu.                                         *)
THEOREM CommandGoesOn ==
    ASSUME NEW CONSTANT n \in Nat
    PROVE  Spec /\ Transacts => (phase \in Transacting /\ StepsLeft = n ~> StepsLeft < n)
<1> DEFINE Left == phase \in Transacting /\ StepsLeft = n
           Less == StepsLeft < n
<1>1. TypeOK /\ AttemptAllowed /\ Left /\ [Next]_vars => Left' \/ Less'
  <2> SUFFICES ASSUME TypeOK, AttemptAllowed, Left, [Next]_vars PROVE Left' \/ Less'
    OBVIOUS
  <2>1. CASE TransactionStep \/ ReadNoise
    BY <2>1, StepShrinks
  <2>2. CASE ~(TransactionStep \/ ReadNoise)
    BY <2>2, StepsKept
  <2> QED BY <2>1, <2>2
<1>2. TypeOK /\ AttemptAllowed /\ Left /\ <<TransactionStep>>_vars => Less'
  BY StepShrinks
<1>3. Left => phase \in Transacting
  OBVIOUS
<1> HIDE DEF Left, Less
<1>4. Spec /\ Transacts => (Left ~> Less)
  BY <1>1, <1>2, <1>3, Allowed, PTL DEF Spec, Transacts
<1> QED BY <1>4 DEF Left, Less
=============================================================================

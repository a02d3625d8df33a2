------------------------------ MODULE ToolConsole ------------------------------
(* The keyboard program of the interrupt-driven tool,                          *)
(* Raspberry/Examples/Tool_control, with its copy of the HIL library: it sends  *)
(* a command of the operator up to max_attempts times and prints the answer     *)
(* that comes.                                                               *)
(*                                                                           *)
(* The tool is the one ControllerService promises, which ToolController is      *)
(* shown to implement.  The line loses and damages frames and keeps their order; *)
(* what it does byte by byte is in HilLine.  givenUp and doubt are history: no     *)
(* action depends on them.                                                    *)
EXTENDS Integers, Sequences

CONSTANTS
    MAX_ATTEMPTS,         \* max_attempts, as std::stoi read it
    MAX_TRANSACTIONS      \* bound: commands the operator enters

ASSUME AttemptsAssumption == MAX_ATTEMPTS \in Int
ASSUME TransactionsAssumption == MAX_TRANSACTIONS \in Nat

VARIABLES
    phase,                \* where main() stands
    portOpen,
    command, attempt,     \* the command entered last, the loop counter of its attempts
    transaction,          \* how many commands were entered
    response,             \* the frame readFrameTimed returned, while it is looked at
    printed,              \* the answer printed for the command
    toTool, toHost,       \* frames on the line and in the buffers at its ends
    held, answer, granted, driven, faulty,       \* the tool
    givenUp,              \* an attempt for the command ended without its answer
    doubt                 \* and so did one for an earlier command

mainVars    == <<phase, portOpen, command, attempt, transaction>>
answerVars  == <<response, printed>>
lineVars    == <<toTool, toHost>>
toolVars    == <<held, answer, granted, driven, faulty>>
historyVars == <<givenUp, doubt>>
vars == <<mainVars, answerVars, lineVars, toolVars, historyVars>>

Tool == INSTANCE ControllerService

Codes == {"STOP", "UP", "DOWN", "RESET_FAULT", "STATUS_REQUEST"}

(* A frame whose checksum or length is wrong.                                 *)
Corrupt == Tool!AnswerTo("CORRUPT", "NONE")

Transacting == {"attempt", "await", "print"}
Phases      == {"start", "open", "menu", "exited"} \cup Transacting

-----------------------------------------------------------------------------
(* main().                                                                   *)

Elsewhere == UNCHANGED <<command, attempt, transaction, answerVars, lineVars, toolVars, historyVars>>

(* Too few arguments, or one that is no number, which nothing catches.          *)
BadArguments ==
    /\ phase = "start"
    /\ phase' = "exited"
    /\ UNCHANGED portOpen /\ Elsewhere

GoodArguments ==
    /\ phase = "start"
    /\ phase' = "open"
    /\ UNCHANGED portOpen /\ Elsewhere

(* Its owner closes the port when it ends.                                     *)
ClosePort == portOpen' = FALSE /\ phase' = "exited"

(* The port opens and takes its five options.                                 *)
OpenPort ==
    /\ phase = "open"
    /\ phase' = "menu"
    /\ portOpen' = TRUE
    /\ Elsewhere

(* It does not open, or is closed again because it refuses an option.           *)
OpenFails ==
    /\ phase = "open"
    /\ ClosePort /\ Elsewhere

EnterCommand(c) ==
    /\ phase = "menu" /\ transaction < MAX_TRANSACTIONS
    /\ phase' = "attempt"
    /\ command' = c /\ attempt' = 1
    /\ transaction' = transaction + 1
    /\ printed' = Tool!NoAnswer
    /\ doubt' = (doubt \/ givenUp) /\ givenUp' = FALSE
    /\ UNCHANGED <<portOpen, response, lineVars, toolVars>>

(* q, exit, or the end of the input; the port closes with its owner.           *)
Quit ==
    /\ phase = "menu"
    /\ ClosePort /\ Elsewhere

-----------------------------------------------------------------------------
(* transactWithRetries.                                                      *)

AttemptLeft == attempt <= MAX_ATTEMPTS

Return ==
    /\ phase' = "menu" /\ attempt' = 0
    /\ UNCHANGED <<portOpen, command, transaction>>

(* There is no pause before the next attempt.                                 *)
NextAttempt ==
    /\ phase' = "attempt"
    /\ attempt' = attempt + 1
    /\ UNCHANGED <<portOpen, command, transaction>>

NoAttemptLeft ==
    /\ phase = "attempt" /\ ~AttemptLeft
    /\ Return
    /\ UNCHANGED <<answerVars, lineVars, toolVars, historyVars>>

(* sendFrame: all of the frame is written; whether the tool finds it whole is    *)
(* another matter.                                                           *)
SendCommand ==
    /\ phase = "attempt" /\ AttemptLeft
    /\ phase' = "await"
    /\ toTool' \in {toTool, Append(toTool, command)}
    /\ UNCHANGED <<portOpen, command, attempt, transaction, answerVars, toHost, toolVars, historyVars>>

(* sendBytes writes less than all of it, and the transaction ends.              *)
SendFails ==
    /\ phase = "attempt" /\ AttemptLeft
    /\ Return
    /\ UNCHANGED <<answerVars, lineVars, toolVars, historyVars>>

(* readFrameTimed returns the first frame it finds, valid or not.              *)
ReadFrame ==
    /\ phase = "await" /\ toHost # <<>>
    /\ response' = Head(toHost) /\ toHost' = Tail(toHost)
    /\ phase' = "print"
    /\ UNCHANGED <<portOpen, command, attempt, transaction, printed, toTool, toolVars, historyVars>>

(* Noise between two delimiters is a frame too.                               *)
ReadNoise ==
    /\ phase = "await"
    /\ response' = Corrupt
    /\ phase' = "print"
    /\ givenUp' = TRUE
    /\ UNCHANGED <<portOpen, command, attempt, transaction, printed, lineVars, toolVars, doubt>>

(* Fault injection: the wait has no deadline and ends only when something came. *)
WaitWithoutDeadline ==
    /\ phase = "await" /\ toHost # <<>>
    /\ givenUp' = TRUE
    /\ NextAttempt
    /\ UNCHANGED <<answerVars, lineVars, toolVars, doubt>>

(* The deadline passes without a frame.                                       *)
ReadTimesOut ==
    /\ phase = "await"
    /\ givenUp' = TRUE
    /\ NextAttempt
    /\ UNCHANGED <<answerVars, lineVars, toolVars, doubt>>

(* It passes in the middle of one, and the rest of that one is noise.           *)
ReadIsCut ==
    /\ phase = "await" /\ toHost # <<>>
    /\ toHost' = Tail(toHost)
    /\ NextAttempt
    /\ UNCHANGED <<answerVars, toTool, toolVars, historyVars>>

(* unbuild.                                                                  *)
Valid == response # Corrupt

(* printResponse: whatever command and device a valid frame answers.           *)
PrintResponse ==
    /\ phase = "print" /\ Valid
    /\ printed' = response /\ response' = Tool!NoAnswer
    /\ Return
    /\ UNCHANGED <<lineVars, toolVars, historyVars>>

InvalidResponse ==
    /\ phase = "print" /\ ~Valid
    /\ response' = Tool!NoAnswer
    /\ NextAttempt
    /\ UNCHANGED <<printed, lineVars, toolVars, historyVars>>

-----------------------------------------------------------------------------
(* The tool (external here).                                                  *)

TheirVars == <<mainVars, answerVars, givenUp, doubt>>

ToolTakes ==
    /\ toTool # <<>>
    /\ Tool!Take(Head(toTool))
    /\ toTool' = Tail(toTool)
    /\ UNCHANGED <<TheirVars, toHost>>

ToolAnswers == Tool!AnswerStep /\ UNCHANGED <<TheirVars, lineVars>>

(* The answer arrives, is damaged, or is lost.                                *)
ToolDelivers ==
    /\ Tool!Deliver
    /\ toHost' \in {Append(toHost, answer), Append(toHost, Corrupt), toHost}
    /\ UNCHANGED <<TheirVars, toTool>>

ToolStarts == Tool!Start /\ UNCHANGED <<TheirVars, lineVars>>

ToolStops == (Tool!Arrive \/ Tool!Fail) /\ UNCHANGED <<TheirVars, lineVars>>

-----------------------------------------------------------------------------
Init ==
    /\ phase = "start" /\ portOpen = FALSE
    /\ command = "NONE" /\ attempt = 0 /\ transaction = 0
    /\ response = Tool!NoAnswer /\ printed = Tool!NoAnswer
    /\ toTool = <<>> /\ toHost = <<>>
    /\ Tool!ServiceInit
    /\ givenUp = FALSE /\ doubt = FALSE

StartUp == BadArguments \/ GoodArguments \/ OpenPort \/ OpenFails

TransactionStep ==
    \/ NoAttemptLeft \/ SendCommand \/ SendFails
    \/ ReadFrame \/ ReadTimesOut \/ ReadIsCut
    \/ PrintResponse \/ InvalidResponse

ToolStep == ToolTakes \/ ToolAnswers \/ ToolDelivers \/ ToolStarts \/ ToolStops

Next ==
    \/ StartUp \/ (\E c \in Codes : EnterCommand(c)) \/ Quit
    \/ TransactionStep \/ ReadNoise
    \/ ToolStep

Spec == Init /\ [][Next]_vars

(* The program runs, and the deadline of a wait comes; noise may never come.     *)
FairSpec == Spec /\ WF_vars(TransactionStep)

-----------------------------------------------------------------------------
Results == {"OK", "REJECTED_FAULT", "REJECTED_AT_TOP", "REJECTED_AT_BOTTOM", "INVALID_COMMAND",
            "ALREADY_MOVING", "REJECTED_SENSOR_CONFLICT"}
Answers == [cmd : Tool!Commands, result : Results \cup Tool!Reports]

TypeOK ==
    /\ phase \in Phases /\ portOpen \in BOOLEAN
    /\ command \in Codes \cup {"NONE"} /\ attempt \in Nat /\ transaction \in 0..MAX_TRANSACTIONS
    /\ phase \in Transacting => command # "NONE"
    /\ response \in Answers \cup {Corrupt, Tool!NoAnswer}
    /\ printed \in Answers \cup {Tool!NoAnswer}
    /\ toTool \in Seq(Codes) /\ toHost \in Seq(Answers \cup {Corrupt})
    /\ held \in Codes \cup {"NONE"} /\ answer \in Answers \cup {Tool!NoAnswer}
    /\ granted \in Tool!Directions \cup {"NONE"} /\ driven \subseteq Tool!Directions
    /\ faulty \in BOOLEAN /\ givenUp \in BOOLEAN /\ doubt \in BOOLEAN

(* An operator who reads that his STOP was executed has a tool that stands and    *)
(* is not about to move, whatever he commanded before and however often the STOP *)
(* was sent: unless an earlier command was given up, when what he reads may be    *)
(* the answer to an older STOP (transactWithRetries compares nothing).          *)
StopConfirmed ==
    ~doubt /\ command = "STOP" /\ printed = Tool!AnswerTo("STOP", "OK") =>
        granted = "NONE" /\ driven = {}

(* An operator who reads of a fault has a tool in fault until he stops or resets  *)
(* it, under the same condition: no attempt of the command that reported it, late *)
(* on its way, ends the fault.                                                *)
FaultConfirmed ==
    ~doubt /\ printed.result \in {"FAULT", "REJECTED_FAULT", "REJECTED_SENSOR_CONFLICT"} => faulty

(* Every command the operator enters comes back to the menu, whatever the line   *)
(* and the tool do, also with a max_attempts of zero or less.                  *)
TransactionEnds == phase \in Transacting ~> phase = "menu"
=============================================================================

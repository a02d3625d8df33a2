-------------------------- MODULE KeyboardController --------------------------
(* The keyboard controller of the tool, Raspberry/Tool_Raspbarry_base: main()   *)
(* opens and configures the serial port, reads one command after another from  *)
(* the operator and sends each up to max_attempts times until an answer comes. *)
(*                                                                           *)
(* The tool on the other side is the one ToolService promises (and SimpleTool   *)
(* is shown to keep that promise): it holds commands while it moves and answers *)
(* every one of them.  The line loses and damages frames; that it does so frame *)
(* by frame is what HilLine shows.  origin, grantedFor, tries, starts and        *)
(* givenUp are history: no action depends on them.                             *)
EXTENDS Integers, Sequences, FiniteSets

CONSTANTS
    MAX_ATTEMPTS,         \* max_attempts, as std::stoi read it
    BUFFER,               \* frames the tool holds beside the one it answers
    MAX_TRANSACTIONS      \* bound: commands the operator enters

ASSUME AttemptsAssumption == MAX_ATTEMPTS \in Int
ASSUME HeldFramesAssumption == BUFFER \in Nat
ASSUME TransactionsAssumption == MAX_TRANSACTIONS \in Nat

VARIABLES
    phase,                \* where main() stands
    portOpen, configured, \* the port, and the options that have been set on it
    command, attempt,     \* the command of transactWithRetries, its loop counter
    transaction,          \* the number of the command among those entered
    fromTool,             \* answers in the input of the port
    pending, lastAnswer, granted, motion,         \* the tool
    origin, grantedFor,   \* the transactions pending and granted come from
    tries, starts,        \* frames sent and movements started for a transaction
    givenUp               \* attempts that ended without taking an answer

portVars    == <<portOpen, configured>>
requestVars == <<command, attempt, transaction>>
toolVars    == <<pending, lastAnswer, granted, motion>>
originVars  == <<origin, grantedFor>>
vars == <<phase, portVars, requestVars, fromTool, toolVars, originVars, tries, starts, givenUp>>

Tool == INSTANCE ToolService WITH Frames <- {"UP", "DOWN", "STATUS"}

Codes        == {"UP", "DOWN", "STATUS"}
Options      == {"baudrate", "byteSize", "parity", "stopBits", "flowControl"}
Transactions == 1..MAX_TRANSACTIONS
Setting      == {"setBaudrate", "setByteSize", "setParity", "setNumStopBits", "setFlowControl"}
Transacting  == {"attempt", "await", "retry"}
Phases       == {"start", "open", "menu", "exited"} \cup Setting \cup Transacting

-----------------------------------------------------------------------------
(* Start-up.                                                                 *)

Elsewhere == UNCHANGED <<requestVars, fromTool, toolVars, originVars, tries, starts, givenUp>>

(* Too few arguments, --help, or one that is no number, which nothing catches.  *)
BadArguments ==
    /\ phase = "start"
    /\ phase' = "exited"
    /\ UNCHANGED portVars /\ Elsewhere

GoodArguments ==
    /\ phase = "start"
    /\ phase' = "open"
    /\ UNCHANGED portVars /\ Elsewhere

(* close(); main returns 1 when open fails.                                   *)
ClosePort ==
    /\ phase' = "exited"
    /\ portOpen' = FALSE /\ configured' = {}

OpenPort ==
    /\ phase = "open"
    /\ phase' = "setBaudrate"
    /\ portOpen' = TRUE /\ configured' = {}
    /\ Elsewhere

OpenFails ==
    /\ phase = "open"
    /\ ClosePort /\ Elsewhere

SetOption(setter, option, next) ==
    /\ phase = setter
    /\ phase' = next
    /\ configured' = configured \cup {option}
    /\ UNCHANGED portOpen /\ Elsewhere

setBaudrate    == SetOption("setBaudrate", "baudrate", "setByteSize")
setByteSize    == SetOption("setByteSize", "byteSize", "setParity")
setParity      == SetOption("setParity", "parity", "setNumStopBits")
setNumStopBits == SetOption("setNumStopBits", "stopBits", "setFlowControl")
setFlowControl == SetOption("setFlowControl", "flowControl", "menu")

(* Fault injection: an option the port refuses is left as it was.             *)
RefusedOptionSkipped ==
    /\ phase \in Setting
    /\ phase' = "menu"
    /\ UNCHANGED portVars /\ Elsewhere

(* The port refuses an option: the ones already set go with it.               *)
OptionRefused ==
    /\ phase \in Setting
    /\ ClosePort /\ Elsewhere

-----------------------------------------------------------------------------
(* The menu.                                                                 *)

EnterCommand(c) ==
    /\ phase = "menu" /\ transaction < MAX_TRANSACTIONS
    /\ phase' = "attempt"
    /\ command' = c /\ attempt' = 1
    /\ transaction' = transaction + 1
    /\ UNCHANGED <<portVars, fromTool, toolVars, originVars, tries, starts, givenUp>>

(* q, exit, or the end of the input; the port closes with its owner.           *)
Quit ==
    /\ phase = "menu"
    /\ ClosePort /\ Elsewhere

-----------------------------------------------------------------------------
(* transactWithRetries.                                                      *)

(* Fault injection: one attempt more than max_attempts.                       *)
OneMoreAttempt == attempt <= MAX_ATTEMPTS + 1

AttemptLeft == attempt <= MAX_ATTEMPTS

BackToMenu ==
    /\ phase' = "menu"
    /\ command' = "NONE" /\ attempt' = 0
    /\ UNCHANGED transaction

NoAttemptLeft ==
    /\ phase = "attempt" /\ ~AttemptLeft
    /\ BackToMenu
    /\ UNCHANGED <<portVars, fromTool, toolVars, originVars, tries, starts, givenUp>>

(* sendCommand: the frame reaches the tool, or is lost: on the line, because it *)
(* was damaged, or because the tool holds all it can.                         *)
SendCommand ==
    /\ phase = "attempt" /\ AttemptLeft
    /\ phase' = "await"
    /\ tries' = [tries EXCEPT ![transaction] = @ + 1]
    /\ \/ Tool!Accept(command) /\ origin' = Append(origin, transaction)
       \/ UNCHANGED <<toolVars, origin>>
    /\ UNCHANGED <<portVars, requestVars, fromTool, grantedFor, starts, givenUp>>

(* Not all of the frame could be written: the transaction ends at once.        *)
SendFails ==
    /\ phase = "attempt" /\ AttemptLeft
    /\ BackToMenu
    /\ UNCHANGED <<portVars, fromTool, toolVars, originVars, tries, starts, givenUp>>

(* printResponse: any valid frame ends the transaction, whatever command and    *)
(* device it answers.                                                        *)
TakeAnswer ==
    /\ phase = "await" /\ fromTool # <<>>
    /\ Head(fromTool) # "CORRUPT"
    /\ fromTool' = Tail(fromTool)
    /\ BackToMenu
    /\ UNCHANGED <<portVars, toolVars, originVars, tries, starts, givenUp>>

AttemptOver ==
    /\ phase' = "retry"
    /\ UNCHANGED <<portVars, requestVars, toolVars, originVars, tries, starts>>

(* Fault injection: a damaged answer is looked at and left in the input.      *)
InvalidAnswerKept ==
    /\ phase = "await" /\ fromTool # <<>>
    /\ Head(fromTool) = "CORRUPT"
    /\ UNCHANGED <<fromTool, givenUp>> /\ AttemptOver

(* A damaged answer.                                                         *)
InvalidAnswer ==
    /\ phase = "await" /\ fromTool # <<>>
    /\ Head(fromTool) = "CORRUPT"
    /\ fromTool' = Tail(fromTool)
    /\ UNCHANGED givenUp /\ AttemptOver

(* Fault injection: the wait has no deadline and ends only when something came. *)
WaitWithoutDeadline ==
    /\ phase = "await" /\ fromTool # <<>>
    /\ givenUp' = givenUp + 1
    /\ UNCHANGED fromTool /\ AttemptOver

(* readFrameTimed returns without an answer of the tool: nothing came, or noise *)
(* that closed a frame.                                                      *)
NoAnswer ==
    /\ phase = "await"
    /\ givenUp' = givenUp + 1
    /\ UNCHANGED fromTool /\ AttemptOver

(* The deadline passes in the middle of an answer, and the rest of it is noise.  *)
AnswerCut ==
    /\ phase = "await" /\ fromTool # <<>>
    /\ fromTool' = Tail(fromTool)
    /\ UNCHANGED givenUp /\ AttemptOver

(* RETRY_DELAY_MS, except after the last attempt.                             *)
NextAttempt ==
    /\ phase = "retry"
    /\ phase' = "attempt"
    /\ attempt' = attempt + 1
    /\ UNCHANGED <<portVars, command, transaction, fromTool, toolVars, originVars, tries,
                   starts, givenUp>>

-----------------------------------------------------------------------------
(* The tool (external here; ToolService and SimpleTool model it).             *)

(* Its answer arrives, is lost, or arrives damaged.                           *)
ToolAnswers ==
    /\ \E r \in {"OK", "REJECTED_AT_TOP", "REJECTED_AT_BOTTOM", "STATUS"} : Tool!Answer(r)
    /\ origin' = Tail(origin)
    /\ grantedFor' = IF granted' = "NONE" THEN 0 ELSE Head(origin)
    /\ \/ fromTool' \in {Append(fromTool, Head(pending)), Append(fromTool, "CORRUPT")}
       \/ UNCHANGED fromTool
    /\ UNCHANGED <<phase, portVars, requestVars, tries, starts, givenUp>>

ToolStarts ==
    /\ Tool!Start
    /\ starts' = [starts EXCEPT ![grantedFor] = @ + 1]
    /\ grantedFor' = 0
    /\ UNCHANGED <<phase, portVars, requestVars, fromTool, origin, tries, givenUp>>

ToolStops ==
    /\ Tool!Stop
    /\ UNCHANGED <<phase, portVars, requestVars, fromTool, originVars, tries, starts, givenUp>>

ToolResets ==
    /\ Tool!Reset
    /\ origin' = <<>> /\ grantedFor' = 0
    /\ UNCHANGED <<phase, portVars, requestVars, fromTool, tries, starts, givenUp>>

-----------------------------------------------------------------------------
Init ==
    /\ phase = "start"
    /\ portOpen = FALSE /\ configured = {}
    /\ command = "NONE" /\ attempt = 0 /\ transaction = 0
    /\ fromTool = <<>> /\ Tool!ServiceInit
    /\ origin = <<>> /\ grantedFor = 0
    /\ tries = [t \in Transactions |-> 0] /\ starts = [t \in Transactions |-> 0]
    /\ givenUp = 0

StartUp ==
    \/ BadArguments \/ GoodArguments \/ OpenPort \/ OpenFails
    \/ setBaudrate \/ setByteSize \/ setParity \/ setNumStopBits \/ setFlowControl
    \/ OptionRefused

TransactionStep ==
    \/ NoAttemptLeft \/ SendCommand \/ SendFails
    \/ TakeAnswer \/ InvalidAnswer \/ NoAnswer \/ AnswerCut \/ NextAttempt

Next ==
    \/ StartUp \/ (\E c \in Codes : EnterCommand(c)) \/ Quit
    \/ TransactionStep
    \/ ToolAnswers \/ ToolStarts \/ ToolStops \/ ToolResets

Spec == Init /\ [][Next]_vars

(* The program runs, and the deadline of a wait comes.                        *)
FairSpec == Spec /\ WF_vars(TransactionStep)

-----------------------------------------------------------------------------
TypeOK ==
    /\ phase \in Phases
    /\ portOpen \in BOOLEAN /\ configured \in SUBSET Options
    /\ command \in Codes \cup {"NONE"} /\ attempt \in Nat
    /\ transaction \in 0..MAX_TRANSACTIONS
    /\ fromTool \in Seq(Codes \cup {"CORRUPT"})
    /\ pending \in Seq(Codes) /\ Len(pending) <= BUFFER + 1
    /\ granted \in {"UP", "DOWN", "NONE"} /\ motion \in {"UP", "DOWN", "NONE"}
    /\ origin \in Seq(Transactions) /\ grantedFor \in 0..MAX_TRANSACTIONS
    /\ tries \in [Transactions -> Nat] /\ starts \in [Transactions -> Nat]
    /\ givenUp \in Nat

(* The tool hears the program only through a port all of whose options were     *)
(* set: one that opens and refuses an option half way is closed, and nothing     *)
(* is sent at a rate nobody asked for.                                        *)
PortReady ==
    /\ phase \in {"menu"} \cup Transacting => portOpen /\ configured = Options
    /\ phase = "exited" => ~portOpen

Entries(s, t) == {i \in DOMAIN s : s[i] = t}
Count(t) == Cardinality(Entries(origin, t)) + IF grantedFor = t THEN 1 ELSE 0

(* A command is sent again after a timeout though the tool may only have been   *)
(* late: the movements it has caused and those it may still cause are no more    *)
(* than the frames sent for it, and these no more than max_attempts.           *)
ExecutionsWithinAttempts ==
    \A t \in Transactions :
        /\ starts[t] + Count(t) <= tries[t]
        /\ tries[t] <= MAX_ATTEMPTS \/ tries[t] = 0

(* The answers that wait for a later command to take them for its own are at     *)
(* most as many as the attempts that were given up without one: nothing flushes  *)
(* them, and nothing else adds to them.                                       *)
AnswersOwed ==
    Len(pending) + Len(fromTool) <= givenUp + IF phase = "await" THEN 1 ELSE 0

(* Every command the operator enters comes back to the menu, whatever the line   *)
(* and the tool do, also with a max_attempts of zero or less.                  *)
TransactionEnds == phase \in Transacting ~> phase = "menu"

(* Until an attempt has been given up, a wait that finds an answer finds the     *)
(* answer to the command just sent.                                           *)
AnswersMatchUntilGivenUp ==
    givenUp = 0 /\ phase = "await" /\ fromTool # <<>> =>
        Head(fromTool) \in {command, "CORRUPT"}
=============================================================================

----------------------------- MODULE RadioBridge -----------------------------
(* The RC radio bridge, Raspberry/RC_Tool_Radio_Bridge: one process that reads  *)
(* its arguments, opens its serial port and its socket, sends the tool up once,  *)
(* and then polls the socket for RC_CHANNELS, classifies the two-position switch *)
(* and sends a command each time the position changes, waiting for one answer.  *)
(*                                                                           *)
(* Around it: the radio and the autopilot, which publish the channel while the *)
(* stream is on; the tool, which takes commands from a small receive buffer and *)
(* answers each one once, at any later time; a line that loses frames and makes  *)
(* frames of its own.                                                        *)
EXTENDS Integers, Sequences

CONSTANTS
    CommandLines,     \* the argument lists considered
    Pwm,              \* the values the channel takes, 0 for no signal
    Fronts,           \* the messages that may precede RC_CHANNELS in its datagram
    RC_BUFFER,        \* datagrams the UDP socket holds
    TOOL_BUFFER,      \* command frames the tool's receive buffer holds
    MAX_UPSETS,       \* bound: requests lost, values hidden, upsets of the autopilot
    MAX_NOISE         \* bound: waits that end with a frame no tool has sent

(* An argument is an option and its value: a number (of a path or an address,   *)
(* whether it is one), or {} when the value is missing or is no number.         *)
ASSUME ArgumentsAssumption == CommandLines \subseteq Seq([option : STRING, value : SUBSET Int])
ASSUME PwmAssumption == \A p \in Pwm : p \in Nat /\ p < 65536
ASSUME FrontsAssumption == Fronts \subseteq Seq({"SKIPPED", "OTHER"})
ASSUME RcBufferAssumption == RC_BUFFER \in Nat \ {0}
ASSUME ToolBufferAssumption == TOOL_BUFFER \in Nat \ {0}
ASSUME UpsetsAssumption == MAX_UPSETS \in Nat
ASSUME NoiseAssumption == MAX_NOISE \in Nat

VARIABLES
    arguments, config,     \* arguments not yet read; the options that matter later
    running,               \* g_running
    phase,                 \* where main() stands
    lastPosition,          \* last_switch_position
    baselineCaptured,
    pwm,                   \* pwm_us of the last message classified
    requestDue,            \* 2000 ms have passed since the stream was requested
    stick, streaming, upsets, rc,        \* the radio, the autopilot, the socket
    toTool, fromTool,      \* commands the tool has not answered; unread answers
    givenUp,               \* history: a wait ended without an answer, in this run or before
    noises,                \* history: how many ended with noise
    called,                \* history: the movement the start-up or the last change calls for
    fate                   \* history: what became of its command

configVars == <<arguments, config>>
radioVars  == <<stick, streaming, upsets, rc>>
lineVars   == <<toTool, fromTool, givenUp, noises, called, fate>>
switchVars == <<lastPosition, baselineCaptured, pwm>>
vars == <<configVars, running, phase, switchVars, requestDue, radioVars, lineVars>>

Positions == {"UNKNOWN", "DOWN", "UP"}
Commands  == {"UP", "DOWN", "STATUS"}
Movements == {"UP", "DOWN"}
Sending   == {"startup", "edge", "status"}
Awaiting  == {"awaitStartup", "awaitEdge", "awaitStatus"}
Starting  == {"arguments", "serial", "endpoint"}
Phases    == {"top", "poll", "sleep", "stopped"} \cup Starting \cup Sending \cup Awaiting

-----------------------------------------------------------------------------
(* Config, as far as its values are looked at again; 0 and 1 for a flag, for an  *)
(* address whether it is one.                                                *)
Flags == {"--dry-run", "--status-after-command", "--no-request-rc-stream", "--invert-switch"}
Paths == {"--tool-port", "--mavlink-bind-ip", "--mavlink-request-ip"}
Ports == {"--mavlink-bind-port", "--mavlink-request-port"}
Bytes == {"--target-system", "--target-component"}
Numbers == {"--tool-baud", "--tool-id", "--rc-channel", "--switch-threshold",
            "--switch-hysteresis", "--request-rc-rate-hz", "--ack-timeout-ms"}

Kept == Flags \cup {"--tool-baud", "--rc-channel", "--switch-threshold", "--switch-hysteresis",
                    "--request-rc-rate-hz", "--mavlink-request-ip", "--mavlink-request-port"}

Defaults ==
    [option \in Kept |->
        CASE option = "--switch-threshold"                            -> 1500
          [] option = "--switch-hysteresis"                           -> 80
          [] option = "--rc-channel"                                  -> 8
          [] option = "--tool-baud"                                   -> 9600
          [] option = "--request-rc-rate-hz"                          -> 10
          [] option = "--mavlink-request-port"                        -> 14540
          [] option \in {"--invert-switch", "--mavlink-request-ip"}   -> 1
          [] OTHER                                                    -> 0]

(* parseInt, parseUInt16, parseUInt8 and parseFloat.                          *)
Accepted(option) ==
    CASE option \in Ports             -> 0..65535
      [] option \in Bytes             -> 0..255
      [] option = "--ack-timeout-ms"  -> Nat
      [] OTHER                        -> Int

Bauds == {9600, 19200, 38400, 57600, 115200, 230400, 460800, 921600}

DryRun       == config["--dry-run"] = 1
StatusAfter  == config["--status-after-command"] = 1
AsksStream   == config["--no-request-rc-stream"] = 0
Sendable     == config["--mavlink-request-ip"] = 1 /\ config["--mavlink-request-port"] # 0
InvertSwitch == config["--invert-switch"] = 1

-----------------------------------------------------------------------------
(* classifyTwoPositionSwitch.                                                *)
Threshold == config["--switch-threshold"]
LowLimit  == Threshold - config["--switch-hysteresis"]
HighLimit == Threshold + config["--switch-hysteresis"]

(* Fault injection: the upper limit itself does not count as above the band.   *)
RawStrict(p, previous) ==
    CASE previous = "UP"   -> IF p <= LowLimit THEN "DOWN" ELSE "UP"
      [] previous = "DOWN" -> IF p > HighLimit THEN "UP" ELSE "DOWN"
      [] OTHER             -> IF p >= Threshold THEN "UP" ELSE "DOWN"

RawPosition(p, previous) ==
    CASE previous = "UP"   -> IF p <= LowLimit THEN "DOWN" ELSE "UP"
      [] previous = "DOWN" -> IF p >= HighLimit THEN "UP" ELSE "DOWN"
      [] OTHER             -> IF p >= Threshold THEN "UP" ELSE "DOWN"

Inverted(position) == IF position = "UP" THEN "DOWN" ELSE "UP"

Classify(p, previous) ==
    IF InvertSwitch THEN Inverted(RawPosition(p, previous)) ELSE RawPosition(p, previous)

-----------------------------------------------------------------------------
(* A datagram is the messages in it.  "SKIPPED" stands for one that is damaged,  *)
(* cut off at 512 bytes, or of a type whose CRC_EXTRA crcExtraForMessage does     *)
(* not know; "OTHER" for one that passes and is not RC_CHANNELS.               *)
Rc(p)   == <<"RC", p>>
Kind(k) == <<k, 0>>
RcDatagram(front, p) == Append([i \in DOMAIN front |-> Kind(front[i])], Rc(p))

(* parseDatagram returns the first message that passes its check.             *)
Passing(datagram) == {i \in DOMAIN datagram : datagram[i][1] # "SKIPPED"}
parseDatagram(datagram) ==
    {datagram[i] : i \in {j \in Passing(datagram) : \A k \in Passing(datagram) : j <= k}}

(* extractRcChannelPwm.                                                      *)
RcValues(messages) == {m[2] : m \in {n \in messages : n[1] = "RC"}} \ {0, 65535}

-----------------------------------------------------------------------------
(* The radio and the autopilot (external).                                   *)

MoveStick(p) == /\ stick' = p
                /\ UNCHANGED <<configVars, running, phase, switchVars, requestDue,
                               streaming, upsets, rc, lineVars>>

SocketOpen == phase \notin Starting \cup {"stopped"}

(* A datagram for a full socket buffer is dropped.                            *)
Publish(front) ==
    /\ streaming /\ SocketOpen
    /\ rc' = IF Len(rc) < RC_BUFFER THEN Append(rc, RcDatagram(front, stick)) ELSE rc
    /\ UNCHANGED <<configVars, running, phase, switchVars, requestDue, stick, streaming, lineVars>>

PublishRc ==
    /\ \E front \in Fronts : parseDatagram(RcDatagram(front, stick)) = {Rc(stick)} /\ Publish(front)
    /\ UNCHANGED upsets

(* RC_CHANNELS behind a message that is parsed in its place.                  *)
PublishHidden ==
    /\ upsets < MAX_UPSETS
    /\ \E front \in Fronts : parseDatagram(RcDatagram(front, stick)) # {Rc(stick)} /\ Publish(front)
    /\ upsets' = upsets + 1

AutopilotRestarts ==
    /\ streaming /\ upsets < MAX_UPSETS
    /\ streaming' = FALSE
    /\ upsets' = upsets + 1
    /\ UNCHANGED <<configVars, running, phase, switchVars, requestDue, stick, rc, lineVars>>

(* The tool and the line (external).                                         *)

(* The movement commands the tool has still to take, and what becomes of the   *)
(* one the last change calls for when it takes the next.                       *)
Waiting == {i \in DOMAIN toTool : toTool[i] \in Movements}

FateTaken ==
    IF fate \in {"sent", "obeyed"} /\ Waiting = {1}
      THEN IF Head(toTool) = called THEN "obeyed" ELSE "undone"
      ELSE fate

(* The tool takes the oldest command it holds and answers it; the answer may   *)
(* get lost, or not arrive whole before the wait for it ends.  What it says, or   *)
(* that it is damaged, is only printed: an answer is the command it is for.      *)
ToolTakes ==
    /\ toTool # <<>>
    /\ toTool' = Tail(toTool)
    /\ fate' = FateTaken
    /\ UNCHANGED <<configVars, running, phase, switchVars, requestDue, radioVars,
                   givenUp, noises, called>>

ToolAnswers == ToolTakes /\ fromTool' = Append(fromTool, Head(toTool))

AnswerLost == ToolTakes /\ UNCHANGED fromTool

-----------------------------------------------------------------------------
(* main().                                                                   *)

(* SIGINT or SIGTERM; before their handler is installed, the process ends.     *)
Interrupt ==
    /\ running /\ phase # "stopped"
    /\ running' = FALSE
    /\ phase' = IF phase = "arguments" THEN "stopped" ELSE phase
    /\ UNCHANGED <<configVars, switchVars, requestDue, radioVars, lineVars>>

(* Two seconds pass.                                                         *)
RequestFallsDue ==
    /\ ~requestDue /\ phase # "stopped"
    /\ requestDue' = TRUE
    /\ UNCHANGED <<configVars, running, phase, switchVars, radioVars, lineVars>>

(* parseArguments, argument by argument.                                     *)
ReadingArgument == phase = "arguments" /\ arguments # <<>>
Elsewhere == UNCHANGED <<running, switchVars, requestDue, radioVars, lineVars>>

SetFlag ==
    /\ ReadingArgument /\ Head(arguments).option \in Flags
    /\ config' = [config EXCEPT ![Head(arguments).option] = 1]
    /\ arguments' = Tail(arguments)
    /\ UNCHANGED phase /\ Elsewhere

SetValue ==
    /\ ReadingArgument
    /\ Head(arguments).option \in Paths \cup Ports \cup Bytes \cup Numbers
    /\ \E value \in Head(arguments).value :
          /\ value \in Accepted(Head(arguments).option)
          /\ config' = IF Head(arguments).option \in Kept
                         THEN [config EXCEPT ![Head(arguments).option] = value]
                         ELSE config
    /\ arguments' = Tail(arguments)
    /\ UNCHANGED phase /\ Elsewhere

(* --help, an option unknown, or one whose value is missing or not accepted.   *)
RejectArgument ==
    /\ ReadingArgument
    /\ Head(arguments).option \notin Flags
    /\ \/ Head(arguments).option \notin Paths \cup Ports \cup Bytes \cup Numbers
       \/ Head(arguments).value \cap Accepted(Head(arguments).option) = {}
    /\ phase' = "stopped"
    /\ UNCHANGED configVars /\ Elsewhere

CheckArguments ==
    /\ phase = "arguments" /\ arguments = <<>>
    /\ phase' = IF config["--rc-channel"] \in 1..18 /\ config["--switch-hysteresis"] \in 0..399
                  THEN "serial"
                  ELSE "stopped"
    /\ UNCHANGED configVars /\ Elsewhere

(* openPort: what came before is flushed.                                     *)
OpenSerial ==
    /\ phase = "serial"
    /\ DryRun \/ config["--tool-baud"] \in Bauds
    /\ phase' = "endpoint"
    /\ fromTool' = IF DryRun THEN fromTool ELSE <<>>
    /\ UNCHANGED <<configVars, running, switchVars, requestDue, radioVars,
                   toTool, givenUp, noises, called, fate>>

OpenSerialFails ==
    /\ phase = "serial" /\ ~DryRun
    /\ phase' = "stopped"
    /\ UNCHANGED configVars /\ Elsewhere

OpenEndpoint ==
    /\ phase = "endpoint"
    /\ phase' \in {"startup", "stopped"}
    /\ UNCHANGED configVars /\ Elsewhere

(* The head of the loop.                                                     *)
Stop ==
    /\ phase = "top" /\ ~running
    /\ phase' = "stopped"
    /\ UNCHANGED configVars /\ Elsewhere

(* Fault injection: the stream is requested until a value has come, then no more. *)
RequestedUntilBaseline == AsksStream /\ requestDue /\ ~baselineCaptured

Requested == AsksStream /\ requestDue

PollOnly ==
    /\ phase = "top" /\ running /\ ~Requested
    /\ phase' = "poll"
    /\ UNCHANGED configVars /\ Elsewhere

(* sendSetMessageInterval: a rate of zero or less asks for no messages at all.  *)
RequestStream ==
    /\ phase = "top" /\ running /\ Requested /\ Sendable
    /\ phase' = "poll"
    /\ requestDue' = FALSE
    /\ streaming' = (config["--request-rc-rate-hz"] > 0)
    /\ UNCHANGED <<configVars, running, switchVars, stick, upsets, rc, lineVars>>

(* The request cannot be sent, or is lost; the next one is due as late.        *)
RequestFails ==
    /\ phase = "top" /\ running /\ Requested
    /\ phase' = "poll"
    /\ requestDue' = FALSE
    /\ \/ ~Sendable /\ UNCHANGED upsets
       \/ upsets < MAX_UPSETS /\ upsets' = upsets + 1
    /\ UNCHANGED <<configVars, running, switchVars, stick, streaming, rc, lineVars>>

PollTimeout ==
    /\ phase = "poll" /\ rc = <<>>
    /\ phase' = "top"
    /\ UNCHANGED <<configVars, running, switchVars, requestDue, radioVars, lineVars>>

IgnoreMessage ==
    /\ phase = "poll" /\ rc # <<>>
    /\ RcValues(parseDatagram(Head(rc))) = {}
    /\ rc' = Tail(rc)
    /\ phase' = "top"
    /\ UNCHANGED <<configVars, running, switchVars, requestDue, stick, streaming, upsets, lineVars>>

(* A value of the channel: the first one is the baseline, later ones are      *)
(* compared with the last position, which is updated before anything is sent.  *)
ReceiveRc ==
    /\ phase = "poll" /\ rc # <<>>
    /\ pwm' \in RcValues(parseDatagram(Head(rc)))
    /\ rc' = Tail(rc)
    /\ lastPosition' = Classify(pwm', lastPosition)
    /\ baselineCaptured' = TRUE
    /\ \/ baselineCaptured /\ lastPosition' # lastPosition
          /\ phase' = "edge" /\ called' = lastPosition' /\ fate' = "due"
       \/ ~(baselineCaptured /\ lastPosition' # lastPosition)
          /\ phase' = "top" /\ UNCHANGED <<called, fate>>
    /\ UNCHANGED <<configVars, running, requestDue, stick, streaming, upsets,
                   toTool, fromTool, givenUp, noises>>

-----------------------------------------------------------------------------
(* sendToolCommand.                                                          *)
CommandOf(p) ==
    CASE p \in {"startup", "awaitStartup"} -> "UP"
      [] p \in {"edge", "awaitEdge"}       -> IF lastPosition = "UP" THEN "UP" ELSE "DOWN"
      [] OTHER                             -> "STATUS"

AwaitOf(p) == CASE p = "startup" -> "awaitStartup"
                [] p = "edge"    -> "awaitEdge"
                [] OTHER         -> "awaitStatus"

After(p) ==
    CASE p \in {"startup", "awaitStartup"} -> "top"
      [] p \in {"edge", "awaitEdge"}       -> IF StatusAfter THEN "status" ELSE "sleep"
      [] OTHER                             -> "sleep"

(* What becomes of a command: the one the last change calls for is due once.  *)
Fate(p, outcome) ==
    IF CommandOf(p) \in Movements THEN IF fate = "due" THEN outcome ELSE "twice"
                                   ELSE fate

(* writeAll writes the frame.  A tool whose receive buffer is full misses it,  *)
(* and so does one that the line keeps it from.                               *)
SendCommand ==
    /\ phase \in Sending /\ ~DryRun
    /\ \/ /\ Len(toTool) < TOOL_BUFFER
          /\ toTool' = Append(toTool, CommandOf(phase)) /\ fate' = Fate(phase, "sent")
       \/ toTool' = toTool /\ fate' = Fate(phase, "missed")
    /\ phase' = AwaitOf(phase)
    /\ UNCHANGED <<configVars, running, switchVars, requestDue, radioVars,
                   fromTool, givenUp, noises, called>>

(* --dry-run, or writeAll fails.                                             *)
SkipCommand ==
    /\ phase \in Sending
    /\ phase' = After(phase) /\ fate' = Fate(phase, "missed")
    /\ UNCHANGED <<configVars, running, switchVars, requestDue, radioVars,
                   toTool, fromTool, givenUp, noises, called>>

(* readAndPrintToolResponse returns, with an answer, in silence or with noise.  *)
EndWait ==
    /\ phase \in Awaiting
    /\ phase' = After(phase)
    /\ UNCHANGED <<configVars, running, switchVars, requestDue, radioVars,
                   toTool, called, fate>>

(* Fault injection: the answer is looked at and left in the buffer.           *)
PeekAnswer == fromTool # <<>> /\ EndWait /\ UNCHANGED <<fromTool, givenUp, noises>>

(* It takes whatever frame comes first: neither the command nor the device of  *)
(* the answer is compared with the request.                                   *)
TakeAnswer ==
    /\ fromTool # <<>> /\ EndWait
    /\ fromTool' = Tail(fromTool)
    /\ UNCHANGED <<givenUp, noises>>

(* Fault injection: a wait that has timed out is repeated.                    *)
WaitAgain ==
    /\ phase \in Awaiting /\ fromTool = <<>>
    /\ givenUp' = TRUE
    /\ UNCHANGED <<configVars, running, phase, switchVars, requestDue, radioVars,
                   toTool, fromTool, noises, called, fate>>

(* Fault injection: after the silence the command is sent again, as the        *)
(* keyboard programs do.                                                      *)
SendAgain ==
    /\ phase \in Awaiting /\ fromTool = <<>>
    /\ givenUp' = TRUE
    /\ phase' \in {p \in Sending : AwaitOf(p) = phase}
    /\ UNCHANGED <<configVars, running, switchVars, requestDue, radioVars,
                   toTool, fromTool, noises, called, fate>>

AnswerTimeout ==
    /\ fromTool = <<>> /\ EndWait
    /\ givenUp' = TRUE
    /\ UNCHANGED <<fromTool, noises>>

(* readFrame returns any bytes between two delimiters.  Noise that is no HIL    *)
(* frame ends the wait: the answer is still to come, or stays behind it unread.  *)
NoiseEndsWait ==
    /\ noises < MAX_NOISE /\ EndWait
    /\ givenUp' = TRUE /\ noises' = noises + 1
    /\ UNCHANGED fromTool

(* The 50 ms pause; the socket keeps what it holds.                           *)
WakeUp ==
    /\ phase = "sleep"
    /\ phase' = "top"
    /\ UNCHANGED <<configVars, running, switchVars, requestDue, radioVars, lineVars>>

-----------------------------------------------------------------------------
(* The process before this one may have left a command with the tool, or its   *)
(* answer in the port.                                                       *)
LeftBehind ==
    \E left \in {<<>>} \cup {<<c>> : c \in Commands} :
        \/ toTool = left /\ fromTool = <<>>
        \/ toTool = <<>> /\ fromTool = left

Init ==
    /\ arguments \in CommandLines /\ config = Defaults
    /\ running = TRUE /\ phase = "arguments"
    /\ lastPosition = "UNKNOWN" /\ baselineCaptured = FALSE /\ pwm = 0
    /\ requestDue = TRUE
    /\ stick \in Pwm /\ streaming \in BOOLEAN /\ upsets = 0 /\ rc = <<>>
    /\ LeftBehind
    /\ givenUp = (toTool # <<>>)
    /\ noises = 0 /\ called = "UP" /\ fate = "due"

StartStep ==
    \/ SetFlag \/ SetValue \/ RejectArgument \/ CheckArguments
    \/ OpenSerial \/ OpenSerialFails \/ OpenEndpoint

BridgeStep ==
    \/ StartStep
    \/ Stop \/ PollOnly \/ RequestStream \/ RequestFails
    \/ PollTimeout \/ IgnoreMessage \/ ReceiveRc
    \/ SendCommand \/ SkipCommand \/ TakeAnswer \/ AnswerTimeout \/ WakeUp

Next ==
    \/ BridgeStep \/ NoiseEndsWait \/ Interrupt \/ RequestFallsDue
    \/ \E p \in Pwm : MoveStick(p)
    \/ PublishRc \/ PublishHidden \/ AutopilotRestarts
    \/ ToolAnswers \/ AnswerLost

Spec == Init /\ [][Next]_vars

(* The process is scheduled, time passes, and an autopilot that has been asked *)
(* for the stream keeps publishing it where it can be parsed.  AnswerTimeout is  *)
(* fair as part of BridgeStep: the line falls silent for ack_timeout_ms sooner   *)
(* or later.  Noise is not: it may never come.                                 *)
FairSpec ==
    Spec /\ WF_vars(BridgeStep) /\ WF_vars(RequestFallsDue) /\ WF_vars(PublishRc)

-----------------------------------------------------------------------------
Messages == ({"RC"} \X Pwm) \cup ({"SKIPPED", "OTHER"} \X {0})

TypeOK ==
    /\ arguments \in Seq([option : STRING, value : SUBSET Int])
    /\ config \in [Kept -> Int] /\ running \in BOOLEAN
    /\ phase \in Phases
    /\ lastPosition \in Positions /\ baselineCaptured \in BOOLEAN /\ pwm \in Pwm \cup {0}
    /\ requestDue \in BOOLEAN /\ streaming \in BOOLEAN /\ givenUp \in BOOLEAN
    /\ stick \in Pwm /\ upsets \in 0..MAX_UPSETS
    /\ rc \in Seq(Seq(Messages)) /\ Len(rc) <= RC_BUFFER
    /\ toTool \in Seq(Commands) /\ Len(toTool) <= TOOL_BUFFER
    /\ fromTool \in Seq(Commands) /\ noises \in 0..MAX_NOISE
    /\ called \in Movements
    /\ fate \in {"due", "missed", "twice", "sent", "obeyed", "undone"}

AboveBand(p) == p >= HighLimit /\ p > LowLimit
BelowBand(p) == p <= LowLimit /\ p < HighLimit
InBand(p)    == LowLimit < p /\ p < HighLimit
HighPosition == IF InvertSwitch THEN "DOWN" ELSE "UP"

(* Outside the band the switch decides alone: whatever the last position was, *)
(* a high value selects one position and a low value the other                 *)
(* (classifyTwoPositionSwitch stores the inverted position it later reads).     *)
OutOfBandDecides ==
    baselineCaptured =>
        /\ AboveBand(pwm) => lastPosition = HighPosition
        /\ BelowBand(pwm) => lastPosition = Inverted(HighPosition)

(* No answer is ahead of its request: until a wait has ended without its       *)
(* answer, in silence or with noise, the frame the bridge takes answers the      *)
(* command it has just sent (readAndPrintToolResponse does not compare them).    *)
AnswersMatchUntilGivenUp ==
    ~givenUp /\ phase \in Awaiting /\ fromTool # <<>> => Head(fromTool) = CommandOf(phase)

(* Late answers do not pile up: though the serial input is flushed only when  *)
(* the port is opened, the answers waiting there and the commands still to be   *)
(* answered are at most one more than the tool's buffer holds, however many      *)
(* waits time out; only a wait that noise has ended leaves one more for good.    *)
BacklogBounded == Len(toTool) + Len(fromTool) <= TOOL_BUFFER + 1 + noises

(* Each change of position is commanded once (README, Control logic): its       *)
(* command is not forgotten, nor sent a second time, and when it has reached      *)
(* the tool it is the movement the tool carries out last, behind whatever an       *)
(* earlier change, a late wait or the process before this one has left there.      *)
ChangeCommandedOnce ==
    /\ fate \notin {"twice", "undone"}
    /\ fate = "due" => phase \in Starting \cup {"startup", "edge", "stopped"}
    /\ fate = "sent" => \E i \in Waiting : toTool[i] = called /\ \A j \in Waiting : j <= i
    /\ fate = "obeyed" => Waiting = {}

(* A switch left above the band is obeyed in the end: lastPosition settles     *)
(* on the position it selects, through a restart of the autopilot, a lost        *)
(* request, a hidden value and a full socket buffer, unless the program ends or    *)
(* its options keep it from asking for the stream.                             *)
SwitchObeyed ==
    <>[](AboveBand(stick) /\ stick # 65535 /\ AsksStream /\ Sendable
            /\ config["--request-rc-rate-hz"] > 0) =>
        <>(phase = "stopped") \/ <>[](lastPosition = HighPosition)

(* After a signal the program ends, wherever it was waiting.                   *)
ShutdownCompletes == ~running ~> phase = "stopped"

-----------------------------------------------------------------------------
(* What the documentation says and the code does not do.                     *)

(* README, Control logic: a hysteresis band avoids false transitions; noise    *)
(* inside the band changes nothing.                                           *)
BandIsQuiet == [][baselineCaptured /\ InBand(pwm') => lastPosition' = lastPosition]_vars
=============================================================================

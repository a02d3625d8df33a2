------------------------------ MODULE SimpleTool ------------------------------
(* The blocking tool firmware, Tool_firmware/Simple_firmware: loop() takes one  *)
(* frame, answers it and, for an accepted movement, stays in a loop that looks   *)
(* at the limit, the time and the current every CHECK_PERIOD.  Commands that      *)
(* come meanwhile wait in the buffer of the serial port.                         *)
(*                                                                           *)
(* Time is counted in ticks and passes in the delays and in readFrom; the rest  *)
(* of the sketch takes microseconds.  onFor, limitFor, stallFor and lastAnswer   *)
(* are history: no action reads them.                                          *)
EXTENDS Integers, Sequences

CONSTANTS
    W,                    \* millis() counts modulo W (2^32 in the firmware)
    MOVEMENT_TIMEOUT,     \* MOVEMENT_TIMEOUT_MS
    CHECK_PERIOD,         \* CHECK_PERIOD_MS
    DEAD_TIME,            \* DIRECTION_DEAD_TIME_MS
    ACK_DELAY,            \* RS485_ACK_DELAY_MS and the transmission
    PAUSE,                \* the delay(50) after the answer
    CALIBRATION_TIME,     \* the hundred delay(5) of the calibration
    Frames,               \* the frames the masters on the line may send
    BUFFER                \* frames the buffer of the serial port holds

(* The counter does not come round between two evaluations of the timeout.     *)
ASSUME TimingAssumption ==
    /\ W \in Nat /\ MOVEMENT_TIMEOUT \in Nat /\ CHECK_PERIOD \in Nat
    /\ DEAD_TIME \in Nat /\ ACK_DELAY \in Nat /\ PAUSE \in Nat /\ CALIBRATION_TIME \in Nat
    /\ MOVEMENT_TIMEOUT > 0 /\ CHECK_PERIOD > 0
    /\ W > MOVEMENT_TIMEOUT + CHECK_PERIOD
ASSUME BufferAssumption == BUFFER \in Nat \ {0}

VARIABLES
    phase,                \* where setup() or loop() stands
    remaining,            \* ticks left of the present delay
    clk,                  \* millis()
    relay,                \* the output pins, TRUE = driven active
    limit,                \* the limit sensor of a direction is active
    jammed,               \* the motor draws more than CURRENT_LIMIT_A when driven
    rxBuffer,             \* frames in the buffer of rs485Serial
    cmd, result,          \* the command of rxFrame and the answer decided on
    startTime, skipFirstCurrentCheck,    \* locals of moveUpSimple, moveDownSimple
    onFor, limitFor, stallFor, lastAnswer

plantVars   == <<limit, jammed>>
commandVars == <<cmd, result>>
moveVars    == <<startTime, skipFirstCurrentCheck>>
historyVars == <<onFor, limitFor, stallFor>>
vars == <<phase, remaining, clk, relay, plantVars, rxBuffer, commandVars, moveVars,
          historyVars, lastAnswer>>

Directions == {"UP", "DOWN"}
Commands   == {"UP", "DOWN", "STATUS", "INVALID", "FOREIGN"}
Results    == {"NONE", "OK", "REJECTED_AT_TOP", "REJECTED_AT_BOTTOM", "STATUS", "INVALID_COMMAND"}
Phases     == {"pinUp", "pinDown", "forceOff", "calibrate", "read", "ack", "pause",
               "dead", "moving"}
ASSUME FramesAssumption == Frames \subseteq Commands

Opposite(d)   == IF d = "UP" THEN "DOWN" ELSE "UP"
RejectedAt(d) == IF d = "UP" THEN "REJECTED_AT_TOP" ELSE "REJECTED_AT_BOTTOM"

(* What processCommandFrame decides before the answer's delay.                *)
ResultOf(c) ==
    CASE c \in Directions -> IF limit[c] THEN RejectedAt(c) ELSE "OK"
      [] c = "STATUS"     -> "STATUS"
      [] OTHER            -> "INVALID_COMMAND"

(* Fault injection: a signed difference, which a wrap of millis() makes negative. *)
ElapsedSigned(since) == clk - since

(* uint32_t subtraction: now - since, modulo W.                               *)
Elapsed(since) == IF clk >= since THEN clk - since ELSE clk - since + W

NextMillis == IF clk = W - 1 THEN 0 ELSE clk + 1

Delay(n) == remaining' = n

-----------------------------------------------------------------------------
(* The surroundings (external): sensors, motor, masters, supply.              *)

LimitChange(d) ==
    /\ limit' = [limit EXCEPT ![d] = ~@]
    /\ limitFor' = IF relay[d] THEN 0 ELSE limitFor
    /\ UNCHANGED <<phase, remaining, clk, relay, jammed, rxBuffer, commandVars, moveVars,
                   onFor, stallFor, lastAnswer>>

JamChange ==
    /\ jammed' = ~jammed
    /\ stallFor' = 0
    /\ UNCHANGED <<phase, remaining, clk, relay, limit, rxBuffer, commandVars, moveVars,
                   onFor, limitFor, lastAnswer>>

(* A frame comes in once the port is open.  What a full buffer has no room     *)
(* for is dropped.                                                            *)
Arrive(c) ==
    /\ phase \notin {"pinUp", "pinDown", "forceOff"}
    /\ Len(rxBuffer) < BUFFER
    /\ rxBuffer' = Append(rxBuffer, c)
    /\ UNCHANGED <<phase, remaining, clk, relay, plantVars, commandVars, moveVars,
                   historyVars, lastAnswer>>

(* The supply fails: every pin is an input again and the memory is lost.       *)
PowerCycle ==
    /\ phase' = "pinUp" /\ remaining' = 0 /\ clk' = 0
    /\ relay' = [d \in Directions |-> FALSE]
    /\ rxBuffer' = <<>> /\ cmd' = "NONE" /\ result' = "NONE"
    /\ startTime' = 0 /\ skipFirstCurrentCheck' = TRUE
    /\ onFor' = 0 /\ limitFor' = 0 /\ stallFor' = 0
    /\ lastAnswer' = [cmd |-> "NONE", result |-> "NONE"]
    /\ UNCHANGED plantVars

(* A tick of a delay, or of the wait in readFrom.                             *)
Tick ==
    /\ remaining > 0 \/ phase = "read"
    /\ remaining' = IF remaining > 0 THEN remaining - 1 ELSE 0
    /\ clk' = NextMillis
    /\ IF phase = "moving"
         THEN /\ onFor' = onFor + 1
              /\ limitFor' = IF limit[cmd] THEN limitFor + 1 ELSE 0
              /\ stallFor' = IF jammed THEN stallFor + 1 ELSE 0
         ELSE UNCHANGED historyVars
    /\ UNCHANGED <<phase, relay, plantVars, rxBuffer, commandVars, moveVars, lastAnswer>>

-----------------------------------------------------------------------------
(* setup().  After a reset the output latches hold LOW, which is the active    *)
(* level: pinMode(OUTPUT) drives a relay until forceBothRelaysOff.            *)

PinMode(p, d, next) ==
    /\ phase = p
    /\ relay' = [relay EXCEPT ![d] = TRUE]
    /\ phase' = next
    /\ UNCHANGED <<remaining, clk, plantVars, rxBuffer, commandVars, moveVars,
                   historyVars, lastAnswer>>

(* Fault injection: stopTool writes the UP pin only.                          *)
StopWritesUpOnly == relay' = [relay EXCEPT !["UP"] = FALSE]

forceBothRelaysOff == relay' = [d \in Directions |-> FALSE]

SetupRelaysOff ==
    /\ phase = "forceOff"
    /\ forceBothRelaysOff
    /\ phase' = "calibrate" /\ Delay(CALIBRATION_TIME)
    /\ UNCHANGED <<clk, plantVars, rxBuffer, commandVars, moveVars, historyVars, lastAnswer>>

SetupDone ==
    /\ phase = "calibrate" /\ remaining = 0
    /\ phase' = "read"
    /\ UNCHANGED <<remaining, clk, relay, plantVars, rxBuffer, commandVars, moveVars,
                   historyVars, lastAnswer>>

-----------------------------------------------------------------------------
(* loop().                                                                   *)

(* A frame for another device, or one too short, is dropped.                  *)
IgnoreFrame ==
    /\ phase = "read" /\ rxBuffer # <<>>
    /\ Head(rxBuffer) = "FOREIGN"
    /\ rxBuffer' = Tail(rxBuffer)
    /\ UNCHANGED <<phase, remaining, clk, relay, plantVars, commandVars, moveVars,
                   historyVars, lastAnswer>>

(* Fault injection: of the frames that wait, the newest is executed first.     *)
TakeNewestCommand ==
    /\ phase = "read" /\ rxBuffer # <<>>
    /\ Head(rxBuffer) # "FOREIGN"
    /\ cmd' = rxBuffer[Len(rxBuffer)] /\ result' = ResultOf(cmd')
    /\ rxBuffer' = SubSeq(rxBuffer, 1, Len(rxBuffer) - 1)
    /\ phase' = "ack" /\ Delay(ACK_DELAY)
    /\ UNCHANGED <<clk, relay, plantVars, moveVars, historyVars, lastAnswer>>

(* readFrom and the first half of processCommandFrame: the limit is read here, *)
(* before the answer.                                                         *)
TakeCommand ==
    /\ phase = "read" /\ rxBuffer # <<>>
    /\ Head(rxBuffer) # "FOREIGN"
    /\ cmd' = Head(rxBuffer) /\ result' = ResultOf(Head(rxBuffer))
    /\ rxBuffer' = Tail(rxBuffer)
    /\ phase' = "ack" /\ Delay(ACK_DELAY)
    /\ UNCHANGED <<clk, relay, plantVars, moveVars, historyVars, lastAnswer>>

(* Fault injection: a rejected command is answered until the tool accepts it.   *)
AnswerRejectedAgain ==
    /\ phase = "ack" /\ remaining = 0
    /\ lastAnswer' = [cmd |-> cmd, result |-> result]
    /\ phase' = (IF result = "OK" THEN "pause"
                 ELSE IF cmd \in Directions THEN "ack" ELSE "read")
    /\ Delay(PAUSE)
    /\ result' = ResultOf(cmd)
    /\ UNCHANGED <<cmd, clk, relay, plantVars, rxBuffer, moveVars, historyVars>>

(* sendAck and sendSensorStatus.                                             *)
SendAnswer ==
    /\ phase = "ack" /\ remaining = 0
    /\ lastAnswer' = [cmd |-> cmd, result |-> result]
    /\ IF result = "OK"
         THEN phase' = "pause" /\ Delay(PAUSE) /\ UNCHANGED commandVars
         ELSE /\ phase' = "read" /\ UNCHANGED remaining
              /\ cmd' = "NONE" /\ result' = "NONE"
    /\ UNCHANGED <<clk, relay, plantVars, rxBuffer, moveVars, historyVars>>

(* activateUpRelaySafely and activateDownRelaySafely: the opposite relay off,  *)
(* the dead time, this relay on.  An output reads back as it was written, so    *)
(* neither of the two checks fails.                                           *)
OppositeOff ==
    /\ phase = "pause" /\ remaining = 0
    /\ relay' = [relay EXCEPT ![Opposite(cmd)] = FALSE]
    /\ phase' = "dead" /\ Delay(DEAD_TIME)
    /\ UNCHANGED <<clk, plantVars, rxBuffer, commandVars, moveVars, historyVars, lastAnswer>>

StartMovement ==
    /\ phase = "dead" /\ remaining = 0
    /\ relay' = [relay EXCEPT ![cmd] = TRUE]
    /\ startTime' = clk /\ skipFirstCurrentCheck' = TRUE
    /\ phase' = "moving"
    /\ onFor' = 0 /\ limitFor' = 0 /\ stallFor' = 0
    /\ UNCHANGED <<remaining, clk, plantVars, rxBuffer, commandVars, lastAnswer>>

(* Fault injection: each direction watches the other one's limit.             *)
WatchesOppositeLimit == limit[Opposite(cmd)]

LimitReached == limit[cmd]

MovementOver ==
    \/ LimitReached
    \/ Elapsed(startTime) >= MOVEMENT_TIMEOUT
    \/ ~skipFirstCurrentCheck /\ jammed

StopMovement ==
    /\ phase = "moving" /\ remaining = 0
    /\ MovementOver
    /\ forceBothRelaysOff
    /\ phase' = "read"
    /\ cmd' = "NONE" /\ result' = "NONE"
    /\ startTime' = 0 /\ skipFirstCurrentCheck' = TRUE
    /\ onFor' = 0 /\ limitFor' = 0 /\ stallFor' = 0
    /\ UNCHANGED <<remaining, clk, plantVars, rxBuffer, lastAnswer>>

(* Fault injection: the current check stays switched off.                     *)
KeepSkippingCurrent ==
    /\ phase = "moving" /\ remaining = 0
    /\ ~MovementOver
    /\ Delay(CHECK_PERIOD)
    /\ UNCHANGED <<phase, clk, relay, plantVars, rxBuffer, commandVars, moveVars,
                   historyVars, lastAnswer>>

KeepMoving ==
    /\ phase = "moving" /\ remaining = 0
    /\ ~MovementOver
    /\ skipFirstCurrentCheck' = FALSE
    /\ Delay(CHECK_PERIOD)
    /\ UNCHANGED <<phase, clk, relay, plantVars, rxBuffer, commandVars, startTime,
                   historyVars, lastAnswer>>

-----------------------------------------------------------------------------
Init ==
    /\ phase = "pinUp" /\ remaining = 0 /\ clk = 0
    /\ relay = [d \in Directions |-> FALSE]
    /\ limit \in [Directions -> BOOLEAN] /\ jammed \in BOOLEAN
    /\ rxBuffer = <<>> /\ cmd = "NONE" /\ result = "NONE"
    /\ startTime = 0 /\ skipFirstCurrentCheck = TRUE
    /\ onFor = 0 /\ limitFor = 0 /\ stallFor = 0
    /\ lastAnswer = [cmd |-> "NONE", result |-> "NONE"]

SketchStep ==
    \/ PinMode("pinUp", "UP", "pinDown") \/ PinMode("pinDown", "DOWN", "forceOff")
    \/ SetupRelaysOff \/ SetupDone
    \/ IgnoreFrame \/ TakeCommand \/ SendAnswer
    \/ OppositeOff \/ StartMovement \/ StopMovement \/ KeepMoving

Next ==
    \/ SketchStep \/ Tick
    \/ \E d \in Directions : LimitChange(d)
    \/ JamChange \/ PowerCycle
    \/ \E c \in Frames : Arrive(c)

Spec == Init /\ [][Next]_vars

(* The processor runs and time passes.                                       *)
FairSpec == Spec /\ WF_vars(SketchStep) /\ WF_vars(Tick)

-----------------------------------------------------------------------------
TypeOK ==
    /\ phase \in Phases /\ remaining \in Nat /\ clk \in 0..(W - 1)
    /\ relay \in [Directions -> BOOLEAN]
    /\ limit \in [Directions -> BOOLEAN] /\ jammed \in BOOLEAN
    /\ rxBuffer \in Seq(Commands) /\ Len(rxBuffer) <= BUFFER
    /\ cmd \in Commands \cup {"NONE"} /\ result \in Results
    /\ startTime \in 0..(W - 1) /\ skipFirstCurrentCheck \in BOOLEAN
    /\ onFor \in Nat /\ limitFor \in Nat /\ stallFor \in Nat
    /\ lastAnswer \in [cmd : Commands \cup {"NONE"}, result : Results]

(* Once setup has forced the relays off, a relay is driven only inside the     *)
(* movement of an answered command, in its direction: no path leaves one on      *)
(* when the sketch goes back to waiting, and never both (stopTool).           *)
RelayFollowsCommand ==
    phase \notin {"pinDown", "forceOff"} =>
        \A d \in Directions : relay[d] => phase = "moving" /\ cmd = d /\ lastAnswer.result = "OK"

(* The loop looks at the time only between two delays: a movement ends within  *)
(* one check period of its timeout, wherever millis() wraps round.              *)
OnTimeBounded == onFor < MOVEMENT_TIMEOUT + CHECK_PERIOD

(* The tool is driven into its limit for one check period at most, also when   *)
(* it got there between the check of the command and the start of the motor.    *)
OvertravelBounded == limitFor <= CHECK_PERIOD

(* A motor that stays jammed is switched off within a check period, though the *)
(* first current check is skipped.                                            *)
StallBounded == stallFor <= CHECK_PERIOD

(* loop() comes back to readFrom for ever, unless the supply keeps failing:    *)
(* no movement, limit or answer holds the sketch.                              *)
ListensAgain == []<>(phase = "read") \/ []<>(phase = "pinUp")

-----------------------------------------------------------------------------
(* The promise to the masters.  A command is held until its answer is sent.     *)
Service == INSTANCE ToolService WITH
    pending <- IF phase = "ack" THEN <<cmd>> \o rxBuffer ELSE rxBuffer,
    granted <- IF phase \in {"pause", "dead"} THEN cmd ELSE "NONE",
    motion  <- IF phase = "moving" THEN cmd ELSE "NONE"

(* The sketch keeps the promise: commands that pile up during a movement are   *)
(* answered and executed in order, none twice, and none during the movement.    *)
ServiceKept == Service!ServiceSpec

-----------------------------------------------------------------------------
(* What the comments say and the code does not do.                           *)

(* "DOWN must be inactive before UP goes active", and the reverse: the two     *)
(* outputs are never active together, from the first instruction of setup on.  *)
OppositeInactiveFirst == ~(relay["UP"] /\ relay["DOWN"])
=============================================================================

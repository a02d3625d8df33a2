--------------------------- MODULE ToolController ---------------------------
(* The interrupt-driven tool firmware, Tool_firmware/Test/Tool_firmware.       *)
(*                                                                           *)
(* One process, loop(), reads a command frame, executes it, answers it and     *)
(* runs updateTool(); two interrupt routines copy the limit sensors into       *)
(* volatile flags between any two steps of the loop.  Time passes while the    *)
(* loop waits: in readFrom, in sendAck's delay and transmission, and in the    *)
(* calibration of setup(); the rest of the loop takes microseconds.  millis()  *)
(* is a counter modulo W.                                                      *)
(*                                                                           *)
(* restFor, onFor and overFor are history variables: they record real elapsed  *)
(* time for the properties and no action reads them.                           *)
EXTENDS Integers

CONSTANTS
    W,                    \* millis() counts modulo W (2^32 in the firmware)
    MOVEMENT_TIMEOUT,     \* MOVEMENT_TIMEOUT_UP_MS = MOVEMENT_TIMEOUT_DOWN_MS
    DEAD_TIME,            \* DIRECTION_DEAD_TIME_MS
    FRAME_TIMEOUT,        \* SERIAL_FRAME_TIMEOUT_MS
    REPLY_TIME,           \* RS485_ACK_DELAY_MS and the transmission of a reply
    CURRENT_IGNORE_TIME,  \* CURRENT_IGNORE_TIME_MS
    CALIBRATION_TIME,     \* the hundred delay(5) of the calibration
    Frames,               \* the frames the masters on the line may send
    JamOutcomes           \* whether the motor of a movement may be jammed

(* Every wait is a number of ticks, and the counter does not come round        *)
(* between two evaluations of a timeout.                                       *)
ASSUME TimingAssumption ==
    /\ W \in Nat /\ MOVEMENT_TIMEOUT \in Nat /\ DEAD_TIME \in Nat
    /\ FRAME_TIMEOUT \in Nat /\ REPLY_TIME \in Nat
    /\ CURRENT_IGNORE_TIME \in Nat /\ CALIBRATION_TIME \in Nat
    /\ MOVEMENT_TIMEOUT > 0
    /\ W > MOVEMENT_TIMEOUT + FRAME_TIMEOUT + REPLY_TIME

VARIABLES
    pin,                 \* level of the HL and LL sensor inputs, TRUE = active
    pending,             \* external interrupt requested and not yet served
    activeISR,           \* hlActiveISR and llActiveISR
    edgeLost,            \* history: an edge fell between setup's read and attachInterrupt
    relay,               \* TOOL_UP_PIN and TOOL_DOWN_PIN, TRUE = relay active
    toolState, faultCode,
    stateStart,          \* stateStartMillis
    movementStart,       \* movementStartMillis
    filteredCurrent,     \* filteredCurrentA exceeds CURRENT_LIMIT_A
    stalled,             \* the motor is jammed for the whole of this movement
    clk,                 \* millis()
    phase,               \* where setup() or loop() stands
    waited,              \* ticks spent in the present wait
    cmd,                 \* the command of rxFrame
    reply,               \* the frame being built or sent
    restFor, onFor, overFor

sensorVars == <<pin, pending, activeISR, edgeLost>>
motorVars  == <<relay, stalled, restFor, onFor, overFor>>
stateVars  == <<toolState, faultCode, stateStart, movementStart, filteredCurrent>>
vars == <<sensorVars, motorVars, stateVars, clk, phase, waited, cmd, reply>>

-----------------------------------------------------------------------------
Directions == {"UP", "DOWN"}
Sensors    == {"HL", "LL"}
LimitOf(d) == IF d = "UP" THEN "HL" ELSE "LL"
Opposite(d) == IF d = "UP" THEN "DOWN" ELSE "UP"

Prepare(d)     == IF d = "UP" THEN "PREPARE_UP" ELSE "PREPARE_DOWN"
Moving(d)      == IF d = "UP" THEN "MOVING_UP" ELSE "MOVING_DOWN"
TimeoutFault(d)     == IF d = "UP" THEN "TIMEOUT_UP" ELSE "TIMEOUT_DOWN"
OvercurrentFault(d) == IF d = "UP" THEN "OVERCURRENT_UP" ELSE "OVERCURRENT_DOWN"
RejectedAt(d)  == IF d = "UP" THEN "REJECTED_AT_TOP" ELSE "REJECTED_AT_BOTTOM"

ToolStates == {"IDLE", "PREPARE_UP", "MOVING_UP", "PREPARE_DOWN", "MOVING_DOWN", "FAULT"}
FaultCodes == {"NONE", "TIMEOUT_UP", "TIMEOUT_DOWN", "OVERCURRENT_UP",
               "OVERCURRENT_DOWN", "RELAY_CONFLICT", "SENSOR_CONFLICT"}
PublicStates == {"UNKNOWN", "AT_BOTTOM", "AT_TOP", "MOVING_UP", "MOVING_DOWN",
                 "STOPPED_BETWEEN_LIMITS", "FAULT"}
Results  == {"OK", "REJECTED_FAULT", "REJECTED_AT_TOP", "REJECTED_AT_BOTTOM",
             "INVALID_COMMAND", "ALREADY_MOVING", "REJECTED_SENSOR_CONFLICT"}
Commands == {"STOP", "UP", "DOWN", "RESET_FAULT", "STATUS_REQUEST", "UNKNOWN"}
NoCommand == "NONE"       \* also a frame for another device, or one too short

ASSUME InputsAssumption ==
    Frames \subseteq Commands \cup {NoCommand} /\ JamOutcomes \subseteq BOOLEAN

NoReply == [type |-> "NONE"]
Ack(c, r) == [type |-> "ACK", cmd |-> c, result |-> r]
Status(s, f, h, l) == [type |-> "STATUS", status |-> s, fault |-> f, HL |-> h, LL |-> l]
Replies == {NoReply}
           \cup [type : {"ACK"}, cmd : Commands, result : Results]
           \cup [type : {"STATUS"}, status : PublicStates, fault : FaultCodes,
                 HL : BOOLEAN, LL : BOOLEAN]

Phases == {"setup", "attach", "calibrate", "read", "command", "startConflict",
           "start", "status", "reply", "update", "updateConflict", "switch"}

(* Fault injection: a signed difference, which a wrap of millis() makes negative. *)
ElapsedSigned(since) == clk - since

(* uint32_t subtraction: now - since, modulo W.                               *)
Elapsed(since) == IF clk >= since THEN clk - since ELSE clk - since + W

NextMillis == IF clk = W - 1 THEN 0 ELSE clk + 1

AtMost(n, bound) == IF n < bound THEN n ELSE bound

(* The time a relay can stay on: the timeout is looked at once per loop, and  *)
(* a loop takes at most the receive window and one reply.                      *)
MaxOn == MOVEMENT_TIMEOUT - 1 + FRAME_TIMEOUT + REPLY_TIME

(* The wait of the present phase, if it is one that lets time pass.           *)
WaitLimit == CASE phase = "calibrate" -> CALIBRATION_TIME
               [] phase = "read"      -> FRAME_TIMEOUT
               [] phase = "reply"     -> REPLY_TIME
               [] OTHER               -> 0

-----------------------------------------------------------------------------
(* The limit sensors and their interrupts.                                   *)

(* External: the input of a sensor changes.  attachInterrupt(CHANGE) makes     *)
(* the change request an interrupt; before it the change leaves no trace.      *)
PinChange(s) ==
    /\ pin' = [pin EXCEPT ![s] = ~@]
    /\ IF phase \in {"setup", "attach"}
         THEN /\ edgeLost' = [edgeLost EXCEPT ![s] = (phase = "attach")]
              /\ UNCHANGED pending
         ELSE /\ pending' = [pending EXCEPT ![s] = TRUE]
              /\ UNCHANGED edgeLost
    /\ UNCHANGED <<activeISR, motorVars, stateVars, clk, phase, waited, cmd, reply>>

(* onHLChange and onLLChange.                                                 *)
OnChange(s) ==
    /\ pending[s]
    /\ pending' = [pending EXCEPT ![s] = FALSE]
    /\ activeISR' = [activeISR EXCEPT ![s] = pin[s]]
    /\ edgeLost' = [edgeLost EXCEPT ![s] = FALSE]
    /\ overFor' = IF ~pin[s] /\ (\E d \in Directions : relay[d] /\ LimitOf(d) = s)
                    THEN 0 ELSE overFor
    /\ UNCHANGED <<pin, relay, stalled, restFor, onFor, stateVars, clk, phase, waited, cmd, reply>>

(* One tick of a wait.                                                       *)
Tick ==
    /\ waited < WaitLimit
    /\ waited' = waited + 1
    /\ clk' = NextMillis
    /\ IF \E d \in Directions : relay[d]
         THEN /\ onFor' = AtMost(onFor + 1, MaxOn + 1)
              /\ overFor' = IF \E d \in Directions : relay[d] /\ activeISR[LimitOf(d)]
                              THEN AtMost(overFor + 1, MaxOn + 1) ELSE 0
              /\ UNCHANGED restFor
         ELSE /\ restFor' = AtMost(restFor + 1, DEAD_TIME)
              /\ UNCHANGED <<onFor, overFor>>
    /\ UNCHANGED <<sensorVars, relay, stalled, stateVars, phase, cmd, reply>>

-----------------------------------------------------------------------------
(* Relays and faults.                                                        *)

areBothRelaysActive == relay["UP"] /\ relay["DOWN"]

forceBothRelaysOff ==
    /\ relay' = [d \in Directions |-> FALSE]
    /\ stalled' = FALSE
    /\ onFor' = 0
    /\ overFor' = 0
    /\ restFor' = IF \E d \in Directions : relay[d] THEN 0 ELSE restFor

(* activateUpRelaySafely and activateDownRelaySafely: the opposite relay is   *)
(* written inactive, then this one active, and the outputs read back as they   *)
(* were written.                                                              *)
ActivateSafely(d) ==
    /\ relay' = [relay EXCEPT ![Opposite(d)] = FALSE, ![d] = TRUE]
    /\ stalled' \in JamOutcomes
    /\ onFor' = 0
    /\ overFor' = 0
    /\ UNCHANGED restFor

(* Fault injection: the relays keep their state when a fault is set.          *)
SetFaultKeepsRelays(code) ==
    faultCode' = code /\ toolState' = "FAULT" /\ UNCHANGED motorVars

(* Fault injection: a fault is recorded but the state machine is not moved.   *)
SetFaultKeepsState(code) ==
    forceBothRelaysOff /\ faultCode' = code /\ UNCHANGED toolState

setFault(code) ==
    /\ forceBothRelaysOff
    /\ faultCode' = code
    /\ toolState' = "FAULT"

(* updateCurrentMeasurement is not called: filteredCurrentA keeps the zero    *)
(* every movement assigns to it.                                              *)
isOverCurrent ==
    /\ Elapsed(movementStart) >= CURRENT_IGNORE_TIME
    /\ filteredCurrent

(* Fault injection: the PREPARE states are forgotten.                         *)
IsMovingOnly == toolState \in {"MOVING_UP", "MOVING_DOWN"}

isMovingOrPreparing == toolState \notin {"IDLE", "FAULT"}

(* Fault injection: each direction watches the other one's limit.             *)
LimitReachedSwapped(d) == activeISR[LimitOf(Opposite(d))]

(* isHLActive when moving up, isLLActive when moving down.                    *)
LimitReached(d) == activeISR[LimitOf(d)]

(* Fault injection: the dead time is measured from the last movement.         *)
DeadTimeSinceMovement == Elapsed(movementStart) >= DEAD_TIME

DeadTimeOver == Elapsed(stateStart) >= DEAD_TIME

(* The loop goes back to readFrom.                                           *)
NextLoop == phase' = "read" /\ waited' = 0

GoTo(p) == phase' = p /\ UNCHANGED waited

SendReply(r) ==
    /\ reply' = r
    /\ phase' = "reply"
    /\ waited' = 0
    /\ cmd' = NoCommand

-----------------------------------------------------------------------------
(* setup()                                                                   *)
(* Fault injection: setup() leaves the flags at their initial FALSE.          *)
SetupSkipsSensors ==
    /\ phase = "setup"
    /\ GoTo("attach")
    /\ UNCHANGED <<sensorVars, motorVars, stateVars, clk, cmd, reply>>

ReadInitialSensors ==
    /\ phase = "setup"
    /\ activeISR' = pin
    /\ edgeLost' = [s \in Sensors |-> FALSE]
    /\ GoTo("attach")
    /\ UNCHANGED <<pin, pending, motorVars, stateVars, clk, cmd, reply>>

AttachInterrupts ==
    /\ phase = "attach"
    /\ GoTo("calibrate")
    /\ UNCHANGED <<sensorVars, motorVars, stateVars, clk, cmd, reply>>

FinishSetup ==
    /\ phase = "calibrate"
    /\ waited = CALIBRATION_TIME
    /\ NextLoop
    /\ UNCHANGED <<sensorVars, motorVars, stateVars, clk, cmd, reply>>

-----------------------------------------------------------------------------
(* loop(): readFrom returns a frame or gives up, then updateTool runs.        *)
ReceiveFrame(c) ==
    /\ phase = "read"
    /\ cmd' = c
    /\ phase' = IF c = NoCommand THEN "update" ELSE "command"
    /\ waited' = 0
    /\ UNCHANGED <<sensorVars, motorVars, stateVars, clk, reply>>

ReceiveTimeout ==
    /\ phase = "read"
    /\ waited = FRAME_TIMEOUT
    /\ phase' = "update"
    /\ waited' = 0
    /\ UNCHANGED <<sensorVars, motorVars, stateVars, clk, cmd, reply>>

(* Fault injection: a stop switches the relays off and leaves the state machine *)
(* where it was.                                                             *)
StopKeepsState ==
    /\ phase = "command" /\ cmd = "STOP"
    /\ forceBothRelaysOff
    /\ SendReply(Ack("STOP", "OK"))
    /\ UNCHANGED <<sensorVars, stateVars, clk>>

(* processCommandFrame, CMD_STOP.                                            *)
CmdStop ==
    /\ phase = "command" /\ cmd = "STOP"
    /\ forceBothRelaysOff
    /\ toolState' = "IDLE"
    /\ SendReply(Ack("STOP", "OK"))
    /\ UNCHANGED <<sensorVars, faultCode, stateStart, movementStart, filteredCurrent, clk>>

(* CMD_RESET_FAULT: resetFault.                                              *)
CmdResetFault ==
    /\ phase = "command" /\ cmd = "RESET_FAULT"
    /\ forceBothRelaysOff
    /\ faultCode' = "NONE"
    /\ toolState' = "IDLE"
    /\ filteredCurrent' = FALSE
    /\ SendReply(Ack("RESET_FAULT", "OK"))
    /\ UNCHANGED <<sensorVars, stateStart, movementStart, clk>>

CmdUnknown ==
    /\ phase = "command" /\ cmd = "UNKNOWN"
    /\ SendReply(Ack("UNKNOWN", "INVALID_COMMAND"))
    /\ UNCHANGED <<sensorVars, motorVars, stateVars, clk>>

(* startUpTool and startDownTool: hasSensorConflict reads HL, then LL if HL   *)
(* was active; the limit of the direction is read after that.                  *)
StartInFault(d) ==
    /\ phase = "command" /\ cmd = d
    /\ toolState = "FAULT"
    /\ SendReply(Ack(d, "REJECTED_FAULT"))
    /\ UNCHANGED <<sensorVars, motorVars, stateVars, clk>>

(* Fault injection: a movement may start in TOOL_FAULT.                       *)
StartIgnoresFault(d) ==
    /\ phase = "command" /\ cmd = d
    /\ GoTo(IF activeISR["HL"] THEN "startConflict" ELSE "start")
    /\ UNCHANGED <<sensorVars, motorVars, stateVars, clk, cmd, reply>>

StartReadsHL(d) ==
    /\ phase = "command" /\ cmd = d
    /\ toolState # "FAULT"
    /\ GoTo(IF activeISR["HL"] THEN "startConflict" ELSE "start")
    /\ UNCHANGED <<sensorVars, motorVars, stateVars, clk, cmd, reply>>

StartReadsLL(d) ==
    /\ phase = "startConflict" /\ cmd = d
    /\ IF activeISR["LL"]
         THEN /\ setFault("SENSOR_CONFLICT")
              /\ SendReply(Ack(d, "REJECTED_SENSOR_CONFLICT"))
              /\ UNCHANGED <<stateStart, movementStart, filteredCurrent>>
         ELSE /\ GoTo("start")
              /\ UNCHANGED <<motorVars, stateVars, cmd, reply>>
    /\ UNCHANGED <<sensorVars, clk>>

StartWhileMoving(d) ==
    /\ phase = "start" /\ cmd = d
    /\ isMovingOrPreparing
    /\ SendReply(Ack(d, "ALREADY_MOVING"))
    /\ UNCHANGED <<sensorVars, motorVars, stateVars, clk>>

StartAtLimit(d) ==
    /\ phase = "start" /\ cmd = d
    /\ ~isMovingOrPreparing
    /\ LimitReached(d)
    /\ forceBothRelaysOff
    /\ toolState' = "IDLE"
    /\ SendReply(Ack(d, RejectedAt(d)))
    /\ UNCHANGED <<sensorVars, faultCode, stateStart, movementStart, filteredCurrent, clk>>

StartMovement(d) ==
    /\ phase = "start" /\ cmd = d
    /\ ~isMovingOrPreparing
    /\ ~LimitReached(d)
    /\ forceBothRelaysOff
    /\ stateStart' = clk
    /\ filteredCurrent' = FALSE
    /\ toolState' = Prepare(d)
    /\ SendReply(Ack(d, "OK"))
    /\ UNCHANGED <<sensorVars, faultCode, movementStart, clk>>

(* CMD_STATUS_REQUEST: getToolPublicStatus reads both sensors, sendToolStatus *)
(* reads them again for the frame.                                            *)
PublicStatus ==
    CASE toolState = "FAULT" -> "FAULT"
      [] toolState # "FAULT" /\ activeISR["HL"] /\ activeISR["LL"] -> "UNKNOWN"
      [] OTHER ->
           CASE toolState \in {"PREPARE_UP", "MOVING_UP"}     -> "MOVING_UP"
             [] toolState \in {"PREPARE_DOWN", "MOVING_DOWN"} -> "MOVING_DOWN"
             [] OTHER -> IF activeISR["HL"] THEN "AT_TOP"
                         ELSE IF activeISR["LL"] THEN "AT_BOTTOM"
                         ELSE "STOPPED_BETWEEN_LIMITS"

ReadStatus ==
    /\ phase = "command" /\ cmd = "STATUS_REQUEST"
    /\ reply' = Status(PublicStatus, faultCode, FALSE, FALSE)
    /\ GoTo("status")
    /\ UNCHANGED <<sensorVars, motorVars, stateVars, clk, cmd>>

SendStatus ==
    /\ phase = "status"
    /\ SendReply(Status(reply.status, reply.fault, activeISR["HL"], activeISR["LL"]))
    /\ UNCHANGED <<sensorVars, motorVars, stateVars, clk>>

(* The reply has been written: an ACK after its delay, a STATUS as soon as    *)
(* its bytes are out.                                                         *)
FinishReply ==
    /\ phase = "reply"
    /\ reply.type = "ACK" => waited = REPLY_TIME
    /\ reply' = NoReply
    /\ phase' = "update"
    /\ waited' = 0
    /\ UNCHANGED <<sensorVars, motorVars, stateVars, clk, cmd>>

-----------------------------------------------------------------------------
(* updateTool(): the relay check, the two reads of hasSensorConflict, and the *)
(* switch on toolState.                                                       *)
UpdateReadsHL ==
    /\ phase = "update"
    /\ IF areBothRelaysActive
         THEN setFault("RELAY_CONFLICT") /\ NextLoop
         ELSE /\ GoTo(IF activeISR["HL"] THEN "updateConflict" ELSE "switch")
              /\ UNCHANGED <<motorVars, toolState, faultCode>>
    /\ cmd' = NoCommand
    /\ UNCHANGED <<sensorVars, stateStart, movementStart, filteredCurrent, clk, reply>>

UpdateReadsLL ==
    /\ phase = "updateConflict"
    /\ IF activeISR["LL"]
         THEN setFault("SENSOR_CONFLICT") /\ NextLoop
         ELSE GoTo("switch") /\ UNCHANGED <<motorVars, toolState, faultCode>>
    /\ UNCHANGED <<sensorVars, stateStart, movementStart, filteredCurrent, clk, cmd, reply>>

UpdateAtRest ==
    /\ phase = "switch"
    /\ ~isMovingOrPreparing
    /\ forceBothRelaysOff
    /\ NextLoop
    /\ UNCHANGED <<sensorVars, stateVars, clk, cmd, reply>>

UpdatePrepare(d) ==
    /\ phase = "switch"
    /\ toolState = Prepare(d)
    /\ IF DeadTimeOver
         THEN /\ ActivateSafely(d)
              /\ movementStart' = clk
              /\ filteredCurrent' = FALSE
              /\ toolState' = Moving(d)
         ELSE UNCHANGED <<motorVars, movementStart, filteredCurrent, toolState>>
    /\ NextLoop
    /\ UNCHANGED <<sensorVars, faultCode, stateStart, clk, cmd, reply>>

UpdateMoving(d) ==
    /\ phase = "switch"
    /\ toolState = Moving(d)
    /\ IF LimitReached(d)
         THEN forceBothRelaysOff /\ toolState' = "IDLE" /\ UNCHANGED faultCode
       ELSE IF Elapsed(movementStart) >= MOVEMENT_TIMEOUT
         THEN setFault(TimeoutFault(d))
       ELSE IF isOverCurrent
         THEN setFault(OvercurrentFault(d))
       ELSE UNCHANGED <<motorVars, toolState, faultCode>>
    /\ NextLoop
    /\ UNCHANGED <<sensorVars, stateStart, movementStart, filteredCurrent, clk, cmd, reply>>

-----------------------------------------------------------------------------
Init ==
    /\ pin \in [Sensors -> BOOLEAN]
    /\ pending = [s \in Sensors |-> FALSE]
    /\ activeISR = [s \in Sensors |-> FALSE]
    /\ edgeLost = [s \in Sensors |-> FALSE]
    /\ relay = [d \in Directions |-> FALSE]
    /\ stalled = FALSE
    /\ restFor = 0 /\ onFor = 0 /\ overFor = 0
    /\ toolState = "IDLE" /\ faultCode = "NONE"
    /\ stateStart = 0 /\ movementStart = 0
    /\ filteredCurrent = FALSE
    /\ clk = 0 /\ phase = "setup" /\ waited = 0
    /\ cmd = NoCommand /\ reply = NoReply

Start(d) ==
    \/ StartInFault(d) \/ StartReadsHL(d) \/ StartReadsLL(d)
    \/ StartWhileMoving(d) \/ StartAtLimit(d) \/ StartMovement(d)

(* The firmware's own steps: everything but the arrival of a frame, the       *)
(* sensors and time.                                                          *)
LoopStep ==
    \/ ReadInitialSensors \/ AttachInterrupts \/ FinishSetup
    \/ ReceiveTimeout
    \/ CmdStop \/ CmdResetFault \/ CmdUnknown
    \/ \E d \in Directions : Start(d)
    \/ ReadStatus \/ SendStatus \/ FinishReply
    \/ UpdateReadsHL \/ UpdateReadsLL \/ UpdateAtRest
    \/ \E d \in Directions : UpdatePrepare(d) \/ UpdateMoving(d)

Next ==
    \/ \E s \in Sensors : PinChange(s) \/ OnChange(s)
    \/ Tick
    \/ \E c \in Frames : ReceiveFrame(c)
    \/ LoopStep

Spec == Init /\ [][Next]_vars

(* The processor runs the loop and serves interrupts; millis() advances       *)
(* however busy the line is, so a wait that comes back again and again is not   *)
(* for ever cut short by a frame.                                             *)
FairSpec ==
    /\ Spec
    /\ WF_vars(LoopStep) /\ SF_vars(Tick)
    /\ \A s \in Sensors : WF_vars(OnChange(s))

-----------------------------------------------------------------------------
TypeOK ==
    /\ pin \in [Sensors -> BOOLEAN] /\ pending \in [Sensors -> BOOLEAN]
    /\ activeISR \in [Sensors -> BOOLEAN] /\ edgeLost \in [Sensors -> BOOLEAN]
    /\ relay \in [Directions -> BOOLEAN] /\ stalled \in BOOLEAN
    /\ toolState \in ToolStates /\ faultCode \in FaultCodes
    /\ stateStart \in 0..(W - 1) /\ movementStart \in 0..(W - 1) /\ clk \in 0..(W - 1)
    /\ filteredCurrent \in BOOLEAN
    /\ phase \in Phases /\ waited \in Nat /\ waited <= WaitLimit
    /\ cmd \in Commands \cup {NoCommand} /\ reply \in Replies
    /\ phase = "status" => reply.type = "STATUS"
    /\ restFor \in 0..DEAD_TIME
    /\ onFor \in 0..(MaxOn + 1) /\ overFor \in 0..(MaxOn + 1)

-----------------------------------------------------------------------------
(* Safety.                                                                   *)

(* A relay is on exactly in the MOVING state of its direction: never both at  *)
(* once, and none in a fault, at rest or while the dead time runs, whichever   *)
(* command, fault or interrupt came last (forceBothRelaysOff, setFault).       *)
RelaysMatchState == \A d \in Directions : relay[d] <=> toolState = Moving(d)

(* The motor never stays on longer than the movement timeout and one loop,    *)
(* whatever commands arrive, also when millis() wraps round (updateTool).      *)
OnTimeBounded == onFor <= MaxOn

(* Once the interrupt has flagged the limit the tool is moving to, the motor  *)
(* is off within one receive window and one reply.                            *)
OvertravelBounded == overFor <= FRAME_TIMEOUT + REPLY_TIME

(* The flag of a sensor differs from its input only while an interrupt is     *)
(* due, or after an edge between setup's first read and attachInterrupt that    *)
(* no later edge has repaired.                                                *)
SensorViewCurrent ==
    phase \notin {"setup"} =>
        \A s \in Sensors : activeISR[s] = pin[s] \/ pending[s] \/ edgeLost[s]

(* An answer tells what the tool is about to do: RESULT_OK to a movement      *)
(* leaves it preparing that movement, RESULT_ALREADY_MOVING moving or preparing,*)
(* a fault rejection in fault and an end-stop rejection at rest.               *)
AckTellsState ==
    phase = "reply" /\ reply.type = "ACK" =>
        /\ reply.cmd \in Directions /\ reply.result = "OK" => toolState = Prepare(reply.cmd)
        /\ reply.result = "ALREADY_MOVING" => isMovingOrPreparing
        /\ reply.result \in {"REJECTED_FAULT", "REJECTED_SENSOR_CONFLICT"} =>
               toolState = "FAULT" /\ faultCode # "NONE"
        /\ reply.result \in {"REJECTED_AT_TOP", "REJECTED_AT_BOTTOM"} => toolState = "IDLE"

(* A relay closes only after the motor has rested for the dead time           *)
(* (DIRECTION_DEAD_TIME_MS), also after a stop, a fault or a reset.            *)
DeadTimeKept == \A d \in Directions : ~relay[d] /\ relay'[d] => restFor >= DEAD_TIME
DeadTimeRespected == [][DeadTimeKept]_vars

(* A fault is latched: only CMD_STOP and CMD_RESET_FAULT leave TOOL_FAULT,    *)
(* and while it lasts the code can only become SENSOR_CONFLICT.                *)
FaultKept ==
    toolState = "FAULT" =>
        \/ toolState' = "FAULT" /\ faultCode' \in {faultCode, "SENSOR_CONFLICT"}
        \/ phase = "command" /\ cmd \in {"STOP", "RESET_FAULT"}
FaultLatched == [][FaultKept]_vars

(* A movement that was accepted is dropped before its relay closes only by a  *)
(* stop, a reset or a sensor conflict: every other command, a second start in     *)
(* the other direction included, leaves it to begin.                           *)
MovementKept ==
    \A d \in Directions : toolState = Prepare(d) /\ toolState' # Prepare(d) =>
        \/ toolState' = Moving(d) /\ relay'[d]
        \/ toolState' = "FAULT" /\ faultCode' = "SENSOR_CONFLICT"
        \/ phase = "command" /\ cmd \in {"STOP", "RESET_FAULT"}
AcceptedMovementKept == [][MovementKept]_vars

(* The promise of the firmware.  A command is in hand from its frame to its      *)
(* answer, and the motor is driven by the relays.                              *)
Handling == {"command", "startConflict", "start", "status"}

HeldCommand == IF phase \in Handling THEN cmd ELSE NoCommand

AnswerOut ==
    IF phase # "reply" THEN [cmd |-> "NONE", result |-> "NONE"]
    ELSE IF reply.type = "ACK" THEN [cmd |-> reply.cmd, result |-> reply.result]
    ELSE [cmd |-> "STATUS_REQUEST", result |-> reply.status]

Accepted ==
    CASE toolState = Prepare("UP")   -> "UP"
      [] toolState = Prepare("DOWN") -> "DOWN"
      [] OTHER -> "NONE"

Service == INSTANCE ControllerService WITH
    held    <- HeldCommand,
    answer  <- AnswerOut,
    granted <- Accepted,
    driven  <- {d \in Directions : relay[d]},
    faulty  <- toolState = "FAULT"

(* The firmware keeps the promise of ControllerService: one true answer per     *)
(* command, no movement without a start answered OK, none past a stop, and a      *)
(* fault that only a stop and a reset end, whatever the sensors do between two    *)
(* steps of the loop.                                                         *)
ServiceKept == Service!ServiceSpec

(* Liveness.                                                                 *)

(* A motor that is on is eventually switched off, whatever the sensors do and *)
(* however many commands arrive.                                              *)
MovementEnds == (\E d \in Directions : relay[d]) ~> (\A d \in Directions : ~relay[d])

(* While both limit flags stay set the tool ends up with both relays off for  *)
(* good: no command can start it.                                             *)
ConflictDisablesTool ==
    <>[](activeISR["HL"] /\ activeISR["LL"]) => <>[](\A d \in Directions : ~relay[d])

-----------------------------------------------------------------------------
(* The inductive invariant behind RelaysMatchState, OnTimeBounded,            *)
(* OvertravelBounded and DeadTimeRespected.                                   *)

(* How long ago updateTool last ran its switch, at most.                      *)
LoopAge == CASE phase = "read"  -> waited
             [] phase = "reply" -> FRAME_TIMEOUT + waited
             [] phase \in {"command", "startConflict", "start", "status"} -> FRAME_TIMEOUT
             [] OTHER -> FRAME_TIMEOUT + REPLY_TIME

SetupAtRest == phase \in {"setup", "attach", "calibrate"} => toolState = "IDLE"

AtRestNoTime == (\A d \in Directions : toolState # Moving(d)) => onFor = 0 /\ overFor = 0

MovementClock ==
    \A d \in Directions : toolState = Moving(d) =>
        /\ Elapsed(movementStart) = onFor
        /\ onFor <= MOVEMENT_TIMEOUT - 1 + LoopAge

OvertravelClock ==
    \A d \in Directions : toolState = Moving(d) =>
        /\ overFor <= LoopAge
        /\ ~activeISR[LimitOf(d)] => overFor = 0

RestClock ==
    \A d \in Directions : toolState = Prepare(d) =>
        restFor >= AtMost(Elapsed(stateStart), DEAD_TIME)

ToolInv ==
    /\ TypeOK /\ RelaysMatchState /\ SetupAtRest /\ AtRestNoTime
    /\ MovementClock /\ OvertravelClock /\ RestClock

-----------------------------------------------------------------------------
(* What the documentation says and the code does not do.                     *)

(* README, 13 and 14: a fault is reported as STATUS_FAULT with its code, and  *)
(* CMD_RESET_FAULT clears it.                                                 *)
FaultCodeMeansFault ==
    phase = "reply" /\ reply.type = "STATUS" =>
        (reply.fault # "NONE" => reply.status = "FAULT")

(* README, 7 and 8: a motor jammed during a movement is stopped through the   *)
(* current sensor, not by the movement timeout.                               *)
JamStopsMotor == stalled => onFor <= CURRENT_IGNORE_TIME + FRAME_TIMEOUT + REPLY_TIME

=============================================================================

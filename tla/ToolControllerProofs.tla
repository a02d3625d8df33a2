------------------------ MODULE ToolControllerProofs ------------------------
(* Proofs about ToolController for every value of its constants.             *)
EXTENDS ToolController, TLAPS

(* The part of the type invariant that belongs to the motor.                 *)
MotorType ==
    /\ relay \in [Directions -> BOOLEAN] /\ stalled \in BOOLEAN
    /\ restFor \in 0..DEAD_TIME
    /\ onFor \in 0..(MaxOn + 1) /\ overFor \in 0..(MaxOn + 1)

(* Switching both relays off keeps the types of the motor.                   *)
LEMMA StopType == TypeOK /\ forceBothRelaysOff => MotorType'
<1> SUFFICES ASSUME TypeOK, forceBothRelaysOff PROVE MotorType'
  OBVIOUS
<1>1. relay' \in [Directions -> BOOLEAN] /\ stalled' \in BOOLEAN
  BY DEF forceBothRelaysOff
<1>2. restFor' \in 0..DEAD_TIME
  BY TimingAssumption DEF forceBothRelaysOff, TypeOK
<1>3. onFor' \in 0..(MaxOn + 1) /\ overFor' \in 0..(MaxOn + 1)
  BY TimingAssumption DEF forceBothRelaysOff, MaxOn
<1>4. QED
  BY <1>1, <1>2, <1>3 DEF MotorType

(* Every initial state has the types.                                        *)
LEMMA TypeInit == Init => TypeOK
<1> SUFFICES ASSUME Init PROVE TypeOK
  OBVIOUS
<1>1. /\ pin \in [Sensors -> BOOLEAN] /\ pending \in [Sensors -> BOOLEAN]
      /\ activeISR \in [Sensors -> BOOLEAN] /\ edgeLost \in [Sensors -> BOOLEAN]
      /\ relay \in [Directions -> BOOLEAN]
      /\ stalled \in BOOLEAN /\ filteredCurrent \in BOOLEAN
  BY DEF Init
<1>2. QED
  BY <1>1, TimingAssumption
     DEF Init, TypeOK, WaitLimit, MaxOn, Phases, ToolStates, FaultCodes, Replies, NoReply

(* Every step keeps the types.                                               *)
LEMMA TypeStep == TypeOK /\ [Next]_vars => TypeOK'
<1> SUFFICES ASSUME TypeOK, [Next]_vars
             PROVE  TypeOK'
  OBVIOUS
<1> USE TimingAssumption, InputsAssumption
        DEF Phases, ToolStates, FaultCodes, Commands, NoCommand
<1>1. ASSUME NEW s \in Sensors, PinChange(s) PROVE TypeOK'
  <2>1. pin' \in [Sensors -> BOOLEAN] /\ pending' \in [Sensors -> BOOLEAN]
        /\ edgeLost' \in [Sensors -> BOOLEAN]
    BY <1>1 DEF PinChange, TypeOK
  <2>2. UNCHANGED <<activeISR, motorVars, stateVars, clk, phase, waited, cmd, reply>>
    BY <1>1 DEF PinChange
  <2>3. QED
    BY <2>1, <2>2 DEF TypeOK, WaitLimit, MaxOn, motorVars, stateVars
<1>2. ASSUME NEW s \in Sensors, OnChange(s) PROVE TypeOK'
  <2>1. pending' \in [Sensors -> BOOLEAN] /\ activeISR' \in [Sensors -> BOOLEAN]
        /\ edgeLost' \in [Sensors -> BOOLEAN]
    BY <1>2 DEF OnChange, TypeOK
  <2>2. overFor' \in {0, overFor}
    BY <1>2 DEF OnChange
  <2>3. UNCHANGED <<pin, relay, stalled, restFor, onFor, stateVars, clk, phase, waited, cmd, reply>>
    BY <1>2 DEF OnChange
  <2>4. QED
    BY <2>1, <2>2, <2>3 DEF TypeOK, WaitLimit, MaxOn, stateVars
<1>3. CASE Tick
  BY <1>3 DEF Tick, TypeOK, WaitLimit, MaxOn, NextMillis, AtMost, sensorVars, stateVars
<1>4. ASSUME NEW c \in Frames, ReceiveFrame(c) PROVE TypeOK'
  BY <1>4 DEF ReceiveFrame, TypeOK, WaitLimit, MaxOn, sensorVars, motorVars, stateVars
<1>5. CASE ReadInitialSensors
  <2>1. edgeLost' \in [Sensors -> BOOLEAN]
    BY <1>5 DEF ReadInitialSensors
  <2>2. QED
    BY <1>5, <2>1 DEF ReadInitialSensors, GoTo, TypeOK, WaitLimit, MaxOn, motorVars, stateVars
<1>6. CASE AttachInterrupts
  BY <1>6 DEF AttachInterrupts, GoTo, TypeOK, WaitLimit, MaxOn, sensorVars, motorVars, stateVars
<1>7. CASE FinishSetup
  BY <1>7 DEF FinishSetup, NextLoop, TypeOK, WaitLimit, MaxOn, sensorVars, motorVars, stateVars
<1>8. CASE ReceiveTimeout
  BY <1>8 DEF ReceiveTimeout, TypeOK, WaitLimit, MaxOn, sensorVars, motorVars, stateVars
<1>9. CASE CmdStop
  <2>1. MotorType'
    BY <1>9, StopType DEF CmdStop
  <2>2. QED
    BY <1>9, <2>1 DEF CmdStop, SendReply, Ack, Replies, Results, TypeOK, MotorType, WaitLimit, MaxOn,
                 sensorVars
<1>10. CASE CmdResetFault
  <2>1. MotorType'
    BY <1>10, StopType DEF CmdResetFault
  <2>2. filteredCurrent' \in BOOLEAN
    BY <1>10 DEF CmdResetFault
  <2>3. QED
    BY <1>10, <2>1, <2>2 DEF CmdResetFault, SendReply, Ack, Replies, Results, TypeOK, MotorType, WaitLimit, MaxOn,
                 sensorVars
<1>11. CASE CmdUnknown
  BY <1>11 DEF CmdUnknown, SendReply, Ack, Replies, Results, TypeOK, WaitLimit, MaxOn, sensorVars,
              motorVars, stateVars
<1>12. ASSUME NEW d \in Directions, StartInFault(d) PROVE TypeOK'
  BY <1>12 DEF StartInFault, SendReply, Ack, Replies, Results, Directions, TypeOK, WaitLimit, MaxOn,
              sensorVars, motorVars, stateVars
<1>13. ASSUME NEW d \in Directions, StartWhileMoving(d) PROVE TypeOK'
  BY <1>13 DEF StartWhileMoving, SendReply, Ack, Replies, Results, Directions, TypeOK, WaitLimit, MaxOn,
              sensorVars, motorVars, stateVars
<1>14. ASSUME NEW d \in Directions, StartReadsHL(d) PROVE TypeOK'
  BY <1>14 DEF StartReadsHL, GoTo, TypeOK, WaitLimit, MaxOn, sensorVars, motorVars, stateVars
<1>15. ASSUME NEW d \in Directions, StartReadsLL(d) PROVE TypeOK'
  <2>1. CASE activeISR["LL"]
    <3>1. MotorType'
      BY <1>15, <2>1, StopType DEF StartReadsLL, setFault
    <3>2. QED
      BY <1>15, <2>1, <3>1 DEF StartReadsLL, setFault, SendReply, Ack, Replies, Results, Directions,
                   TypeOK, MotorType, WaitLimit, MaxOn, sensorVars
  <2>2. CASE ~activeISR["LL"]
    BY <1>15, <2>2 DEF StartReadsLL, GoTo, TypeOK, WaitLimit, MaxOn, sensorVars, motorVars, stateVars
  <2>3. QED
    BY <2>1, <2>2
<1>16. ASSUME NEW d \in Directions, StartAtLimit(d) PROVE TypeOK'
  <2>1. MotorType'
    BY <1>16, StopType DEF StartAtLimit
  <2>2. QED
    BY <1>16, <2>1 DEF StartAtLimit, RejectedAt, SendReply, Ack, Replies, Results, Directions, TypeOK, MotorType,
                 WaitLimit, MaxOn, sensorVars
<1>17. ASSUME NEW d \in Directions, StartMovement(d) PROVE TypeOK'
  <2>1. MotorType'
    BY <1>17, StopType DEF StartMovement
  <2>2. filteredCurrent' \in BOOLEAN
    BY <1>17 DEF StartMovement
  <2>3. QED
    BY <1>17, <2>1, <2>2 DEF StartMovement, Prepare, SendReply, Ack, Replies, Results, Directions, TypeOK, MotorType,
                 WaitLimit, MaxOn, sensorVars
<1>18. CASE ReadStatus
  <2>1. PublicStatus \in PublicStates
    BY DEF PublicStatus, PublicStates
  <2>2. QED
    BY <1>18, <2>1 DEF ReadStatus, GoTo, Status, Replies, TypeOK, WaitLimit, MaxOn, sensorVars, motorVars, stateVars
<1>19. CASE SendStatus
  <2>1. reply.status \in PublicStates /\ reply.fault \in FaultCodes
    BY <1>19 DEF SendStatus, TypeOK, Replies, NoReply
  <2>2. reply' \in Replies
    BY <1>19, <2>1 DEF SendStatus, SendReply, Status, Replies, TypeOK, Sensors
  <2>3. QED
    BY <1>19, <2>2 DEF SendStatus, SendReply, TypeOK, WaitLimit, MaxOn, sensorVars, motorVars, stateVars
<1>20. CASE FinishReply
  BY <1>20 DEF FinishReply, NoReply, Replies, TypeOK, WaitLimit, MaxOn, sensorVars, motorVars, stateVars
<1>21. CASE UpdateReadsHL
  <2>1. CASE areBothRelaysActive
    <3>1. MotorType'
      BY <1>21, <2>1, StopType DEF UpdateReadsHL, setFault
    <3>2. QED
      BY <1>21, <2>1, <3>1 DEF UpdateReadsHL, setFault, NextLoop, TypeOK, MotorType, WaitLimit, MaxOn, sensorVars
  <2>2. CASE ~areBothRelaysActive
    BY <1>21, <2>2 DEF UpdateReadsHL, GoTo, TypeOK, WaitLimit, MaxOn, sensorVars, motorVars
  <2>3. QED
    BY <2>1, <2>2
<1>22. CASE UpdateReadsLL
  <2>1. CASE activeISR["LL"]
    <3>1. MotorType'
      BY <1>22, <2>1, StopType DEF UpdateReadsLL, setFault
    <3>2. QED
      BY <1>22, <2>1, <3>1 DEF UpdateReadsLL, setFault, NextLoop, TypeOK, MotorType, WaitLimit, MaxOn, sensorVars
  <2>2. CASE ~activeISR["LL"]
    BY <1>22, <2>2 DEF UpdateReadsLL, GoTo, TypeOK, WaitLimit, MaxOn, sensorVars, motorVars
  <2>3. QED
    BY <2>1, <2>2
<1>23. CASE UpdateAtRest
  <2>1. MotorType'
    BY <1>23, StopType DEF UpdateAtRest
  <2>2. QED
    BY <1>23, <2>1 DEF UpdateAtRest, NextLoop, TypeOK, MotorType, WaitLimit, MaxOn, sensorVars, stateVars
<1>24. ASSUME NEW d \in Directions, UpdatePrepare(d) PROVE TypeOK'
  <2>1. relay' \in [Directions -> BOOLEAN]
    BY <1>24 DEF UpdatePrepare, ActivateSafely, TypeOK, motorVars
  <2>2. MotorType'
    BY <1>24, <2>1 DEF UpdatePrepare, ActivateSafely, TypeOK, MotorType, MaxOn, motorVars
  <2>3. filteredCurrent' \in BOOLEAN
    BY <1>24 DEF UpdatePrepare, TypeOK
  <2>4. QED
    BY <1>24, <2>2, <2>3 DEF UpdatePrepare, Moving, NextLoop, TypeOK, MotorType, WaitLimit, MaxOn, sensorVars
<1>25. ASSUME NEW d \in Directions, UpdateMoving(d) PROVE TypeOK'
  <2>1. MotorType'
    <3>1. forceBothRelaysOff \/ UNCHANGED motorVars
      BY <1>25 DEF UpdateMoving, setFault
    <3>2. UNCHANGED motorVars => MotorType'
      BY DEF TypeOK, MotorType, MaxOn, motorVars
    <3>3. QED
      BY <3>1, <3>2, StopType
  <2>2. toolState' \in ToolStates /\ faultCode' \in FaultCodes
    BY <1>25 DEF UpdateMoving, setFault, TimeoutFault, OvercurrentFault, TypeOK
  <2>3. QED
    BY <1>25, <2>1, <2>2 DEF UpdateMoving, NextLoop, TypeOK, MotorType, WaitLimit, MaxOn, sensorVars
<1>26. CASE UNCHANGED vars
  BY <1>26 DEF TypeOK, WaitLimit, MaxOn, vars, sensorVars, motorVars, stateVars
<1>27. QED
  BY <1>1, <1>2, <1>3, <1>4, <1>5, <1>6, <1>7, <1>8, <1>9, <1>10, <1>11, <1>12, <1>13,
     <1>14, <1>15, <1>16, <1>17, <1>18, <1>19, <1>20, <1>21, <1>22, <1>23, <1>24, <1>25,
     <1>26
     DEF Next, LoopStep, Start

(* Every variable keeps its type: the millisecond counters stay below W, a    *)
(* wait stays within its limit, and the frame under construction is a STATUS   *)
(* when sendToolStatus fills it in.                                           *)
THEOREM TypeCorrect == Spec => []TypeOK
BY TypeInit, TypeStep, PTL DEF Spec
-----------------------------------------------------------------------------
(* The inductive invariant.                                                  *)

(* Switching both relays off clears the motor's clocks.                      *)
LEMMA StopClears ==
    ASSUME TypeOK, forceBothRelaysOff
    PROVE  /\ \A d \in Directions : ~relay'[d]
           /\ onFor' = 0 /\ overFor' = 0
BY DEF forceBothRelaysOff

(* Facts of arithmetic.                                                      *)
LEMMA SumMonotone ==
    \A o, t, l, m \in Int : o <= t - 1 + l /\ m >= l => o <= t - 1 + m
OBVIOUS

(* A clock read now has no time behind it.                                   *)
LEMMA NoTimeYet ==
    \A now, since \in Int : since = now =>
        (IF now >= since THEN now - since ELSE now - since + W) = 0
OBVIOUS

(* A step that leaves the motor, the state machine, the flags and the clock   *)
(* alone keeps the invariant if it does not make the loop look younger.        *)
LEMMA ControlStep ==
    ASSUME ToolInv, TypeOK',
           UNCHANGED <<motorVars, stateVars, activeISR, clk>>,
           SetupAtRest',
           \A d \in Directions : toolState = Moving(d) => LoopAge' >= LoopAge
    PROVE  ToolInv'
<1>0. MOVEMENT_TIMEOUT \in Int
  BY TimingAssumption
<1>1. LoopAge \in Int /\ LoopAge' \in Int
  BY TimingAssumption DEF LoopAge, ToolInv, TypeOK
<1>2. RelaysMatchState' /\ AtRestNoTime'
  BY DEF ToolInv, RelaysMatchState, AtRestNoTime, Moving, motorVars, stateVars
<1>3. MovementClock'
  <2> SUFFICES ASSUME NEW d \in Directions, toolState = Moving(d)
               PROVE  /\ Elapsed(movementStart)' = onFor'
                      /\ onFor' <= MOVEMENT_TIMEOUT - 1 + LoopAge'
    BY DEF MovementClock, Moving, stateVars
  <2>1. Elapsed(movementStart)' = Elapsed(movementStart) /\ onFor' = onFor
    BY DEF Elapsed, motorVars, stateVars
  <2>2. /\ Elapsed(movementStart) = onFor /\ onFor \in Int
        /\ onFor <= MOVEMENT_TIMEOUT - 1 + LoopAge
    BY TimingAssumption DEF ToolInv, MovementClock, TypeOK, MaxOn
  <2>3. LoopAge' >= LoopAge
    OBVIOUS
  <2>4. onFor' <= MOVEMENT_TIMEOUT - 1 + LoopAge'
    BY <1>1, <2>1, <2>2, <2>3, <1>0, SumMonotone
  <2>5. QED
    BY <2>1, <2>2, <2>4
<1>4. OvertravelClock'
  BY <1>1, TimingAssumption
     DEF ToolInv, OvertravelClock, Moving, LimitOf, motorVars, stateVars, TypeOK, MaxOn
<1>5. RestClock'
  BY DEF ToolInv, RestClock, Elapsed, AtMost, Prepare, motorVars, stateVars
<1>6. QED
  BY <1>2, <1>3, <1>4, <1>5 DEF ToolInv

(* A step that switches both relays off keeps the invariant if it ends at     *)
(* rest, in fault, or preparing a movement from the present millisecond.       *)
LEMMA StopStep ==
    ASSUME ToolInv, TypeOK', forceBothRelaysOff,
           SetupAtRest',
           \/ toolState' \in {"IDLE", "FAULT"}
           \/ (\E d \in Directions : toolState' = Prepare(d)) /\ stateStart' = clk /\ clk' = clk
    PROVE  ToolInv'
<1>1. \A d \in Directions : toolState' # Moving(d)
  BY DEF Prepare, Moving, Directions
<1>2. RelaysMatchState' /\ AtRestNoTime' /\ MovementClock' /\ OvertravelClock'
  BY <1>1, StopClears DEF ToolInv, RelaysMatchState, AtRestNoTime, MovementClock, OvertravelClock
<1>3. RestClock'
  BY TimingAssumption DEF RestClock, Elapsed, AtMost, Prepare, TypeOK, ToolInv
<1>4. QED
  BY <1>2, <1>3 DEF ToolInv

(* Time passes: the clocks advance with millis(), which does not come round   *)
(* while a movement lasts.                                                    *)
LEMMA TickStep == ToolInv /\ TypeOK' /\ Tick => ToolInv'
<1> SUFFICES ASSUME ToolInv, TypeOK', Tick PROVE ToolInv'
  OBVIOUS
<1> USE TimingAssumption
<1>1. toolState' = toolState /\ relay' = relay /\ phase' = phase /\ activeISR' = activeISR
      /\ stateStart' = stateStart /\ movementStart' = movementStart
  BY DEF Tick, sensorVars, stateVars
<1>2. SetupAtRest' /\ RelaysMatchState'
  BY <1>1 DEF ToolInv, SetupAtRest, RelaysMatchState, Moving
<1>3. ASSUME NEW d \in Directions, toolState = Moving(d)
      PROVE  /\ LoopAge' = LoopAge + 1 /\ LoopAge \in Nat
             /\ LoopAge + 1 <= FRAME_TIMEOUT + REPLY_TIME
  <2>1. phase \in {"read", "reply"}
    BY <1>3 DEF Tick, WaitLimit, ToolInv, SetupAtRest, Moving, TypeOK
  <2>2. QED
    BY <1>1, <2>1 DEF Tick, WaitLimit, LoopAge, ToolInv, TypeOK
<1>4. ASSUME NEW since \in 0..(W - 1), Elapsed(since) + 1 < W
      PROVE  (IF clk' >= since THEN clk' - since ELSE clk' - since + W) = Elapsed(since) + 1
  BY <1>4 DEF Tick, NextMillis, Elapsed, ToolInv, TypeOK
<1>5. MovementClock'
  <2> SUFFICES ASSUME NEW d \in Directions, toolState = Moving(d)
               PROVE  /\ Elapsed(movementStart)' = onFor'
                      /\ onFor' <= MOVEMENT_TIMEOUT - 1 + LoopAge'
    BY <1>1 DEF MovementClock, Moving
  <2>1. relay[d]
    BY DEF ToolInv, RelaysMatchState
  <2>2. /\ Elapsed(movementStart) = onFor /\ onFor <= MOVEMENT_TIMEOUT - 1 + LoopAge
        /\ onFor \in Nat
    BY DEF ToolInv, MovementClock, TypeOK
  <2>3. onFor' = AtMost(onFor + 1, MaxOn + 1)
    BY <2>1 DEF Tick
  <2>4. onFor' = onFor + 1 /\ onFor + 1 < W
    BY <1>3, <2>2, <2>3 DEF AtMost, MaxOn
  <2>5. Elapsed(movementStart)' = Elapsed(movementStart) + 1
    BY <1>1, <1>4, <2>2, <2>4 DEF Elapsed, ToolInv, TypeOK
  <2>6. QED
    BY <1>3, <2>2, <2>4, <2>5
<1>6. OvertravelClock'
  <2> SUFFICES ASSUME NEW d \in Directions, toolState = Moving(d)
               PROVE  /\ overFor' <= LoopAge'
                      /\ ~activeISR[LimitOf(d)] => overFor' = 0
    BY <1>1 DEF OvertravelClock, Moving, LimitOf
  <2>1. \A e \in Directions : relay[e] <=> e = d
    BY DEF ToolInv, RelaysMatchState, Moving, Directions
  <2>2. overFor' = IF activeISR[LimitOf(d)] THEN AtMost(overFor + 1, MaxOn + 1) ELSE 0
    BY <2>1 DEF Tick
  <2>3. overFor <= LoopAge /\ overFor \in Nat
    BY DEF ToolInv, OvertravelClock, TypeOK
  <2>4. QED
    BY <1>3, <2>2, <2>3 DEF AtMost, MaxOn
<1>7. AtRestNoTime'
  <2> SUFFICES ASSUME \A d \in Directions : toolState # Moving(d)
               PROVE  onFor' = 0 /\ overFor' = 0
    BY <1>1 DEF AtRestNoTime, Moving
  <2>1. \A d \in Directions : ~relay[d]
    BY DEF ToolInv, RelaysMatchState
  <2>2. QED
    BY <2>1 DEF Tick, ToolInv, AtRestNoTime
<1>8. RestClock'
  <2> SUFFICES ASSUME NEW d \in Directions, toolState = Prepare(d)
               PROVE  restFor' >= AtMost(Elapsed(stateStart)', DEAD_TIME)
    BY <1>1 DEF RestClock, Prepare, AtMost
  <2>1. \A e \in Directions : ~relay[e]
    BY DEF ToolInv, RelaysMatchState, Moving, Prepare, Directions
  <2>2. restFor' = AtMost(restFor + 1, DEAD_TIME) /\ restFor \in 0..DEAD_TIME
    BY <2>1 DEF Tick, ToolInv, TypeOK
  <2>3. restFor >= AtMost(Elapsed(stateStart), DEAD_TIME)
    BY DEF ToolInv, RestClock
  <2>4. Elapsed(stateStart)' \in Nat /\ Elapsed(stateStart)' <= Elapsed(stateStart) + 1
        /\ Elapsed(stateStart) \in Nat
    BY <1>1 DEF Tick, NextMillis, Elapsed, ToolInv, TypeOK
  <2>5. QED
    BY <2>2, <2>3, <2>4 DEF AtMost
<1>9. QED
  BY <1>2, <1>5, <1>6, <1>7, <1>8 DEF ToolInv

(* Every step keeps the invariant.                                           *)
LEMMA ToolInvStep == ToolInv /\ [Next]_vars => ToolInv'
<1> SUFFICES ASSUME ToolInv, [Next]_vars
             PROVE  ToolInv'
  OBVIOUS
<1>0. TypeOK'
  BY TypeStep DEF ToolInv
<1> USE <1>0
<1>1. ASSUME NEW s \in Sensors, PinChange(s) PROVE ToolInv'
  <2>1. UNCHANGED <<motorVars, stateVars, activeISR, clk>>
    BY <1>1 DEF PinChange, sensorVars
  <2>2. LoopAge' >= LoopAge
    BY <1>1, TimingAssumption DEF PinChange, LoopAge, WaitLimit, ToolInv, TypeOK
  <2>3. SetupAtRest'
    BY <1>1 DEF PinChange, SetupAtRest, ToolInv, stateVars
  <2>4. QED
    BY <2>1, <2>2, <2>3, ControlStep
<1>2. ASSUME NEW s \in Sensors, OnChange(s) PROVE ToolInv'
  <2>1. UNCHANGED <<relay, onFor, restFor, stateVars, clk, phase, waited>>
    BY <1>2 DEF OnChange
  <2>2. RelaysMatchState' /\ SetupAtRest'
    BY <2>1 DEF ToolInv, RelaysMatchState, SetupAtRest, Moving, stateVars
  <2>3. overFor' \in {0, overFor}
    BY <1>2 DEF OnChange
  <2>4. AtRestNoTime'
    BY <2>1, <2>3 DEF ToolInv, AtRestNoTime, Moving, stateVars
  <2>5. MovementClock' /\ RestClock'
    BY <2>1 DEF ToolInv, MovementClock, RestClock, Elapsed, AtMost, LoopAge, Moving, Prepare, stateVars
  <2>6. OvertravelClock'
    <3> SUFFICES ASSUME NEW d \in Directions, toolState = Moving(d)
                 PROVE  overFor' <= LoopAge' /\ (~activeISR'[LimitOf(d)] => overFor' = 0)
      BY <2>1 DEF OvertravelClock, Moving, LimitOf, stateVars
    <3>1. LoopAge' = LoopAge /\ LoopAge \in Nat
      BY <2>1, TimingAssumption DEF LoopAge, ToolInv, TypeOK
    <3>2. overFor <= LoopAge /\ (~activeISR[LimitOf(d)] => overFor = 0)
      BY DEF ToolInv, OvertravelClock
    <3>3. relay[d] /\ LimitOf(d) \in Sensors
      BY DEF ToolInv, RelaysMatchState, LimitOf, Sensors
    <3>4. ~activeISR'[LimitOf(d)] => overFor' = 0
      BY <1>2, <2>3, <3>2, <3>3 DEF OnChange, ToolInv, TypeOK
    <3>5. QED
      BY <2>3, <3>1, <3>2, <3>4
  <2>7. QED
    BY <2>2, <2>4, <2>5, <2>6 DEF ToolInv
<1>3. CASE Tick
  BY <1>3, TickStep
<1>4. ASSUME NEW c \in Frames, ReceiveFrame(c) PROVE ToolInv'
  <2>1. UNCHANGED <<motorVars, stateVars, activeISR, clk>>
    BY <1>4 DEF ReceiveFrame, sensorVars
  <2>2. LoopAge' >= LoopAge
    BY <1>4, TimingAssumption DEF ReceiveFrame, LoopAge, WaitLimit, ToolInv, TypeOK
  <2>3. SetupAtRest'
    BY <1>4 DEF ReceiveFrame, SetupAtRest, ToolInv, stateVars
  <2>4. QED
    BY <2>1, <2>2, <2>3, ControlStep
<1>5. CASE ReadInitialSensors
  <2>1. /\ UNCHANGED <<motorVars, stateVars, clk>> /\ phase' = "attach"
        /\ toolState = "IDLE"
        /\ \A d \in Directions : toolState # Moving(d) /\ toolState # Prepare(d)
    BY <1>5 DEF ReadInitialSensors, GoTo, ToolInv, SetupAtRest, Moving, Prepare
  <2>2. \A d \in Directions : toolState' # Moving(d) /\ toolState' # Prepare(d)
    BY <2>1 DEF Moving, Prepare, stateVars
  <2>3. RelaysMatchState' /\ SetupAtRest' /\ AtRestNoTime'
    BY <2>1 DEF ToolInv, RelaysMatchState, SetupAtRest, AtRestNoTime, Moving, motorVars, stateVars
  <2>4. MovementClock' /\ OvertravelClock' /\ RestClock'
    BY <2>2 DEF MovementClock, OvertravelClock, RestClock, Moving, Prepare
  <2>5. QED
    BY <2>3, <2>4 DEF ToolInv
<1>6. CASE AttachInterrupts
  <2>1. UNCHANGED <<motorVars, stateVars, activeISR, clk>>
    BY <1>6 DEF AttachInterrupts, sensorVars
  <2>2. LoopAge' >= LoopAge
    BY <1>6, TimingAssumption DEF AttachInterrupts, GoTo, LoopAge, WaitLimit, ToolInv, TypeOK
  <2>3. SetupAtRest'
    BY <1>6 DEF AttachInterrupts, GoTo, SetupAtRest, ToolInv, stateVars
  <2>4. QED
    BY <2>1, <2>2, <2>3, ControlStep
<1>7. CASE FinishSetup
  <2>1. \A d \in Directions : toolState # Moving(d)
    BY <1>7 DEF FinishSetup, ToolInv, SetupAtRest, Moving
  <2>2. QED
    BY <1>7, <2>1, ControlStep DEF FinishSetup, NextLoop, SetupAtRest, sensorVars, stateVars
<1>8. CASE ReceiveTimeout
  <2>1. UNCHANGED <<motorVars, stateVars, activeISR, clk>>
    BY <1>8 DEF ReceiveTimeout, sensorVars
  <2>2. LoopAge' >= LoopAge
    BY <1>8, TimingAssumption DEF ReceiveTimeout, LoopAge, WaitLimit, ToolInv, TypeOK
  <2>3. SetupAtRest'
    BY <1>8 DEF ReceiveTimeout, SetupAtRest, ToolInv, stateVars
  <2>4. QED
    BY <2>1, <2>2, <2>3, ControlStep
<1>9. CASE CmdStop
  BY <1>9, StopStep DEF CmdStop, SendReply, SetupAtRest
<1>10. CASE CmdResetFault
  BY <1>10, StopStep DEF CmdResetFault, SendReply, SetupAtRest
<1>11. CASE CmdUnknown
  <2>1. UNCHANGED <<motorVars, stateVars, activeISR, clk>>
    BY <1>11 DEF CmdUnknown, sensorVars
  <2>2. LoopAge' >= LoopAge
    BY <1>11, TimingAssumption DEF CmdUnknown, SendReply, LoopAge, WaitLimit, ToolInv, TypeOK
  <2>3. SetupAtRest'
    BY <1>11 DEF CmdUnknown, SendReply, SetupAtRest, ToolInv, stateVars
  <2>4. QED
    BY <2>1, <2>2, <2>3, ControlStep
<1>12. ASSUME NEW d \in Directions, StartInFault(d) PROVE ToolInv'
  <2>1. UNCHANGED <<motorVars, stateVars, activeISR, clk>>
    BY <1>12 DEF StartInFault, sensorVars
  <2>2. LoopAge' >= LoopAge
    BY <1>12, TimingAssumption DEF StartInFault, SendReply, LoopAge, WaitLimit, ToolInv, TypeOK
  <2>3. SetupAtRest'
    BY <1>12 DEF StartInFault, SendReply, SetupAtRest, ToolInv, stateVars
  <2>4. QED
    BY <2>1, <2>2, <2>3, ControlStep
<1>13. ASSUME NEW d \in Directions, StartReadsHL(d) PROVE ToolInv'
  <2>1. UNCHANGED <<motorVars, stateVars, activeISR, clk>>
    BY <1>13 DEF StartReadsHL, sensorVars
  <2>2. LoopAge' >= LoopAge
    BY <1>13, TimingAssumption DEF StartReadsHL, GoTo, LoopAge, WaitLimit, ToolInv, TypeOK
  <2>3. SetupAtRest'
    BY <1>13 DEF StartReadsHL, GoTo, SetupAtRest, ToolInv, stateVars
  <2>4. QED
    BY <2>1, <2>2, <2>3, ControlStep
<1>14. ASSUME NEW d \in Directions, StartReadsLL(d) PROVE ToolInv'
  <2>1. CASE activeISR["LL"]
    BY <1>14, <2>1, StopStep DEF StartReadsLL, setFault, SendReply, SetupAtRest
  <2>2. CASE ~activeISR["LL"]
    <3>1. UNCHANGED <<motorVars, stateVars, activeISR, clk>>
      BY <1>14, <2>2 DEF StartReadsLL, sensorVars, stateVars
    <3>2. LoopAge' >= LoopAge
      BY <1>14, <2>2, TimingAssumption DEF StartReadsLL, GoTo, LoopAge, WaitLimit, ToolInv, TypeOK
    <3>3. SetupAtRest'
      BY <1>14, <2>2 DEF StartReadsLL, GoTo, SetupAtRest, ToolInv, stateVars
    <3>4. QED
      BY <3>1, <3>2, <3>3, ControlStep
  <2>3. QED
    BY <2>1, <2>2
<1>15. ASSUME NEW d \in Directions, StartWhileMoving(d) PROVE ToolInv'
  <2>1. UNCHANGED <<motorVars, stateVars, activeISR, clk>>
    BY <1>15 DEF StartWhileMoving, sensorVars
  <2>2. LoopAge' >= LoopAge
    BY <1>15, TimingAssumption DEF StartWhileMoving, SendReply, LoopAge, WaitLimit, ToolInv, TypeOK
  <2>3. SetupAtRest'
    BY <1>15 DEF StartWhileMoving, SendReply, SetupAtRest, ToolInv, stateVars
  <2>4. QED
    BY <2>1, <2>2, <2>3, ControlStep
<1>16. ASSUME NEW d \in Directions, StartAtLimit(d) PROVE ToolInv'
  BY <1>16, StopStep DEF StartAtLimit, SendReply, SetupAtRest
<1>17. ASSUME NEW d \in Directions, StartMovement(d) PROVE ToolInv'
  BY <1>17, StopStep DEF StartMovement, SendReply, SetupAtRest
<1>18. CASE ReadStatus
  <2>1. UNCHANGED <<motorVars, stateVars, activeISR, clk>>
    BY <1>18 DEF ReadStatus, sensorVars
  <2>2. LoopAge' >= LoopAge
    BY <1>18, TimingAssumption DEF ReadStatus, GoTo, LoopAge, WaitLimit, ToolInv, TypeOK
  <2>3. SetupAtRest'
    BY <1>18 DEF ReadStatus, GoTo, SetupAtRest, ToolInv, stateVars
  <2>4. QED
    BY <2>1, <2>2, <2>3, ControlStep
<1>19. CASE SendStatus
  <2>1. UNCHANGED <<motorVars, stateVars, activeISR, clk>>
    BY <1>19 DEF SendStatus, sensorVars
  <2>2. LoopAge' >= LoopAge
    BY <1>19, TimingAssumption DEF SendStatus, SendReply, LoopAge, WaitLimit, ToolInv, TypeOK
  <2>3. SetupAtRest'
    BY <1>19 DEF SendStatus, SendReply, SetupAtRest, ToolInv, stateVars
  <2>4. QED
    BY <2>1, <2>2, <2>3, ControlStep
<1>20. CASE FinishReply
  <2>1. UNCHANGED <<motorVars, stateVars, activeISR, clk>>
    BY <1>20 DEF FinishReply, sensorVars
  <2>2. LoopAge' >= LoopAge
    BY <1>20, TimingAssumption DEF FinishReply, LoopAge, WaitLimit, ToolInv, TypeOK
  <2>3. SetupAtRest'
    BY <1>20 DEF FinishReply, SetupAtRest, ToolInv, stateVars
  <2>4. QED
    BY <2>1, <2>2, <2>3, ControlStep
<1>21. CASE UpdateReadsHL
  <2>1. CASE areBothRelaysActive
    BY <1>21, <2>1, StopStep DEF UpdateReadsHL, setFault, NextLoop, SetupAtRest
  <2>2. CASE ~areBothRelaysActive
    <3>1. UNCHANGED <<motorVars, stateVars, activeISR, clk>>
      BY <1>21, <2>2 DEF UpdateReadsHL, sensorVars, stateVars
    <3>2. LoopAge' >= LoopAge
      BY <1>21, <2>2, TimingAssumption DEF UpdateReadsHL, GoTo, LoopAge, WaitLimit, ToolInv, TypeOK
    <3>3. SetupAtRest'
      BY <1>21, <2>2 DEF UpdateReadsHL, GoTo, SetupAtRest, ToolInv, stateVars
    <3>4. QED
      BY <3>1, <3>2, <3>3, ControlStep
  <2>3. QED
    BY <2>1, <2>2
<1>22. CASE UpdateReadsLL
  <2>1. CASE activeISR["LL"]
    BY <1>22, <2>1, StopStep DEF UpdateReadsLL, setFault, NextLoop, SetupAtRest
  <2>2. CASE ~activeISR["LL"]
    <3>1. UNCHANGED <<motorVars, stateVars, activeISR, clk>>
      BY <1>22, <2>2 DEF UpdateReadsLL, sensorVars, stateVars
    <3>2. LoopAge' >= LoopAge
      BY <1>22, <2>2, TimingAssumption DEF UpdateReadsLL, GoTo, LoopAge, WaitLimit, ToolInv, TypeOK
    <3>3. SetupAtRest'
      BY <1>22, <2>2 DEF UpdateReadsLL, GoTo, SetupAtRest, ToolInv, stateVars
    <3>4. QED
      BY <3>1, <3>2, <3>3, ControlStep
  <2>3. QED
    BY <2>1, <2>2
<1>23. CASE UpdateAtRest
  BY <1>23, StopStep DEF UpdateAtRest, isMovingOrPreparing, NextLoop, stateVars, ToolInv, TypeOK, ToolStates, SetupAtRest
<1>24. ASSUME NEW d \in Directions, UpdatePrepare(d) PROVE ToolInv'
  <2>1. CASE DeadTimeOver
    <3>1. /\ toolState' = Moving(d) /\ movementStart' = clk' /\ onFor' = 0 /\ overFor' = 0
          /\ LoopAge' = 0 /\ phase' = "read"
      BY <1>24, <2>1 DEF UpdatePrepare, ActivateSafely, NextLoop, LoopAge
    <3>2. \A e \in Directions : relay'[e] <=> e = d
      BY <1>24, <2>1 DEF UpdatePrepare, ActivateSafely, Opposite, Directions, ToolInv, TypeOK
    <3>3. RelaysMatchState'
      BY <3>1, <3>2 DEF RelaysMatchState, Moving, Directions
    <3>4. SetupAtRest' /\ AtRestNoTime' /\ OvertravelClock' /\ RestClock'
      BY <3>1 DEF SetupAtRest, AtRestNoTime, OvertravelClock, RestClock, Moving, Prepare
    <3>5. Elapsed(movementStart)' = 0
      <4>1. clk' \in Int /\ movementStart' \in Int
        BY TimingAssumption DEF TypeOK
      <4>2. QED
        BY <3>1, <4>1, NoTimeYet DEF Elapsed
    <3>6. MovementClock'
      BY <3>1, <3>5, TimingAssumption DEF MovementClock
    <3>7. QED
      BY <3>3, <3>4, <3>6 DEF ToolInv
  <2>2. CASE ~DeadTimeOver
    <3>1. \A e \in Directions : toolState # Moving(e)
      BY <1>24 DEF UpdatePrepare, Prepare, Moving
    <3>2. QED
      BY <1>24, <2>2, <3>1, ControlStep
         DEF UpdatePrepare, NextLoop, SetupAtRest, sensorVars, motorVars, stateVars
  <2>3. QED
    BY <2>1, <2>2
<1>25. ASSUME NEW d \in Directions, UpdateMoving(d) PROVE ToolInv'
  <2>1. CASE forceBothRelaysOff
    BY <1>25, <2>1, StopStep DEF UpdateMoving, setFault, NextLoop, SetupAtRest, motorVars, ToolInv,
                             RelaysMatchState, forceBothRelaysOff
  <2>2. CASE ~forceBothRelaysOff
    <3>1. /\ ~LimitReached(d) /\ Elapsed(movementStart) < MOVEMENT_TIMEOUT
          /\ UNCHANGED <<motorVars, stateVars, activeISR, clk>> /\ phase' = "read" /\ waited' = 0
          /\ toolState = Moving(d)
      BY <1>25, <2>2, TimingAssumption
         DEF UpdateMoving, setFault, NextLoop, sensorVars, stateVars, Elapsed, ToolInv, TypeOK
    <3>2. /\ onFor = Elapsed(movementStart) /\ overFor = 0
      BY <3>1 DEF ToolInv, MovementClock, OvertravelClock, LimitReached
    <3>3. LoopAge' = 0
      BY <3>1 DEF LoopAge
    <3>4. RelaysMatchState' /\ SetupAtRest' /\ AtRestNoTime'
      BY <3>1 DEF ToolInv, RelaysMatchState, SetupAtRest, AtRestNoTime, Moving, motorVars, stateVars
    <3>5. Elapsed(movementStart)' = Elapsed(movementStart) /\ Elapsed(movementStart) \in Int
      BY <3>1, TimingAssumption DEF Elapsed, stateVars, ToolInv, TypeOK
    <3>6. MovementClock' /\ OvertravelClock'
      BY <3>1, <3>2, <3>3, <3>5, TimingAssumption
         DEF MovementClock, OvertravelClock, motorVars
    <3>7. RestClock'
      BY <3>1 DEF RestClock, Moving, Prepare, stateVars
    <3>8. QED
      BY <3>4, <3>6, <3>7 DEF ToolInv
  <2>3. QED
    BY <2>1, <2>2
<1>26. CASE UNCHANGED vars
  <2>1. UNCHANGED <<motorVars, stateVars, activeISR, clk>>
    BY <1>26 DEF vars, sensorVars
  <2>2. LoopAge' >= LoopAge
    BY <1>26, TimingAssumption DEF vars, LoopAge, WaitLimit, ToolInv, TypeOK
  <2>3. SetupAtRest'
    BY <1>26 DEF vars, SetupAtRest, ToolInv, stateVars
  <2>4. QED
    BY <2>1, <2>2, <2>3, ControlStep
<1>27. QED
  BY <1>1, <1>2, <1>3, <1>4, <1>5, <1>6, <1>7, <1>8, <1>9, <1>10, <1>11, <1>12, <1>13,
     <1>14, <1>15, <1>16, <1>17, <1>18, <1>19, <1>20, <1>21, <1>22, <1>23, <1>24, <1>25,
     <1>26
     DEF Next, LoopStep, Start

(* Every initial state satisfies the inductive invariant.                    *)
LEMMA ToolInvInit == Init => ToolInv
<1> SUFFICES ASSUME Init PROVE ToolInv
  OBVIOUS
<1>1. \A d \in Directions : toolState # Moving(d) /\ toolState # Prepare(d)
  BY DEF Init, Moving, Prepare
<1>2. RelaysMatchState /\ AtRestNoTime
  BY <1>1 DEF Init, RelaysMatchState, AtRestNoTime
<1>3. SetupAtRest /\ MovementClock /\ OvertravelClock /\ RestClock
  BY <1>1 DEF Init, SetupAtRest, MovementClock, OvertravelClock, RestClock
<1>4. QED
  BY <1>2, <1>3, TypeInit DEF ToolInv

(* The strengthening of the type invariant with the relays and the clocks is  *)
(* an invariant: the theorems below are its consequences.                     *)
THEOREM ToolInvariant == Spec => []ToolInv
BY ToolInvInit, ToolInvStep, PTL DEF Spec

(* For every timing of the firmware a relay is on exactly in the MOVING state *)
(* of its direction; so never both, and none in TOOL_FAULT.                    *)
THEOREM RelaySafety == Spec => []RelaysMatchState
<1>1. ToolInv => RelaysMatchState
  BY DEF ToolInv
<1>2. QED
  BY <1>1, ToolInvariant, PTL

(* For every timing of the firmware, and every wrap of millis(), a relay is   *)
(* on for at most the movement timeout and one loop.                           *)
THEOREM OnTimeBound == Spec => []OnTimeBounded
<1>1. ToolInv => OnTimeBounded
  <2> SUFFICES ASSUME ToolInv PROVE onFor <= MaxOn
    BY DEF OnTimeBounded
  <2> USE TimingAssumption
  <2>1. LoopAge \in Int /\ LoopAge <= FRAME_TIMEOUT + REPLY_TIME
    BY DEF LoopAge, WaitLimit, ToolInv, TypeOK
  <2>2. CASE \E d \in Directions : toolState = Moving(d)
    <3>1. onFor \in Int /\ onFor <= MOVEMENT_TIMEOUT - 1 + LoopAge
      BY <2>2 DEF ToolInv, MovementClock, TypeOK, MaxOn
    <3>2. QED
      BY <2>1, <3>1 DEF MaxOn
  <2>3. CASE \A d \in Directions : toolState # Moving(d)
    BY <2>3 DEF ToolInv, AtRestNoTime, MaxOn
  <2>4. QED
    BY <2>2, <2>3
<1>2. QED
  BY <1>1, ToolInvariant, PTL

(* For every timing of the firmware the motor is off within one loop of the   *)
(* interrupt that flags the limit it moves to.                                *)
THEOREM OvertravelBound == Spec => []OvertravelBounded
<1>1. ToolInv => OvertravelBounded
  <2> SUFFICES ASSUME ToolInv PROVE overFor <= FRAME_TIMEOUT + REPLY_TIME
    BY DEF OvertravelBounded
  <2> USE TimingAssumption
  <2>1. LoopAge \in Int /\ LoopAge <= FRAME_TIMEOUT + REPLY_TIME
    BY DEF LoopAge, WaitLimit, ToolInv, TypeOK
  <2>2. CASE \E d \in Directions : toolState = Moving(d)
    <3>1. overFor \in Int /\ overFor <= LoopAge
      BY <2>2 DEF ToolInv, OvertravelClock, TypeOK, MaxOn
    <3>2. QED
      BY <2>1, <3>1
  <2>3. CASE \A d \in Directions : toolState # Moving(d)
    BY <2>3 DEF ToolInv, AtRestNoTime
  <2>4. QED
    BY <2>2, <2>3
<1>2. QED
  BY <1>1, ToolInvariant, PTL

(* Relays change in two ways only: both go off, or updateTool closes one      *)
(* after the dead time.                                                       *)
LEMMA RelayChange ==
    ASSUME [Next]_vars
    PROVE  \/ relay' = relay
           \/ forceBothRelaysOff
           \/ \E d \in Directions : UpdatePrepare(d) /\ DeadTimeOver
<1>1. ASSUME NEW d \in Directions, Start(d) PROVE relay' = relay \/ forceBothRelaysOff
  BY <1>1 DEF Start, StartInFault, StartReadsHL, StartReadsLL, StartWhileMoving, StartAtLimit,
              StartMovement, setFault, motorVars
<1>2. ASSUME NEW d \in Directions, UpdateMoving(d) PROVE relay' = relay \/ forceBothRelaysOff
  BY <1>2 DEF UpdateMoving, setFault, motorVars
<1>3. ASSUME NEW d \in Directions, UpdatePrepare(d) PROVE relay' = relay \/ DeadTimeOver
  BY <1>3 DEF UpdatePrepare, motorVars
<1>4. CASE \/ CmdStop \/ CmdResetFault \/ CmdUnknown \/ ReadStatus \/ SendStatus \/ FinishReply
           \/ UpdateReadsHL \/ UpdateReadsLL \/ UpdateAtRest
  BY <1>4 DEF CmdStop, CmdResetFault, CmdUnknown, ReadStatus, SendStatus, FinishReply,
              UpdateReadsHL, UpdateReadsLL, UpdateAtRest, setFault, motorVars
<1>5. CASE ReadInitialSensors \/ AttachInterrupts \/ FinishSetup \/ ReceiveTimeout
  BY <1>5 DEF ReadInitialSensors, AttachInterrupts, FinishSetup, ReceiveTimeout, motorVars
<1>6. CASE \/ \E s \in Sensors : PinChange(s) \/ OnChange(s)
           \/ Tick
           \/ \E c \in Frames : ReceiveFrame(c)
  BY <1>6 DEF PinChange, OnChange, Tick, ReceiveFrame, motorVars
<1>7. CASE UNCHANGED vars
  BY <1>7 DEF vars, motorVars
<1>8. QED
  BY <1>1, <1>2, <1>3, <1>4, <1>5, <1>6, <1>7 DEF Next, LoopStep

(* For every timing of the firmware, and every wrap of millis(), a relay      *)
(* closes only after both have been open for the dead time.                    *)
THEOREM DeadTime == Spec => DeadTimeRespected
<1>1. ToolInv /\ [Next]_vars => DeadTimeKept
  <2> SUFFICES ASSUME ToolInv, [Next]_vars, NEW e \in Directions, ~relay[e], relay'[e]
               PROVE  restFor >= DEAD_TIME
    BY DEF DeadTimeKept
  <2>1. ~forceBothRelaysOff
    BY StopClears DEF ToolInv
  <2>2. PICK d \in Directions : UpdatePrepare(d) /\ DeadTimeOver
    BY <2>1, RelayChange
  <2>3. restFor >= AtMost(Elapsed(stateStart), DEAD_TIME)
    BY <2>2 DEF UpdatePrepare, ToolInv, RestClock
  <2>4. Elapsed(stateStart) >= DEAD_TIME /\ Elapsed(stateStart) \in Int
    BY <2>2, TimingAssumption DEF DeadTimeOver, Elapsed, ToolInv, TypeOK
  <2>5. QED
    BY <2>3, <2>4, TimingAssumption DEF AtMost
<1>2. QED
  BY <1>1, ToolInvariant, PTL DEF Spec, DeadTimeRespected

-----------------------------------------------------------------------------
(* The flags of the sensors.                                                 *)
(* A step that touches no sensor, outside setup's first reads.                *)
LEMMA SameSensors ==
    ASSUME SensorViewCurrent, UNCHANGED sensorVars, phase # "setup" \/ phase' = "setup"
    PROVE  SensorViewCurrent'
BY DEF SensorViewCurrent, sensorVars

(* Every step keeps the view of the sensors.                                  *)
LEMMA SensorViewStep == TypeOK /\ SensorViewCurrent /\ [Next]_vars => SensorViewCurrent'
<1> SUFFICES ASSUME TypeOK, SensorViewCurrent, [Next]_vars PROVE SensorViewCurrent'
  OBVIOUS
<1>1. ASSUME NEW s \in Sensors, PinChange(s) PROVE SensorViewCurrent'
  <2>1. /\ pin' = [pin EXCEPT ![s] = ~@] /\ phase' = phase /\ activeISR' = activeISR
        /\ pending \in [Sensors -> BOOLEAN] /\ edgeLost \in [Sensors -> BOOLEAN]
        /\ pin \in [Sensors -> BOOLEAN]
    BY <1>1 DEF PinChange, TypeOK
  <2>2. CASE phase = "setup"
    BY <2>1, <2>2 DEF SensorViewCurrent
  <2>3. CASE phase = "attach"
    <3>1. edgeLost' = [edgeLost EXCEPT ![s] = TRUE] /\ pending' = pending
      BY <1>1, <2>3 DEF PinChange
    <3> QED BY <2>1, <2>3, <3>1 DEF SensorViewCurrent
  <2>4. CASE phase \notin {"setup", "attach"}
    <3>1. pending' = [pending EXCEPT ![s] = TRUE] /\ edgeLost' = edgeLost
      BY <1>1, <2>4 DEF PinChange
    <3> QED BY <2>1, <2>4, <3>1 DEF SensorViewCurrent
  <2> QED BY <2>2, <2>3, <2>4
<1>2. ASSUME NEW s \in Sensors, OnChange(s) PROVE SensorViewCurrent'
  <2>1. /\ activeISR' = [activeISR EXCEPT ![s] = pin[s]] /\ pending' = [pending EXCEPT ![s] = FALSE]
        /\ edgeLost' = [edgeLost EXCEPT ![s] = FALSE] /\ pin' = pin /\ phase' = phase
        /\ pending \in [Sensors -> BOOLEAN] /\ edgeLost \in [Sensors -> BOOLEAN]
        /\ activeISR \in [Sensors -> BOOLEAN]
    BY <1>2 DEF OnChange, TypeOK
  <2> QED BY <2>1 DEF SensorViewCurrent
<1>3. CASE Tick
  BY <1>3, SameSensors DEF Tick
<1>4. ASSUME NEW c \in Frames, ReceiveFrame(c) PROVE SensorViewCurrent'
  BY <1>4, SameSensors DEF ReceiveFrame
<1>5. CASE ReadInitialSensors
  BY <1>5 DEF ReadInitialSensors, SensorViewCurrent
<1>6. CASE LoopStep /\ ~ReadInitialSensors
  <2>1. UNCHANGED sensorVars /\ phase # "setup"
    BY <1>6
       DEF LoopStep, AttachInterrupts, FinishSetup, ReceiveTimeout, CmdStop, CmdResetFault,
           CmdUnknown, Start, StartInFault, StartReadsHL, StartReadsLL, StartWhileMoving,
           StartAtLimit, StartMovement, ReadStatus, SendStatus, FinishReply, UpdateReadsHL,
           UpdateReadsLL, UpdateAtRest, UpdatePrepare, UpdateMoving
  <2> QED BY <2>1, SameSensors
<1>7. CASE UNCHANGED vars
  BY <1>7, SameSensors DEF vars
<1> QED BY <1>1, <1>2, <1>3, <1>4, <1>5, <1>6, <1>7 DEF Next

(* The flag of a sensor is stale only while its interrupt is due, or after an  *)
(* edge that came before the interrupts were attached.                         *)
THEOREM SensorView == Spec => []SensorViewCurrent
<1>1. Init => SensorViewCurrent
  BY DEF Init, SensorViewCurrent
<1> QED BY <1>1, SensorViewStep, TypeCorrect, PTL DEF Spec

-----------------------------------------------------------------------------
(* The answers.                                                              *)
(* A fault has a code.                                                        *)
FaultHasCode == toolState = "FAULT" => faultCode # "NONE"

(* Every step keeps the answer true while it is being written.                *)
LEMMA AckStep == FaultHasCode /\ AckTellsState /\ [Next]_vars => FaultHasCode' /\ AckTellsState'
<1> SUFFICES ASSUME FaultHasCode, AckTellsState, [Next]_vars PROVE FaultHasCode' /\ AckTellsState'
  OBVIOUS
<1> USE DEF FaultHasCode, AckTellsState
<1>1. ASSUME UNCHANGED stateVars, phase' # "reply" \/ (phase' = phase /\ reply' = reply)
      PROVE  FaultHasCode' /\ AckTellsState'
  BY <1>1 DEF stateVars, isMovingOrPreparing
<1>2. ASSUME phase' # "reply", FaultHasCode' PROVE FaultHasCode' /\ AckTellsState'
  BY <1>2
<1>3. ASSUME NEW s \in Sensors, PinChange(s) \/ OnChange(s) PROVE FaultHasCode' /\ AckTellsState'
  BY <1>1, <1>3 DEF PinChange, OnChange
<1>4. CASE Tick \/ \E c \in Frames : ReceiveFrame(c)
  BY <1>1, <1>4 DEF Tick, ReceiveFrame
<1>5. CASE ReadInitialSensors \/ AttachInterrupts \/ FinishSetup \/ ReceiveTimeout \/ FinishReply
            \/ ReadStatus
  BY <1>1, <1>5
     DEF ReadInitialSensors, AttachInterrupts, FinishSetup, ReceiveTimeout, FinishReply, ReadStatus,
         GoTo, NextLoop
<1>6. CASE CmdStop \/ CmdResetFault
  <2>1. toolState' = "IDLE" /\ \E c \in {"STOP", "RESET_FAULT"} : reply' = Ack(c, "OK")
    BY <1>6 DEF CmdStop, CmdResetFault, SendReply
  <2> QED BY <2>1 DEF Ack, Directions
<1>7. CASE CmdUnknown
  <2>1. UNCHANGED stateVars /\ reply' = Ack("UNKNOWN", "INVALID_COMMAND")
    BY <1>7 DEF CmdUnknown, SendReply
  <2> QED BY <2>1 DEF Ack, stateVars
<1>8. ASSUME NEW d \in Directions, StartInFault(d) PROVE FaultHasCode' /\ AckTellsState'
  <2>1. UNCHANGED stateVars /\ toolState = "FAULT" /\ reply' = Ack(d, "REJECTED_FAULT")
    BY <1>8 DEF StartInFault, SendReply
  <2> QED BY <2>1 DEF Ack, stateVars
<1>9. ASSUME NEW d \in Directions, StartReadsHL(d) PROVE FaultHasCode' /\ AckTellsState'
  BY <1>1, <1>9 DEF StartReadsHL, GoTo
<1>10. ASSUME NEW d \in Directions, StartReadsLL(d) PROVE FaultHasCode' /\ AckTellsState'
  <2>1. CASE activeISR["LL"]
    <3>1. /\ toolState' = "FAULT" /\ faultCode' = "SENSOR_CONFLICT"
          /\ reply' = Ack(d, "REJECTED_SENSOR_CONFLICT")
      BY <1>10, <2>1 DEF StartReadsLL, setFault, SendReply
    <3> QED BY <3>1 DEF Ack
  <2>2. CASE ~activeISR["LL"]
    BY <1>1, <1>10, <2>2 DEF StartReadsLL, GoTo
  <2> QED BY <2>1, <2>2
<1>11. ASSUME NEW d \in Directions, StartWhileMoving(d) PROVE FaultHasCode' /\ AckTellsState'
  <2>1. UNCHANGED stateVars /\ isMovingOrPreparing /\ reply' = Ack(d, "ALREADY_MOVING")
    BY <1>11 DEF StartWhileMoving, SendReply
  <2> QED BY <2>1 DEF Ack, stateVars, isMovingOrPreparing
<1>12. ASSUME NEW d \in Directions, StartAtLimit(d) PROVE FaultHasCode' /\ AckTellsState'
  <2>1. toolState' = "IDLE" /\ reply' = Ack(d, RejectedAt(d))
    BY <1>12 DEF StartAtLimit, SendReply
  <2> QED BY <2>1 DEF Ack, RejectedAt
<1>13. ASSUME NEW d \in Directions, StartMovement(d) PROVE FaultHasCode' /\ AckTellsState'
  <2>1. toolState' = Prepare(d) /\ reply' = Ack(d, "OK")
    BY <1>13 DEF StartMovement, SendReply
  <2> QED BY <2>1 DEF Ack, Prepare
<1>14. CASE SendStatus
  <2>1. UNCHANGED stateVars /\ reply'.type = "STATUS"
    BY <1>14 DEF SendStatus, SendReply, Status
  <2> QED BY <2>1 DEF stateVars
<1>15. CASE UpdateReadsHL
  <2>1. phase' # "reply"
    BY <1>15 DEF UpdateReadsHL, NextLoop, GoTo
  <2>2. FaultHasCode'
    BY <1>15 DEF UpdateReadsHL, setFault
  <2> QED BY <1>2, <2>1, <2>2
<1>16. CASE UpdateReadsLL
  <2>1. phase' # "reply"
    BY <1>16 DEF UpdateReadsLL, NextLoop, GoTo
  <2>2. FaultHasCode'
    BY <1>16 DEF UpdateReadsLL, setFault
  <2> QED BY <1>2, <2>1, <2>2
<1>17. CASE UpdateAtRest
  BY <1>1, <1>17 DEF UpdateAtRest, NextLoop
<1>18. ASSUME NEW d \in Directions, UpdatePrepare(d) PROVE FaultHasCode' /\ AckTellsState'
  <2>1. phase' # "reply" /\ toolState' # "FAULT"
    BY <1>18 DEF UpdatePrepare, NextLoop, Prepare, Moving
  <2> QED BY <1>2, <2>1
<1>19. ASSUME NEW d \in Directions, UpdateMoving(d) PROVE FaultHasCode' /\ AckTellsState'
  <2>1. phase' # "reply"
    BY <1>19 DEF UpdateMoving, NextLoop
  <2>2. FaultHasCode'
    BY <1>19 DEF UpdateMoving, setFault, TimeoutFault, OvercurrentFault, Moving
  <2> QED BY <1>2, <2>1, <2>2
<1>20. CASE UNCHANGED vars
  BY <1>1, <1>20 DEF vars
<1> QED
  BY <1>3, <1>4, <1>5, <1>6, <1>7, <1>8, <1>9, <1>10, <1>11, <1>12, <1>13, <1>14, <1>15, <1>16, <1>17,
     <1>18, <1>19, <1>20
     DEF Next, LoopStep, Start

(* An acknowledgement tells what the tool is about to do, whatever the timing   *)
(* of the sensors.                                                            *)
THEOREM AckTruth == Spec => []AckTellsState
<1>1. Init => FaultHasCode /\ AckTellsState
  BY DEF Init, FaultHasCode, AckTellsState
<1> QED BY <1>1, AckStep, PTL DEF Spec
-----------------------------------------------------------------------------
(* What a fault and an accepted movement survive.                             *)
(* No start command is looked at further in a fault.                          *)
NoFaultWhileStarting == phase \in {"start", "startConflict"} => toolState # "FAULT"

(* A fault and a movement that is being prepared stay as they are while the    *)
(* state machine does.                                                        *)
LEMMA StateUnchangedKeeps ==
  UNCHANGED <<toolState, faultCode>> => FaultKept /\ MovementKept
BY DEF FaultKept, MovementKept

(* Outside the two phases of a start nothing is to be shown of them.           *)
LEMMA NotStartingKeeps == phase' \notin {"start", "startConflict"} => NoFaultWhileStarting'
BY DEF NoFaultWhileStarting

(* Every step keeps the faults and the movements it has to keep.               *)
LEMMA KeptStep ==
  TypeOK /\ RelaysMatchState /\ NoFaultWhileStarting /\ [Next]_vars =>
      NoFaultWhileStarting' /\ FaultKept /\ MovementKept
<1> SUFFICES ASSUME TypeOK, RelaysMatchState, NoFaultWhileStarting, [Next]_vars
             PROVE  NoFaultWhileStarting' /\ FaultKept /\ MovementKept
  OBVIOUS
<1>1. ASSUME UNCHANGED stateVars, phase' = phase \/ phase' \notin {"start", "startConflict"}
      PROVE  NoFaultWhileStarting' /\ FaultKept /\ MovementKept
  BY <1>1, StateUnchangedKeeps DEF stateVars, NoFaultWhileStarting
<1>2. ASSUME NEW s \in Sensors, PinChange(s) \/ OnChange(s)
      PROVE  NoFaultWhileStarting' /\ FaultKept /\ MovementKept
  BY <1>1, <1>2 DEF PinChange, OnChange
<1>3. CASE Tick \/ \E c \in Frames : ReceiveFrame(c)
  BY <1>1, <1>3 DEF Tick, ReceiveFrame
<1>4. CASE ReadInitialSensors \/ AttachInterrupts \/ FinishSetup \/ ReceiveTimeout \/ FinishReply
            \/ ReadStatus \/ SendStatus \/ CmdUnknown \/ UpdateAtRest
  BY <1>1, <1>4
     DEF ReadInitialSensors, AttachInterrupts, FinishSetup, ReceiveTimeout, FinishReply, ReadStatus,
         SendStatus, CmdUnknown, UpdateAtRest, GoTo, NextLoop, SendReply
<1>5. CASE CmdStop \/ CmdResetFault
  <2>1. phase = "command" /\ cmd \in {"STOP", "RESET_FAULT"} /\ phase' = "reply"
    BY <1>5 DEF CmdStop, CmdResetFault, SendReply
  <2> QED BY <2>1, NotStartingKeeps DEF FaultKept, MovementKept
<1>6. ASSUME NEW d \in Directions, StartInFault(d) \/ StartWhileMoving(d)
      PROVE  NoFaultWhileStarting' /\ FaultKept /\ MovementKept
  BY <1>1, <1>6 DEF StartInFault, StartWhileMoving, SendReply
<1>7. ASSUME NEW d \in Directions, StartReadsHL(d)
      PROVE  NoFaultWhileStarting' /\ FaultKept /\ MovementKept
  BY <1>7, StateUnchangedKeeps DEF StartReadsHL, GoTo, stateVars, NoFaultWhileStarting
<1>8. ASSUME NEW d \in Directions, StartReadsLL(d)
      PROVE  NoFaultWhileStarting' /\ FaultKept /\ MovementKept
  <2>1. CASE activeISR["LL"]
    <3>1. toolState' = "FAULT" /\ faultCode' = "SENSOR_CONFLICT" /\ phase' = "reply"
      BY <1>8, <2>1 DEF StartReadsLL, setFault, SendReply
    <3> QED BY <3>1, NotStartingKeeps DEF FaultKept, MovementKept
  <2>2. CASE ~activeISR["LL"]
    <3>1. UNCHANGED stateVars /\ phase = "startConflict" /\ phase' = "start"
      BY <1>8, <2>2 DEF StartReadsLL, GoTo
    <3> QED BY <3>1, StateUnchangedKeeps DEF stateVars, NoFaultWhileStarting
  <2> QED BY <2>1, <2>2
<1>9. ASSUME NEW d \in Directions, StartAtLimit(d) \/ StartMovement(d)
      PROVE  NoFaultWhileStarting' /\ FaultKept /\ MovementKept
  <2>1. phase = "start" /\ phase' = "reply" /\ ~isMovingOrPreparing
    BY <1>9 DEF StartAtLimit, StartMovement, SendReply
  <2>2. toolState = "IDLE"
    BY <2>1 DEF NoFaultWhileStarting, isMovingOrPreparing
  <2> QED BY <2>1, <2>2, NotStartingKeeps DEF FaultKept, MovementKept, Prepare
<1>10. CASE UpdateReadsHL
  <2>1. ~areBothRelaysActive
    BY DEF RelaysMatchState, areBothRelaysActive, Moving, Directions
  <2>2. UNCHANGED <<toolState, faultCode>> /\ phase' \notin {"start", "startConflict"}
    BY <1>10, <2>1 DEF UpdateReadsHL, GoTo
  <2> QED BY <2>2, StateUnchangedKeeps, NotStartingKeeps
<1>11. CASE UpdateReadsLL
  <2>1. phase' \notin {"start", "startConflict"}
    BY <1>11 DEF UpdateReadsLL, GoTo, NextLoop
  <2>2. \/ UNCHANGED <<toolState, faultCode>>
        \/ toolState' = "FAULT" /\ faultCode' = "SENSOR_CONFLICT"
    BY <1>11 DEF UpdateReadsLL, setFault
  <2> QED BY <2>1, <2>2, StateUnchangedKeeps, NotStartingKeeps DEF FaultKept, MovementKept
<1>12. ASSUME NEW d \in Directions, UpdatePrepare(d)
       PROVE  NoFaultWhileStarting' /\ FaultKept /\ MovementKept
  <2>1. phase' = "read" /\ toolState = Prepare(d)
    BY <1>12 DEF UpdatePrepare, NextLoop
  <2>2. FaultKept
    BY <2>1 DEF FaultKept, Prepare
  <2>3. toolState' # toolState => toolState' = Moving(d) /\ relay'[d]
    <3>1. Opposite(d) \in Directions /\ relay \in [Directions -> BOOLEAN]
      BY DEF TypeOK, Opposite, Directions
    <3> QED BY <1>12, <3>1 DEF UpdatePrepare, ActivateSafely
  <2>4. MovementKept
    BY <2>1, <2>3 DEF MovementKept, Prepare, Directions
  <2> QED BY <2>1, <2>2, <2>4, NotStartingKeeps
<1>13. ASSUME NEW d \in Directions, UpdateMoving(d)
       PROVE  NoFaultWhileStarting' /\ FaultKept /\ MovementKept
  <2>1. phase' = "read" /\ toolState = Moving(d)
    BY <1>13 DEF UpdateMoving, NextLoop
  <2> QED BY <2>1, NotStartingKeeps DEF FaultKept, MovementKept, Moving, Prepare, Directions
<1>14. CASE UNCHANGED vars
  BY <1>1, <1>14 DEF vars
<1> QED
  BY <1>2, <1>3, <1>4, <1>5, <1>6, <1>7, <1>8, <1>9, <1>10, <1>11, <1>12, <1>13, <1>14
     DEF Next, LoopStep, Start

(* No start command is looked at further in a fault, in any reachable state.   *)
LEMMA StartsWithoutFault == Spec => []NoFaultWhileStarting
<1>1. Init => NoFaultWhileStarting
  BY DEF Init, NoFaultWhileStarting
<1> QED BY <1>1, KeptStep, TypeCorrect, RelaySafety, PTL DEF Spec

(* Only a stop and a reset leave a fault, whatever commands and sensor edges    *)
(* come.                                                                     *)
THEOREM FaultStays == Spec => FaultLatched
<1>1. TypeOK /\ RelaysMatchState /\ NoFaultWhileStarting /\ [Next]_vars => [FaultKept]_vars
  BY KeptStep
<1> QED BY <1>1, TypeCorrect, RelaySafety, StartsWithoutFault, PTL DEF Spec, FaultLatched

(* A movement that was accepted begins unless it is stopped, reset, or the      *)
(* sensors contradict each other.                                             *)
THEOREM MovementStays == Spec => AcceptedMovementKept
<1>1. TypeOK /\ RelaysMatchState /\ NoFaultWhileStarting /\ [Next]_vars => [MovementKept]_vars
  BY KeptStep
<1> QED BY <1>1, TypeCorrect, RelaySafety, StartsWithoutFault, PTL DEF Spec, AcceptedMovementKept

-----------------------------------------------------------------------------
(* The refinement of ControllerService.                                       *)

Driven == {d \in Directions : relay[d]}

(* What the service sees of the state machine.                                *)
AcceptedIn(s) == CASE s = "PREPARE_UP" -> "UP" [] s = "PREPARE_DOWN" -> "DOWN" [] OTHER -> "NONE"
DrivenIn(s)   == CASE s = "MOVING_UP" -> {"UP"} [] s = "MOVING_DOWN" -> {"DOWN"} [] OTHER -> {}

(* A status under construction is the tool's.                                 *)
StatusTrue ==
    phase = "status" =>
        /\ cmd = "STATUS_REQUEST"
        /\ reply.status \in PublicStates
        /\ (reply.status = "FAULT") = (toolState = "FAULT")
        /\ reply.status = "MOVING_UP" => toolState \in {"PREPARE_UP", "MOVING_UP"}
        /\ reply.status = "MOVING_DOWN" => toolState \in {"PREPARE_DOWN", "MOVING_DOWN"}
        /\ isMovingOrPreparing => reply.status \in {"UNKNOWN", "MOVING_UP", "MOVING_DOWN"}

(* The state machine tells the mapped variables.                              *)
LEMMA MappedNow ==
    ASSUME RelaysMatchState
    PROVE  Accepted = AcceptedIn(toolState) /\ Driven = DrivenIn(toolState)
<1>1. Accepted = AcceptedIn(toolState)
  BY DEF Accepted, AcceptedIn, Prepare
<1>2. \A d \in Directions : relay[d] <=> d \in DrivenIn(toolState)
  BY DEF RelaysMatchState, DrivenIn, Moving, Directions
<1>3. DrivenIn(toolState) \subseteq Directions
  BY DEF DrivenIn, Directions
<1> QED BY <1>1, <1>2, <1>3 DEF Driven

(* And so they do after a step.                                               *)
LEMMA MappedNext ==
    ASSUME RelaysMatchState'
    PROVE  Accepted' = AcceptedIn(toolState') /\ Driven' = DrivenIn(toolState')
<1>1. Accepted' = AcceptedIn(toolState')
  BY DEF Accepted, AcceptedIn, Prepare
<1>2. \A d \in Directions : relay'[d] <=> d \in DrivenIn(toolState')
  BY DEF RelaysMatchState, DrivenIn, Moving, Directions
<1>3. DrivenIn(toolState') \subseteq Directions
  BY DEF DrivenIn, Directions
<1> QED BY <1>1, <1>2, <1>3 DEF Driven

(* A status is formed from the state machine, which waits until it is out.      *)
LEMMA StatusStep == TypeOK /\ StatusTrue /\ [Next]_vars => StatusTrue'
<1> SUFFICES ASSUME TypeOK, StatusTrue, [Next]_vars PROVE StatusTrue'
  OBVIOUS
<1>1. ASSUME phase' # "status" PROVE StatusTrue'
  BY <1>1 DEF StatusTrue
<1>2. ASSUME UNCHANGED <<phase, cmd, reply, toolState>> PROVE StatusTrue'
  BY <1>2 DEF StatusTrue, isMovingOrPreparing
<1>3. ASSUME NEW s \in Sensors, PinChange(s) \/ OnChange(s) PROVE StatusTrue'
  BY <1>2, <1>3 DEF PinChange, OnChange, stateVars
<1>4. CASE Tick \/ UNCHANGED vars
  BY <1>2, <1>4 DEF Tick, stateVars, vars
<1>5. CASE ReadStatus
  <2>1. /\ cmd' = "STATUS_REQUEST" /\ reply'.status = PublicStatus /\ toolState' = toolState
    BY <1>5 DEF ReadStatus, Status, stateVars
  <2>2. toolState \in ToolStates
    BY DEF TypeOK
  <2> QED BY <2>1, <2>2 DEF StatusTrue, PublicStatus, PublicStates, ToolStates, isMovingOrPreparing
<1>6. CASE \/ ReadInitialSensors \/ AttachInterrupts \/ FinishSetup \/ ReceiveTimeout
           \/ CmdStop \/ CmdResetFault \/ CmdUnknown \/ SendStatus \/ FinishReply
           \/ UpdateReadsHL \/ UpdateReadsLL \/ UpdateAtRest
           \/ \E c \in Frames : ReceiveFrame(c)
  BY <1>1, <1>6
     DEF ReadInitialSensors, AttachInterrupts, FinishSetup, ReceiveTimeout, CmdStop, CmdResetFault,
         CmdUnknown, SendStatus, FinishReply, UpdateReadsHL, UpdateReadsLL, UpdateAtRest, ReceiveFrame,
         GoTo, NextLoop, SendReply
<1>7. ASSUME NEW d \in Directions, Start(d) \/ UpdatePrepare(d) \/ UpdateMoving(d) PROVE StatusTrue'
  BY <1>1, <1>7
     DEF Start, StartInFault, StartReadsHL, StartReadsLL, StartWhileMoving, StartAtLimit, StartMovement,
         UpdatePrepare, UpdateMoving, GoTo, NextLoop, SendReply
<1> QED BY <1>3, <1>4, <1>5, <1>6, <1>7 DEF Next, LoopStep

(* Without a change of the state machine the service sees a command taken in,   *)
(* an answer given, an answer delivered, or nothing.                           *)
LEMMA ServiceStutters ==
    ASSUME RelaysMatchState, RelaysMatchState',
           UNCHANGED <<HeldCommand, AnswerOut, toolState>>
    PROVE  UNCHANGED Service!serviceVars
<1>1. UNCHANGED <<Accepted, Driven>>
  BY MappedNow, MappedNext
<1> QED BY <1>1 DEF Service!serviceVars, Driven

(* Every step of the firmware is a step of the service or none.                *)
LEMMA ServiceStep ==
    /\ TypeOK /\ RelaysMatchState /\ NoFaultWhileStarting /\ StatusTrue
    /\ RelaysMatchState' /\ [Next]_vars
    => [Service!ServiceNext]_(Service!serviceVars)
<1> SUFFICES ASSUME TypeOK, RelaysMatchState, NoFaultWhileStarting, StatusTrue,
                    RelaysMatchState', [Next]_vars
             PROVE  [Service!ServiceNext]_(Service!serviceVars)
  OBVIOUS
<1>1. /\ Accepted = AcceptedIn(toolState) /\ Driven = DrivenIn(toolState)
      /\ Accepted' = AcceptedIn(toolState') /\ Driven' = DrivenIn(toolState')
  BY MappedNow, MappedNext
<1>2. toolState \in ToolStates /\ cmd \in Commands \cup {NoCommand}
  BY DEF TypeOK
<1>3. Service!AtRest <=> ~isMovingOrPreparing
  <2>1. Service!AtRest <=> \A d \in Directions : Accepted # d /\ d \notin Driven
    BY DEF Service!AtRest, Service!Busy, Service!Directions, Directions, Driven
  <2> QED BY <2>1, <1>1, <1>2
          DEF AcceptedIn, DrivenIn, Directions, ToolStates, isMovingOrPreparing
<1>4. ASSUME toolState' \in {"IDLE", "FAULT"} PROVE Service!Halt
  BY <1>1, <1>4 DEF Service!Halt, AcceptedIn, DrivenIn, Driven
<1>5. ASSUME toolState' = toolState PROVE UNCHANGED <<Accepted, Driven, toolState>>
  BY <1>1, <1>5
<1>6. ASSUME phase \notin Handling \cup {"reply"} PROVE Service!Free
  BY <1>6 DEF Service!Free, Service!NoAnswer, Service!AnswerTo, HeldCommand, AnswerOut, NoCommand
<1>7. ASSUME phase' \notin Handling \cup {"reply"}, phase \notin Handling \cup {"reply"}
      PROVE  UNCHANGED <<HeldCommand, AnswerOut>>
  BY <1>7 DEF HeldCommand, AnswerOut
<1>8. ASSUME NEW s \in Sensors, PinChange(s) \/ OnChange(s) PROVE UNCHANGED Service!serviceVars
  BY <1>8, ServiceStutters DEF PinChange, OnChange, stateVars, HeldCommand, AnswerOut
<1>9. CASE Tick \/ UNCHANGED vars
  BY <1>9, ServiceStutters DEF Tick, stateVars, vars, HeldCommand, AnswerOut
<1>10. CASE \/ ReadInitialSensors \/ AttachInterrupts \/ FinishSetup \/ ReceiveTimeout
            \/ UpdateAtRest
  <2>1. phase \notin Handling \cup {"reply"} /\ phase' \notin Handling \cup {"reply"}
        /\ toolState' = toolState
    BY <1>10 DEF ReadInitialSensors, AttachInterrupts, FinishSetup, ReceiveTimeout, UpdateAtRest,
                 GoTo, NextLoop, Handling, stateVars
  <2> QED BY <2>1, <1>7, ServiceStutters
<1>11. ASSUME NEW c \in Frames, ReceiveFrame(c) PROVE [Service!ServiceNext]_(Service!serviceVars)
  <2>1. /\ phase = "read" /\ toolState' = toolState /\ cmd' = c
        /\ phase' = IF c = NoCommand THEN "update" ELSE "command"
    BY <1>11 DEF ReceiveFrame, stateVars
  <2>2. CASE c = NoCommand
    BY <2>1, <2>2, <1>7, ServiceStutters DEF Handling
  <2>3. CASE c # NoCommand
    <3>1. c \in Service!Commands
      BY <2>3, InputsAssumption DEF Commands, Service!Commands, Service!Directions, NoCommand
    <3>2. HeldCommand' = c /\ UNCHANGED AnswerOut
      BY <2>1, <2>3 DEF HeldCommand, AnswerOut, Handling
    <3>3. Service!Free
      BY <2>1, <1>6 DEF Handling
    <3>4. Service!Take(c)
      BY <3>2, <3>3, <2>1, <1>5 DEF Service!Take, Driven
    <3> QED BY <3>1, <3>4 DEF Service!ServiceNext
  <2> QED BY <2>2, <2>3
<1>12. ASSUME NEW c \in Commands, NEW r,
              phase \in Handling, cmd = c, SendReply(Ack(c, r))
       PROVE  HeldCommand = c /\ Service!Reply(r)
  BY <1>12 DEF HeldCommand, AnswerOut, Service!Reply, Service!AnswerTo, SendReply, Ack, Handling, NoCommand
<1>13. CASE CmdStop
  <2>1. phase \in Handling /\ cmd = "STOP" /\ SendReply(Ack("STOP", "OK")) /\ toolState' = "IDLE"
    BY <1>13 DEF CmdStop, Handling
  <2>2. HeldCommand = "STOP" /\ Service!Reply("OK")
    BY <2>1, <1>12 DEF Commands
  <2>3. Service!Stop
    BY <2>1, <2>2, <1>4 DEF Service!Stop
  <2> QED BY <2>3 DEF Service!ServiceNext, Service!AnswerStep
<1>14. CASE CmdResetFault
  <2>1. phase \in Handling /\ cmd = "RESET_FAULT" /\ SendReply(Ack("RESET_FAULT", "OK"))
        /\ toolState' = "IDLE"
    BY <1>14 DEF CmdResetFault, Handling
  <2>2. HeldCommand = "RESET_FAULT" /\ Service!Reply("OK")
    BY <2>1, <1>12 DEF Commands
  <2>3. Service!Stop
    BY <2>1, <2>2, <1>4 DEF Service!Stop
  <2> QED BY <2>3 DEF Service!ServiceNext, Service!AnswerStep
<1>15. CASE CmdUnknown
  <2>1. phase \in Handling /\ cmd = "UNKNOWN" /\ SendReply(Ack("UNKNOWN", "INVALID_COMMAND"))
        /\ toolState' = toolState
    BY <1>15 DEF CmdUnknown, Handling, stateVars
  <2>2. HeldCommand = "UNKNOWN" /\ Service!Reply("INVALID_COMMAND")
    BY <2>1, <1>12 DEF Commands
  <2>3. Service!Refuse
    BY <2>1, <2>2, <1>5 DEF Service!Refuse, Driven
  <2> QED BY <2>3 DEF Service!ServiceNext, Service!AnswerStep
<1>16. ASSUME NEW d \in Directions, StartInFault(d) PROVE Service!Refuse
  <2>1. phase \in Handling /\ cmd = d /\ SendReply(Ack(d, "REJECTED_FAULT"))
        /\ toolState = "FAULT" /\ toolState' = toolState
    BY <1>16 DEF StartInFault, Handling, stateVars
  <2>2. HeldCommand = d /\ Service!Reply("REJECTED_FAULT")
    BY <2>1, <1>12 DEF Commands, Directions
  <2> QED BY <2>1, <2>2, <1>5 DEF Service!Refuse, Driven, Service!Directions, Directions
<1>17. ASSUME NEW d \in Directions, StartReadsHL(d) PROVE UNCHANGED Service!serviceVars
  <2>1. UNCHANGED <<cmd, toolState>> /\ phase \in Handling /\ phase' \in Handling
        /\ phase # "reply" /\ phase' # "reply"
    BY <1>17 DEF StartReadsHL, GoTo, Handling, stateVars
  <2> QED BY <2>1, ServiceStutters DEF HeldCommand, AnswerOut
<1>18. ASSUME NEW d \in Directions, StartReadsLL(d) PROVE [Service!ServiceNext]_(Service!serviceVars)
  <2>1. CASE activeISR["LL"]
    <3>1. phase = "startConflict" /\ cmd = d /\ SendReply(Ack(d, "REJECTED_SENSOR_CONFLICT"))
          /\ toolState' = "FAULT"
      BY <1>18, <2>1 DEF StartReadsLL, setFault
    <3>2. HeldCommand = d /\ Service!Reply("REJECTED_SENSOR_CONFLICT")
      BY <3>1, <1>12 DEF Commands, Directions, Handling
    <3>3. toolState # "FAULT"
      BY <3>1 DEF NoFaultWhileStarting
    <3>4. Service!Condemn
      BY <3>1, <3>2, <3>3, <1>4 DEF Service!Condemn, Service!Directions, Directions
    <3> QED BY <3>4 DEF Service!ServiceNext, Service!AnswerStep
  <2>2. CASE ~activeISR["LL"]
    <3>1. UNCHANGED <<cmd, toolState>> /\ phase \in Handling /\ phase' \in Handling
          /\ phase # "reply" /\ phase' # "reply"
      BY <1>18, <2>2 DEF StartReadsLL, GoTo, Handling, stateVars
    <3> QED BY <3>1, ServiceStutters DEF HeldCommand, AnswerOut
  <2> QED BY <2>1, <2>2
<1>19. ASSUME NEW d \in Directions, StartWhileMoving(d) PROVE Service!Refuse
  <2>1. phase \in Handling /\ cmd = d /\ SendReply(Ack(d, "ALREADY_MOVING"))
        /\ isMovingOrPreparing /\ toolState' = toolState
    BY <1>19 DEF StartWhileMoving, Handling, stateVars
  <2>2. HeldCommand = d /\ Service!Reply("ALREADY_MOVING")
    BY <2>1, <1>12 DEF Commands, Directions
  <2> QED BY <2>1, <2>2, <1>3, <1>5 DEF Service!Refuse, Driven, Service!Directions, Directions
<1>20. ASSUME NEW d \in Directions, StartAtLimit(d) PROVE Service!Refuse
  <2>1. phase \in Handling /\ cmd = d /\ SendReply(Ack(d, RejectedAt(d)))
        /\ ~isMovingOrPreparing /\ toolState # "FAULT" /\ toolState' = "IDLE"
    BY <1>20 DEF StartAtLimit, Handling, NoFaultWhileStarting
  <2>2. toolState' = toolState
    BY <2>1, <1>2 DEF isMovingOrPreparing, ToolStates
  <2>3. HeldCommand = d /\ Service!Reply(Service!RejectedAt(d))
    BY <2>1, <1>12 DEF Commands, Directions, RejectedAt, Service!RejectedAt
  <2> QED BY <2>1, <2>2, <2>3, <1>3, <1>5 DEF Service!Refuse, Driven, Service!Directions, Directions
<1>21. ASSUME NEW d \in Directions, StartMovement(d) PROVE Service!Grant
  <2>1. phase \in Handling /\ cmd = d /\ SendReply(Ack(d, "OK"))
        /\ ~isMovingOrPreparing /\ toolState # "FAULT" /\ toolState' = Prepare(d)
    BY <1>21 DEF StartMovement, Handling, NoFaultWhileStarting
  <2>2. HeldCommand = d /\ Service!Reply("OK")
    BY <2>1, <1>12 DEF Commands, Directions
  <2>3. Accepted' = d /\ Driven' = {} /\ toolState' # "FAULT"
    BY <2>1, <1>1 DEF AcceptedIn, DrivenIn, Prepare, Directions
  <2>4. Driven = {}
    BY <2>1, <1>1 DEF DrivenIn, isMovingOrPreparing
  <2> QED BY <2>1, <2>2, <2>3, <2>4, <1>3 DEF Service!Grant, Driven, Service!Directions, Directions
<1>22. CASE ReadStatus
  <2>1. UNCHANGED <<cmd, toolState>> /\ phase \in Handling /\ phase' \in Handling
        /\ phase # "reply" /\ phase' # "reply"
    BY <1>22 DEF ReadStatus, GoTo, Handling, stateVars
  <2> QED BY <2>1, ServiceStutters DEF HeldCommand, AnswerOut
<1>23. CASE SendStatus
  <2> DEFINE s == reply.status
  <2>1. phase = "status" /\ phase' = "reply" /\ toolState' = toolState
        /\ reply'.type = "STATUS" /\ reply'.status = s
    BY <1>23 DEF SendStatus, SendReply, Status, stateVars
  <2>2. HeldCommand = "STATUS_REQUEST" /\ HeldCommand' = "NONE"
        /\ AnswerOut' = [cmd |-> "STATUS_REQUEST", result |-> s]
    BY <2>1 DEF HeldCommand, AnswerOut, Handling, NoCommand, StatusTrue
  <2>3. Service!Reply(s)
    BY <2>2 DEF Service!Reply, Service!AnswerTo
  <2>4. s \in Service!Reports /\ (s = "FAULT") = (toolState = "FAULT")
    BY <2>1 DEF StatusTrue, PublicStates, Service!Reports
  <2>5. \A d \in Service!Directions : s = Service!MovingIn(d) => Service!Busy(d)
    <3>1. \A d \in Directions : Service!Busy(d) <=> Accepted = d \/ d \in Driven
      BY DEF Service!Busy, Driven
    <3>2. /\ s = "MOVING_UP" => toolState \in {"PREPARE_UP", "MOVING_UP"}
          /\ s = "MOVING_DOWN" => toolState \in {"PREPARE_DOWN", "MOVING_DOWN"}
      BY <2>1 DEF StatusTrue
    <3>3. /\ s = "MOVING_UP" => Accepted = "UP" \/ "UP" \in Driven
          /\ s = "MOVING_DOWN" => Accepted = "DOWN" \/ "DOWN" \in Driven
      BY <3>2, <1>1 DEF AcceptedIn, DrivenIn
    <3> QED BY <3>1, <3>3 DEF Service!MovingIn, Service!Directions, Directions
  <2>6. ~Service!AtRest => s \in {"UNKNOWN", "MOVING_UP", "MOVING_DOWN"}
    BY <2>1, <1>3 DEF StatusTrue
  <2>7. Service!Report
    <3> HIDE DEF s
    <3> QED BY <2>1, <2>2, <2>3, <2>4, <2>5, <2>6, <1>5 DEF Service!Report, Driven
  <2> QED BY <2>7 DEF Service!ServiceNext, Service!AnswerStep
<1>24. CASE FinishReply
  <2>1. phase = "reply" /\ phase' = "update" /\ toolState' = toolState
    BY <1>24 DEF FinishReply, stateVars
  <2>2. AnswerOut # [cmd |-> "NONE", result |-> "NONE"]
    <3>1. reply.type = "ACK" => reply.cmd \in Commands
      BY DEF TypeOK, Replies, NoReply
    <3>2. AnswerOut.cmd # "NONE"
      BY <2>1, <3>1 DEF AnswerOut, Commands
    <3> QED BY <3>2
  <2>3. AnswerOut' = [cmd |-> "NONE", result |-> "NONE"] /\ HeldCommand' = HeldCommand
    BY <2>1 DEF AnswerOut, HeldCommand, Handling
  <2>4. Service!Deliver
    BY <2>1, <2>2, <2>3, <1>5 DEF Service!Deliver, Service!NoAnswer, Service!AnswerTo, Driven
  <2> QED BY <2>4 DEF Service!ServiceNext
<1>25. ASSUME phase \notin Handling \cup {"reply"}, phase' \notin Handling \cup {"reply"},
              toolState' = "FAULT"
       PROVE  Service!Fail
  BY <1>25, <1>4, <1>6, <1>7 DEF Service!Fail
<1>26. ASSUME phase \notin Handling \cup {"reply"}, phase' \notin Handling \cup {"reply"},
              toolState' = toolState
       PROVE  UNCHANGED Service!serviceVars
  BY <1>26, <1>7, ServiceStutters
<1>27. CASE UpdateReadsHL \/ UpdateReadsLL
  <2>1. phase \notin Handling \cup {"reply"} /\ phase' \notin Handling \cup {"reply"}
        /\ toolState' \in {"FAULT", toolState}
    BY <1>27 DEF UpdateReadsHL, UpdateReadsLL, setFault, GoTo, NextLoop, Handling
  <2> QED BY <2>1, <1>25, <1>26 DEF Service!ServiceNext
<1>28. ASSUME NEW d \in Directions, UpdatePrepare(d) PROVE [Service!ServiceNext]_(Service!serviceVars)
  <2>1. phase \notin Handling \cup {"reply"} /\ phase' \notin Handling \cup {"reply"}
        /\ toolState = Prepare(d) /\ toolState' \in {toolState, Moving(d)}
    BY <1>28 DEF UpdatePrepare, NextLoop, Handling
  <2>2. CASE toolState' = toolState
    BY <2>1, <2>2, <1>26
  <2>3. CASE toolState' = Moving(d)
    <3>1. Accepted = d /\ Accepted' = "NONE" /\ Driven' = {d}
      BY <2>1, <2>3, <1>1 DEF AcceptedIn, DrivenIn, Prepare, Moving, Directions
    <3>2. toolState # "FAULT" /\ toolState' # "FAULT"
      BY <2>1, <2>3 DEF Prepare, Moving
    <3>3. Service!Start
      BY <2>1, <3>1, <3>2, <1>6, <1>7 DEF Service!Start, Driven, Directions
    <3> QED BY <3>3 DEF Service!ServiceNext
  <2> QED BY <2>1, <2>2, <2>3
<1>29. ASSUME NEW d \in Directions, UpdateMoving(d) PROVE [Service!ServiceNext]_(Service!serviceVars)
  <2>1. phase \notin Handling \cup {"reply"} /\ phase' \notin Handling \cup {"reply"}
        /\ toolState = Moving(d) /\ toolState' \in {toolState, "IDLE", "FAULT"}
    BY <1>29 DEF UpdateMoving, setFault, NextLoop, Handling
  <2>2. CASE toolState' = toolState
    BY <2>1, <2>2, <1>26
  <2>3. CASE toolState' = "IDLE"
    <3>1. Accepted = "NONE" /\ Accepted' = "NONE" /\ Driven # {} /\ Driven' = {}
      BY <2>1, <2>3, <1>1 DEF AcceptedIn, DrivenIn, Moving, Directions
    <3>2. toolState # "FAULT" /\ toolState' # "FAULT"
      BY <2>1, <2>3 DEF Moving
    <3>3. Service!Arrive
      BY <2>1, <3>1, <3>2, <1>6, <1>7 DEF Service!Arrive, Driven
    <3> QED BY <3>3 DEF Service!ServiceNext
  <2>4. CASE toolState' = "FAULT"
    BY <2>1, <2>4, <1>25 DEF Service!ServiceNext
  <2> QED BY <2>1, <2>2, <2>3, <2>4
<1> QED
  BY <1>8, <1>9, <1>10, <1>11, <1>13, <1>14, <1>15, <1>16, <1>17, <1>18, <1>19, <1>20, <1>21, <1>22,
     <1>23, <1>24, <1>27, <1>28, <1>29, ServiceStutters
     DEF Next, LoopStep, Start, Service!ServiceNext, Service!AnswerStep

(* For every timing, every set of frames and every behaviour of the sensors the *)
(* firmware implements the service.                                           *)
THEOREM ServiceImplemented == Spec => ServiceKept
<1>1. Init => Service!ServiceInit
  BY DEF Init, Service!ServiceInit, Service!NoAnswer, Service!AnswerTo, HeldCommand, AnswerOut, Handling,
         Accepted, Prepare, NoCommand
<1>2. Init => StatusTrue
  BY DEF Init, StatusTrue
<1>3. ToolInv => TypeOK /\ RelaysMatchState
  BY DEF ToolInv
<1> QED
  BY <1>1, <1>2, <1>3, StatusStep, ServiceStep, ToolInvariant, StartsWithoutFault, PTL
     DEF Spec, ServiceKept, Service!ServiceSpec

=============================================================================

-------------------------- MODULE SimpleToolProofs ---------------------------
(* Proofs about SimpleTool for every value of its constants.                 *)
EXTENDS SimpleTool, TLAPS

(* What makes the invariants inductive: the command in hand, the relays, and   *)
(* the time left of a delay.                                                  *)

CommandPart ==
    /\ phase \in {"ack", "pause", "dead", "moving"} => cmd \in Commands \ {"FOREIGN"}
    /\ phase = "ack" => result \in Service!ResultsOf(cmd)
    /\ phase \in {"pause", "dead", "moving"} => cmd \in Directions /\ lastAnswer.result = "OK"

RelayPart ==
    /\ phase \in Phases \ {"pinDown", "forceOff", "moving"} => ~relay["UP"] /\ ~relay["DOWN"]
    /\ phase = "moving" => relay[cmd] /\ ~relay[Opposite(cmd)]

(* The rounds of a movement: what is left of a delay leaves room for its ticks. *)
TimePart ==
    /\ phase # "moving" => onFor = 0 /\ limitFor = 0 /\ stallFor = 0
    /\ phase = "moving" =>
           /\ Elapsed(startTime) = onFor
           /\ onFor + remaining < MOVEMENT_TIMEOUT + CHECK_PERIOD
           /\ limitFor + remaining <= CHECK_PERIOD /\ (~limit[cmd] => limitFor = 0)
           /\ stallFor + remaining <= CHECK_PERIOD /\ (~jammed => stallFor = 0)
           /\ skipFirstCurrentCheck => remaining = 0 /\ stallFor = 0

-----------------------------------------------------------------------------
(* The clock stays below W.                                                  *)
LEMMA ClockStays == ASSUME clk \in 0..(W - 1) PROVE NextMillis \in 0..(W - 1)
  BY TimingAssumption DEF NextMillis

(* The buffer: what Append and Tail do to a sequence of frames.               *)
LEMMA BufferFacts ==
    ASSUME NEW q \in Seq(Commands), NEW c \in Commands
    PROVE  /\ Append(q, c) \in Seq(Commands) /\ Len(Append(q, c)) = Len(q) + 1
           /\ Len(q) \in Nat
           /\ q # <<>> => /\ Head(q) \in Commands /\ Tail(q) \in Seq(Commands)
                          /\ Len(Tail(q)) = Len(q) - 1
  OBVIOUS

(* Every initial state has the types.                                        *)
LEMMA TypeInit == Init => TypeOK
<1> SUFFICES ASSUME Init PROVE TypeOK
  OBVIOUS
<1>1. relay \in [Directions -> BOOLEAN]
  BY DEF Init
<1>2. Len(rxBuffer) <= BUFFER /\ rxBuffer \in Seq(Commands)
  BY BufferAssumption DEF Init
<1> QED BY <1>1, <1>2, TimingAssumption DEF Init, TypeOK, Phases, Results

(* Every step keeps the types.                                               *)
LEMMA TypeStep == TypeOK /\ [Next]_vars => TypeOK'
<1> SUFFICES ASSUME TypeOK, [Next]_vars PROVE TypeOK'
  OBVIOUS
<1> USE TimingAssumption DEF Phases, Results
<1>1. ASSUME NEW d \in Directions, LimitChange(d) PROVE TypeOK'
  <2>1. limit' \in [Directions -> BOOLEAN] /\ limitFor' \in Nat
    BY <1>1 DEF LimitChange, TypeOK
  <2> QED BY <1>1, <2>1 DEF LimitChange, TypeOK, commandVars, moveVars
<1>2. CASE JamChange
  BY <1>2 DEF JamChange, TypeOK, commandVars, moveVars
<1>3. ASSUME NEW c \in Frames, Arrive(c) PROVE TypeOK'
  <2>1. rxBuffer' \in Seq(Commands) /\ Len(rxBuffer') <= BUFFER
    <3>1. c \in Commands
      BY FramesAssumption
    <3> QED BY <1>3, <3>1, BufferFacts, BufferAssumption DEF Arrive, TypeOK
  <2> QED BY <1>3, <2>1 DEF Arrive, TypeOK, plantVars, commandVars, moveVars, historyVars
<1>4. CASE PowerCycle
  <2>1. relay' \in [Directions -> BOOLEAN]
    BY <1>4 DEF PowerCycle
  <2>2. rxBuffer' \in Seq(Commands) /\ Len(rxBuffer') <= BUFFER
    BY <1>4, BufferAssumption DEF PowerCycle
  <2> QED BY <1>4, <2>1, <2>2 DEF PowerCycle, TypeOK, plantVars
<1>5. CASE Tick
  <2>1. clk' \in 0..(W - 1)
    BY <1>5, ClockStays DEF Tick, TypeOK
  <2>2. remaining' \in Nat /\ onFor' \in Nat /\ limitFor' \in Nat /\ stallFor' \in Nat
    BY <1>5 DEF Tick, TypeOK, historyVars
  <2> QED BY <1>5, <2>1, <2>2 DEF Tick, TypeOK, plantVars, commandVars, moveVars
<1>6. ASSUME NEW p, NEW d \in Directions, NEW next \in Phases, PinMode(p, d, next) PROVE TypeOK'
  BY <1>6 DEF PinMode, TypeOK, plantVars, commandVars, moveVars, historyVars
<1>7. CASE SetupRelaysOff
  <2>1. relay' \in [Directions -> BOOLEAN]
    BY <1>7 DEF SetupRelaysOff, forceBothRelaysOff
  <2> QED BY <1>7, <2>1
          DEF SetupRelaysOff, Delay, TypeOK, plantVars, commandVars, moveVars, historyVars
<1>8. CASE SetupDone
  BY <1>8 DEF SetupDone, TypeOK, plantVars, commandVars, moveVars, historyVars
<1>9. CASE IgnoreFrame
  <2>1. rxBuffer' \in Seq(Commands) /\ Len(rxBuffer') <= BUFFER
    BY <1>9, BufferFacts, BufferAssumption DEF IgnoreFrame, TypeOK
  <2> QED BY <1>9, <2>1 DEF IgnoreFrame, TypeOK, plantVars, commandVars, moveVars, historyVars
<1>10. CASE TakeCommand
  <2>1. rxBuffer' \in Seq(Commands) /\ Len(rxBuffer') <= BUFFER /\ cmd' \in Commands
    BY <1>10, BufferFacts, BufferAssumption DEF TakeCommand, TypeOK
  <2>2. result' \in Results
    BY <1>10 DEF TakeCommand, ResultOf, RejectedAt
  <2> QED BY <1>10, <2>1, <2>2 DEF TakeCommand, Delay, TypeOK, plantVars, moveVars, historyVars
<1>11. CASE SendAnswer
  <2>1. lastAnswer' \in [cmd : Commands \cup {"NONE"}, result : Results]
    BY <1>11 DEF SendAnswer, TypeOK
  <2> QED BY <1>11, <2>1
          DEF SendAnswer, Delay, TypeOK, plantVars, commandVars, moveVars, historyVars
<1>12. CASE OppositeOff
  BY <1>12 DEF OppositeOff, Delay, TypeOK, plantVars, commandVars, moveVars, historyVars
<1>13. CASE StartMovement
  BY <1>13 DEF StartMovement, TypeOK, plantVars, commandVars
<1>14. CASE StopMovement
  <2>1. relay' \in [Directions -> BOOLEAN]
    BY <1>14 DEF StopMovement, forceBothRelaysOff
  <2> QED BY <1>14, <2>1 DEF StopMovement, TypeOK, plantVars
<1>15. CASE KeepMoving
  BY <1>15 DEF KeepMoving, Delay, TypeOK, plantVars, commandVars, historyVars
<1>16. CASE UNCHANGED vars
  BY <1>16 DEF vars, TypeOK, plantVars, commandVars, moveVars, historyVars
<1> QED
  BY <1>1, <1>2, <1>3, <1>4, <1>5, <1>6, <1>7, <1>8, <1>9, <1>10, <1>11, <1>12, <1>13,
     <1>14, <1>15, <1>16 DEF Next, SketchStep, Directions

(* Every variable keeps its type, and the buffer its bound.                   *)
THEOREM TypeCorrect == Spec => []TypeOK
<1> QED BY TypeInit, TypeStep, PTL DEF Spec

-----------------------------------------------------------------------------
(* A decision of processCommandFrame is one of the results of its command.    *)
LEMMA ResultAllowed ==
    ASSUME NEW c \in Commands \ {"FOREIGN"} PROVE ResultOf(c) \in Service!ResultsOf(c)
  BY DEF ResultOf, Service!ResultsOf, RejectedAt, Service!RejectedAt, Commands, Directions,
         Service!Directions

(* Only a movement is answered OK.                                           *)
LEMMA OkIsMovement ==
    ASSUME NEW c, "OK" \in Service!ResultsOf(c) PROVE c \in Directions
  BY DEF Service!ResultsOf, Service!Directions, Directions

(* Every step keeps the command and its answer together.                      *)
LEMMA CommandStep == TypeOK /\ CommandPart /\ [Next]_vars => CommandPart'
<1> SUFFICES ASSUME TypeOK, CommandPart, [Next]_vars PROVE CommandPart'
  OBVIOUS
<1> USE DEF CommandPart, Service!ResultsOf
<1>1. ASSUME UNCHANGED <<phase, cmd, result, lastAnswer>> PROVE CommandPart'
  BY <1>1
<1>2. ASSUME phase' \notin {"ack", "pause", "dead", "moving"} PROVE CommandPart'
  BY <1>2
<1>3. CASE \/ \E d \in Directions : LimitChange(d)
           \/ \E c \in Frames : Arrive(c)
           \/ JamChange \/ Tick \/ IgnoreFrame \/ KeepMoving \/ UNCHANGED vars
  BY <1>1, <1>3 DEF LimitChange, Arrive, JamChange, Tick, IgnoreFrame, KeepMoving, vars, commandVars
<1>4. CASE PowerCycle \/ SetupRelaysOff \/ SetupDone \/ StopMovement
           \/ PinMode("pinUp", "UP", "pinDown") \/ PinMode("pinDown", "DOWN", "forceOff")
  BY <1>2, <1>4 DEF PowerCycle, SetupRelaysOff, SetupDone, StopMovement, PinMode
<1>5. CASE TakeCommand
  <2>1. phase' = "ack" /\ cmd' = Head(rxBuffer) /\ result' = ResultOf(Head(rxBuffer))
        /\ rxBuffer # <<>> /\ Head(rxBuffer) # "FOREIGN"
    BY <1>5 DEF TakeCommand
  <2>2. Head(rxBuffer) \in Commands \ {"FOREIGN"}
    BY <2>1, BufferFacts DEF TypeOK
  <2>3. ResultOf(Head(rxBuffer)) \in Service!ResultsOf(Head(rxBuffer))
    BY <2>2, ResultAllowed
  <2> QED BY <2>1, <2>2, <2>3
<1>6. CASE SendAnswer
  <2>1. CASE result = "OK"
    <3>1. phase = "ack" /\ phase' = "pause" /\ UNCHANGED <<cmd, result>>
      BY <1>6, <2>1 DEF SendAnswer, commandVars
    <3>2. cmd \in Directions
      BY <2>1, <3>1, OkIsMovement
    <3>3. lastAnswer'.result = "OK"
      BY <1>6, <2>1 DEF SendAnswer
    <3> QED BY <3>1, <3>2, <3>3
  <2>2. CASE result # "OK"
    BY <1>2, <1>6, <2>2 DEF SendAnswer
  <2> QED BY <2>1, <2>2
<1>7. CASE OppositeOff \/ StartMovement
  BY <1>7 DEF OppositeOff, StartMovement, commandVars
<1> QED
  BY <1>3, <1>4, <1>5, <1>6, <1>7 DEF Next, SketchStep

(* Every step keeps the relays where the phase has them.                      *)
LEMMA RelayStep == TypeOK /\ CommandPart /\ RelayPart /\ [Next]_vars => RelayPart'
<1> SUFFICES ASSUME TypeOK, CommandPart, RelayPart, [Next]_vars PROVE RelayPart'
  OBVIOUS
<1> USE DEF RelayPart, Phases, Directions
<1>1. ASSUME UNCHANGED <<phase, cmd, relay>> PROVE RelayPart'
  BY <1>1 DEF Opposite
<1>2. ASSUME relay' = [d \in Directions |-> FALSE], phase' # "moving" PROVE RelayPart'
  BY <1>2
<1>3. CASE \/ \E d \in Directions : LimitChange(d)
           \/ \E c \in Frames : Arrive(c)
           \/ JamChange \/ Tick \/ IgnoreFrame \/ KeepMoving \/ UNCHANGED vars
  BY <1>1, <1>3 DEF LimitChange, Arrive, JamChange, Tick, IgnoreFrame, KeepMoving, vars, commandVars
<1>4. CASE PowerCycle \/ SetupRelaysOff \/ StopMovement
  BY <1>2, <1>4 DEF PowerCycle, SetupRelaysOff, StopMovement, forceBothRelaysOff
<1>5. CASE PinMode("pinUp", "UP", "pinDown") \/ PinMode("pinDown", "DOWN", "forceOff")
  BY <1>5 DEF PinMode
<1>6. CASE SetupDone \/ TakeCommand \/ SendAnswer
  BY <1>6 DEF SetupDone, TakeCommand, SendAnswer
<1>7. CASE OppositeOff
  BY <1>7 DEF OppositeOff, TypeOK
<1>8. CASE StartMovement
  <2>1. cmd \in Directions /\ cmd' = cmd /\ phase' = "moving" /\ ~relay["UP"] /\ ~relay["DOWN"]
    BY <1>8 DEF StartMovement, commandVars, CommandPart
  <2>2. relay' = [relay EXCEPT ![cmd] = TRUE]
    BY <1>8 DEF StartMovement
  <2> QED BY <2>1, <2>2 DEF TypeOK, Opposite
<1> QED
  BY <1>3, <1>4, <1>5, <1>6, <1>7, <1>8 DEF Next, SketchStep

(* The relays follow the command in every state the sketch reaches.           *)
THEOREM RelaysCorrect == Spec => []RelayFollowsCommand
<1>1. Init => CommandPart /\ RelayPart
  BY DEF Init, CommandPart, RelayPart, Directions
<1>2. TypeOK /\ CommandPart /\ RelayPart => RelayFollowsCommand
  BY DEF TypeOK, CommandPart, RelayPart, RelayFollowsCommand, Phases, Directions, Opposite
<1> QED BY <1>1, <1>2, CommandStep, RelayStep, TypeCorrect, PTL DEF Spec

-----------------------------------------------------------------------------
(* The difference of uint32_t times grows by one with every tick, also when    *)
(* the clock wraps, as long as it stays below W.                              *)
LEMMA ElapsedTick ==
    ASSUME clk \in 0..(W - 1), NEW s \in 0..(W - 1), clk' = NextMillis, Elapsed(s) + 1 < W
    PROVE  (IF clk' >= s THEN clk' - s ELSE clk' - s + W) = Elapsed(s) + 1
  BY TimingAssumption DEF NextMillis, Elapsed

(* Every step keeps the time left of a delay within the bounds.               *)
LEMMA TimeStep == TypeOK /\ CommandPart /\ RelayPart /\ TimePart /\ [Next]_vars => TimePart'
<1> SUFFICES ASSUME TypeOK, CommandPart, RelayPart, TimePart, [Next]_vars PROVE TimePart'
  OBVIOUS
<1> USE TimingAssumption DEF TimePart
<1>1. ASSUME UNCHANGED <<phase, cmd, remaining, clk, startTime, skipFirstCurrentCheck,
                         limit, jammed, historyVars>>
      PROVE  TimePart'
  BY <1>1 DEF Elapsed, historyVars
<1>2. ASSUME UNCHANGED historyVars, phase # "moving", phase' # "moving" PROVE TimePart'
  BY <1>2 DEF historyVars
<1>3. ASSUME NEW d \in Directions, LimitChange(d) PROVE TimePart'
  <2>1. UNCHANGED <<phase, cmd, remaining, clk, startTime, skipFirstCurrentCheck, jammed,
                    onFor, stallFor>>
    BY <1>3 DEF LimitChange, commandVars, moveVars
  <2>2. limitFor' \in {0, limitFor}
    BY <1>3 DEF LimitChange
  <2>3. phase = "moving" => limitFor' = 0 \/ limit'[cmd] = limit[cmd]
    <3>1. phase = "moving" /\ d = cmd => limitFor' = 0
      BY <1>3 DEF LimitChange, RelayPart
    <3>2. phase = "moving" /\ d # cmd => limit'[cmd] = limit[cmd]
      BY <1>3 DEF LimitChange, CommandPart, TypeOK
    <3> QED BY <3>1, <3>2
  <2>4. CASE phase # "moving"
    BY <2>1, <2>2, <2>4
  <2>5. CASE phase = "moving"
    <3>1. limitFor' + remaining' <= CHECK_PERIOD
      <4>1. limitFor \in Nat /\ remaining \in Nat /\ CHECK_PERIOD \in Nat
        BY DEF TypeOK
      <4>2. limitFor + remaining <= CHECK_PERIOD /\ remaining' = remaining
        BY <2>1, <2>5
      <4>3. CASE limitFor' = 0
        BY <4>1, <4>2, <4>3
      <4>4. CASE limitFor' = limitFor
        BY <4>2, <4>4
      <4> QED BY <2>2, <4>3, <4>4
    <3>2. ~limit'[cmd] => limitFor' = 0
      BY <2>2, <2>3, <2>5
    <3>3. Elapsed(startTime)' = onFor
      BY <2>1, <2>5 DEF Elapsed
    <3> QED BY <2>1, <2>5, <3>1, <3>2, <3>3
  <2> QED BY <2>4, <2>5
<1>4. CASE JamChange
  BY <1>4 DEF JamChange, Elapsed, TypeOK, commandVars, moveVars
<1>5. CASE Tick
  <2>1. CASE phase # "moving"
    BY <1>2, <1>5, <2>1 DEF Tick
  <2>2. CASE phase = "moving"
    <3>1. remaining > 0 /\ remaining' = remaining - 1 /\ clk' = NextMillis
          /\ UNCHANGED <<phase, cmd, startTime, skipFirstCurrentCheck, limit, jammed>>
      BY <1>5, <2>2 DEF Tick, plantVars, commandVars, moveVars, TypeOK
    <3>2. onFor' = onFor + 1 /\ limitFor' = (IF limit[cmd] THEN limitFor + 1 ELSE 0)
          /\ stallFor' = (IF jammed THEN stallFor + 1 ELSE 0)
      BY <1>5, <2>2 DEF Tick
    <3>3. Elapsed(startTime)' = onFor + 1
      <4>1. Elapsed(startTime) + 1 < W
        BY <2>2, <3>1 DEF TypeOK
      <4> QED BY <2>2, <3>1, <4>1, ElapsedTick DEF TypeOK, Elapsed
    <3>4. ~skipFirstCurrentCheck
      BY <2>2, <3>1 DEF TypeOK
    <3> QED BY <2>2, <3>1, <3>2, <3>3, <3>4 DEF TypeOK
  <2> QED BY <2>1, <2>2
<1>6. CASE PowerCycle \/ StopMovement
  BY <1>6 DEF PowerCycle, StopMovement
<1>7. CASE StartMovement
  <2>1. Elapsed(startTime)' = 0
    BY <1>7 DEF StartMovement, Elapsed, TypeOK
  <2>2. remaining' = 0 /\ onFor' = 0 /\ limitFor' = 0 /\ stallFor' = 0 /\ phase' = "moving"
    BY <1>7 DEF StartMovement
  <2> QED BY <2>1, <2>2
<1>8. CASE KeepMoving
  <2>1. phase = "moving" /\ phase' = "moving" /\ remaining' = CHECK_PERIOD /\ ~skipFirstCurrentCheck'
        /\ UNCHANGED <<cmd, clk, startTime, limit, jammed, onFor, limitFor, stallFor>>
    BY <1>8 DEF KeepMoving, Delay, plantVars, commandVars, historyVars
  <2>2. ~limit[cmd] /\ Elapsed(startTime) < MOVEMENT_TIMEOUT /\ (skipFirstCurrentCheck \/ ~jammed)
    BY <1>8 DEF KeepMoving, MovementOver, LimitReached, Elapsed, TypeOK
  <2>3. limitFor = 0 /\ stallFor = 0 /\ onFor < MOVEMENT_TIMEOUT
    BY <2>1, <2>2
  <2>4. Elapsed(startTime)' = onFor
    BY <2>1 DEF Elapsed
  <2> QED BY <2>1, <2>3, <2>4 DEF TypeOK
<1>9. CASE \E c \in Frames : Arrive(c)
  BY <1>1, <1>9 DEF Arrive, plantVars, commandVars, moveVars
<1>10. CASE \/ PinMode("pinUp", "UP", "pinDown") \/ PinMode("pinDown", "DOWN", "forceOff")
            \/ SetupRelaysOff \/ SetupDone \/ IgnoreFrame \/ TakeCommand \/ SendAnswer \/ OppositeOff
  BY <1>2, <1>10 DEF PinMode, SetupRelaysOff, SetupDone, IgnoreFrame, TakeCommand, SendAnswer,
                     OppositeOff
<1>11. CASE UNCHANGED vars
  BY <1>1, <1>11 DEF vars, plantVars, commandVars, moveVars
<1> QED
  BY <1>3, <1>4, <1>5, <1>6, <1>7, <1>8, <1>9, <1>10, <1>11 DEF Next, SketchStep

(* A movement ends within a check period of its timeout, and within one of     *)
(* reaching its limit or of a jam, for every timing and width of the clock.     *)
THEOREM MovementBounded == Spec => [](OnTimeBounded /\ OvertravelBounded /\ StallBounded)
<1>1. Init => CommandPart /\ RelayPart /\ TimePart
  BY DEF Init, CommandPart, RelayPart, TimePart, Directions
<1>2. TypeOK /\ TimePart => OnTimeBounded /\ OvertravelBounded /\ StallBounded
  BY TimingAssumption DEF TypeOK, TimePart, OnTimeBounded, OvertravelBounded, StallBounded
<1> QED BY <1>1, <1>2, CommandStep, RelayStep, TimeStep, TypeCorrect, PTL DEF Spec

(* A limit sensor that comes on against the movement is heeded within one     *)
(* period of the checks.                                                      *)
THEOREM OvertravelBound == Spec => []OvertravelBounded
  BY MovementBounded, PTL

(* A motor that has stopped against the movement is switched off as soon.      *)
THEOREM StallBound == Spec => []StallBounded
  BY MovementBounded, PTL

-----------------------------------------------------------------------------
(* A command in hand before the frames that wait.                            *)
LEMMA InHand ==
    ASSUME NEW c \in Commands, NEW q \in Seq(Commands)
    PROVE  /\ <<c>> \o q # <<>> /\ Head(<<c>> \o q) = c /\ Tail(<<c>> \o q) = q
           /\ Len(<<c>> \o q) = Len(q) + 1
           /\ \A x \in Commands : Append(<<c>> \o q, x) = <<c>> \o Append(q, x)
  OBVIOUS

LEMMA BackInHand ==
    ASSUME NEW q \in Seq(Commands), q # <<>>
    PROVE  <<Head(q)>> \o Tail(q) = q
  OBVIOUS

(* What the service sees of a state.                                          *)
Held    == IF phase = "ack" THEN <<cmd>> \o rxBuffer ELSE rxBuffer
Granted == IF phase \in {"pause", "dead"} THEN cmd ELSE "NONE"
Driven  == IF phase = "moving" THEN cmd ELSE "NONE"

(* Every step of the sketch is a step of the service or is not seen by it.     *)
LEMMA ServiceStep ==
    TypeOK /\ CommandPart /\ [Next]_vars => [Service!ServiceNext]_(Service!serviceVars)
<1> SUFFICES ASSUME TypeOK, CommandPart, [Next]_vars
             PROVE  [Service!ServiceNext]_(Service!serviceVars)
  OBVIOUS
<1>1. ASSUME UNCHANGED <<Held, lastAnswer, Granted, Driven>>
      PROVE  UNCHANGED Service!serviceVars
  BY <1>1 DEF Held, Granted, Driven, Service!serviceVars
<1>2. CASE \/ \E d \in Directions : LimitChange(d)
           \/ JamChange \/ Tick \/ KeepMoving \/ UNCHANGED vars
           \/ PinMode("pinUp", "UP", "pinDown") \/ PinMode("pinDown", "DOWN", "forceOff")
           \/ SetupRelaysOff \/ SetupDone \/ OppositeOff
  <2>1. UNCHANGED <<Held, lastAnswer, Granted, Driven>>
    BY <1>2 DEF LimitChange, JamChange, Tick, KeepMoving, vars, PinMode, SetupRelaysOff,
                SetupDone, OppositeOff, commandVars, Held, Granted, Driven
  <2> QED BY <1>1, <2>1
<1>3. ASSUME NEW c \in Frames, Arrive(c) PROVE Service!Accept(c)
  <2>1. /\ Len(rxBuffer) < BUFFER /\ rxBuffer' = Append(rxBuffer, c)
        /\ UNCHANGED <<phase, cmd, lastAnswer>>
    BY <1>3 DEF Arrive, commandVars
  <2>2. c \in Commands /\ rxBuffer \in Seq(Commands) /\ (phase = "ack" => cmd \in Commands)
    BY FramesAssumption DEF TypeOK, CommandPart
  <2>3. Len(Held) <= BUFFER /\ Held' = Append(Held, c)
    BY <2>1, <2>2, InHand, BufferFacts, BufferAssumption DEF Held
  <2> QED BY <2>1, <2>3 DEF Service!Accept, Held
<1>4. ASSUME PowerCycle PROVE Service!Reset
  BY <1>4 DEF PowerCycle, Service!Reset, Service!NoAnswer, Service!AnswerTo
<1>5. ASSUME IgnoreFrame PROVE Service!Ignore
  BY <1>5 DEF IgnoreFrame, Service!Ignore, Service!AtRest, commandVars
<1>6. CASE TakeCommand
  <2>1. Held' = Held
    <3>1. /\ phase = "read" /\ phase' = "ack" /\ rxBuffer # <<>>
          /\ cmd' = Head(rxBuffer) /\ rxBuffer' = Tail(rxBuffer)
      BY <1>6 DEF TakeCommand
    <3>2. <<Head(rxBuffer)>> \o Tail(rxBuffer) = rxBuffer
      BY <3>1, BackInHand DEF TypeOK
    <3> QED BY <3>1, <3>2 DEF Held
  <2>2. UNCHANGED <<lastAnswer, Granted, Driven>>
    BY <1>6 DEF TakeCommand, Granted, Driven
  <2> QED BY <1>1, <2>1, <2>2
<1>7. CASE SendAnswer
  <2>1. phase = "ack" /\ cmd \in Commands /\ result \in Service!ResultsOf(cmd)
    BY <1>7 DEF SendAnswer, CommandPart
  <2>2. Held # <<>> /\ Head(Held) = cmd /\ Tail(Held) = rxBuffer
    BY <2>1, InHand DEF Held, TypeOK
  <2>3. Held' = rxBuffer /\ lastAnswer' = [cmd |-> cmd, result |-> result]
    BY <1>7 DEF SendAnswer, Held
  <2>4. Granted = "NONE" /\ Driven = "NONE" /\ Driven' = "NONE"
        /\ Granted' = IF result = "OK" THEN cmd ELSE "NONE"
    BY <1>7 DEF SendAnswer, Granted, Driven, commandVars
  <2>5. Service!Answer(result)
    BY <2>1, <2>2, <2>3, <2>4
       DEF Service!Answer, Service!AtRest, Service!AnswerTo, Held, Granted, Driven
  <2>6. cmd \in Service!Commands
    BY <2>1 DEF Commands, Service!Commands
  <2> QED BY <2>1, <2>5, <2>6 DEF Service!ServiceNext
<1>8. ASSUME StartMovement PROVE Service!Start
  <2>1. cmd # "NONE"
    BY <1>8 DEF StartMovement, CommandPart, Directions
  <2> QED BY <1>8, <2>1 DEF StartMovement, Service!Start, commandVars
<1>9. ASSUME StopMovement PROVE Service!Stop
  <2>1. cmd # "NONE"
    BY <1>9 DEF StopMovement, CommandPart, Directions
  <2> QED BY <1>9, <2>1 DEF StopMovement, Service!Stop
<1> QED
  BY <1>1, <1>2, <1>3, <1>4, <1>5, <1>6, <1>7, <1>8, <1>9
     DEF Next, SketchStep, Service!ServiceNext

(* The firmware implements the service, for every buffer and timing.          *)
THEOREM ServiceImplemented == Spec => ServiceKept
<1>1. Init => Service!ServiceInit
  BY DEF Init, Service!ServiceInit, Service!NoAnswer, Service!AnswerTo
<1>2. Init => CommandPart
  BY DEF Init, CommandPart
<1> QED BY <1>1, <1>2, ServiceStep, CommandStep, TypeCorrect, PTL
        DEF Spec, ServiceKept, Service!ServiceSpec

=============================================================================

-------------------------- MODULE RadioBridgeProofs --------------------------
(* Proofs about RadioBridge, for every list of arguments, set of channel values  *)
(* and size of the buffers: its safety, and that it ends when it is told to.      *)
EXTENDS RadioBridge, SequenceTheorems, TLAPS

(* What the proofs use of the assumptions on the constants.                   *)
LEMMA Parameters ==
    /\ RC_BUFFER \in Nat /\ RC_BUFFER > 0 /\ TOOL_BUFFER \in Nat /\ TOOL_BUFFER > 0
    /\ MAX_UPSETS \in Nat /\ MAX_NOISE \in Nat /\ Pwm \subseteq Int
<1>1. Pwm \subseteq Int
  BY PwmAssumption
<1>2. RC_BUFFER \in Nat /\ RC_BUFFER > 0
  BY RcBufferAssumption
<1>3. TOOL_BUFFER \in Nat /\ TOOL_BUFFER > 0
  BY ToolBufferAssumption
<1>4. MAX_UPSETS \in Nat /\ MAX_NOISE \in Nat
  BY UpsetsAssumption, NoiseAssumption
<1> QED
  BY <1>1, <1>2, <1>3, <1>4

ConfigType == config \in [Kept -> Int]

(* The limits of the band are numbers.                                        *)
LEMMA BandType ==
    ASSUME ConfigType
    PROVE  Threshold \in Int /\ config["--switch-hysteresis"] \in Int
  BY DEF ConfigType, Kept, Threshold

(* The classification is a position, never UNKNOWN.                           *)
LEMMA ClassifyType ==
    ASSUME NEW p, NEW q PROVE Classify(p, q) \in {"UP", "DOWN"}
  BY DEF Classify, RawPosition, Inverted

(* Outside the band the value decides alone.                                  *)
LEMMA ClassifyOutOfBand ==
    ASSUME NEW p \in Int, NEW q \in Positions, ConfigType, config["--switch-hysteresis"] >= 0
    PROVE  /\ AboveBand(p) => Classify(p, q) = HighPosition
           /\ BelowBand(p) => Classify(p, q) = Inverted(HighPosition)
  BY BandType
     DEF AboveBand, BelowBand, Classify, RawPosition, Inverted, HighPosition, HighLimit, LowLimit,
         Positions

(* Inside the band the inverted classification changes the position it was    *)
(* given, at every message; the plain one keeps it.                            *)
THEOREM InBandFlips ==
    ASSUME NEW p \in Int, NEW q \in {"UP", "DOWN"}, ConfigType, InBand(p)
    PROVE  Classify(p, q) = IF InvertSwitch THEN Inverted(q) ELSE q
  BY BandType DEF InBand, Classify, RawPosition, Inverted, HighLimit, LowLimit

-----------------------------------------------------------------------------
(* The baseline is a position.                                                *)
Baseline == baselineCaptured <=> lastPosition # "UNKNOWN"

(* Commands still to be answered and answers still to be read: at most the    *)
(* tool's buffer, one for each wait that noise has ended, and one more while an   *)
(* answer is awaited.                                                        *)
Backlog ==
    Len(toTool) + Len(fromTool) <= TOOL_BUFFER + noises + (IF phase \in Awaiting THEN 1 ELSE 0)

(* Where an answer to a process before this one may still be in the port.     *)
NotFlushed == phase \in {"arguments", "serial", "stopped"} \/ DryRun

(* The commands are commands.                                                 *)
LEMMA CommandType == ASSUME NEW p PROVE CommandOf(p) \in Commands
  BY DEF CommandOf, Commands

(* A sequence that grows by an element.                                       *)
LEMMA Grows ==
    ASSUME NEW S, NEW s \in Seq(S), NEW e \in S
    PROVE  Append(s, e) \in Seq(S) /\ Len(Append(s, e)) = Len(s) + 1
  OBVIOUS

(* A sequence that loses its head.                                            *)
LEMMA Shrinks ==
    ASSUME NEW S, NEW s \in Seq(S), s # <<>>
    PROVE  /\ Head(s) \in S /\ Tail(s) \in Seq(S)
           /\ Len(Tail(s)) = Len(s) - 1 /\ Len(s) \in Nat
  BY EmptySeq, HeadTailProperties

(* The type invariant in three parts: the process, the radio, the line.       *)
ControlType ==
    /\ arguments \in Seq([option : STRING, value : SUBSET Int]) /\ config \in [Kept -> Int]
    /\ running \in BOOLEAN /\ phase \in Phases
    /\ lastPosition \in Positions /\ baselineCaptured \in BOOLEAN /\ pwm \in Pwm \cup {0}
    /\ requestDue \in BOOLEAN

RadioType ==
    /\ stick \in Pwm /\ streaming \in BOOLEAN /\ upsets \in 0..MAX_UPSETS
    /\ rc \in Seq(Seq(Messages)) /\ Len(rc) <= RC_BUFFER

Fates == {"due", "missed", "twice", "sent", "obeyed", "undone"}
LineType ==
    /\ toTool \in Seq(Commands) /\ Len(toTool) <= TOOL_BUFFER
    /\ fromTool \in Seq(Commands) /\ givenUp \in BOOLEAN /\ noises \in 0..MAX_NOISE
    /\ called \in Movements /\ fate \in Fates

(* The three parts are the invariant.                                         *)
LEMMA TypeParts == TypeOK <=> ControlType /\ RadioType /\ LineType
  BY Zenon DEF TypeOK, ControlType, RadioType, LineType, Fates

(* A step that leaves a part alone keeps its types.                           *)
LEMMA SamePart ==
    /\ RadioType /\ UNCHANGED radioVars => RadioType'
    /\ LineType /\ UNCHANGED lineVars => LineType'
<1>1. RadioType /\ UNCHANGED radioVars => RadioType'
  BY DEF RadioType, radioVars
<1>2. LineType /\ UNCHANGED lineVars => LineType'
  BY DEF LineType, lineVars
<1> QED BY <1>1, <1>2

(* What a process before this one has left is a command or an answer.          *)
LEMMA LeftType ==
    ASSUME LeftBehind
    PROVE  /\ toTool \in Seq(Commands) /\ fromTool \in Seq(Commands)
           /\ Len(toTool) \in Nat /\ Len(fromTool) \in Nat /\ Len(toTool) + Len(fromTool) <= 1
<1>1. PICK left \in {<<>>} \cup {<<c>> : c \in Commands} :
          \/ toTool = left /\ fromTool = <<>>
          \/ toTool = <<>> /\ fromTool = left
  BY DEF LeftBehind
<1>2. left = <<>> \/ \E c \in Commands : left = <<c>>
  BY <1>1
<1> DEFINE Small(s) == /\ s \in Seq(Commands)
                       /\ Len(s) \in Nat /\ Len(s) <= 1 /\ Len(s) + 0 <= 1 /\ 0 + Len(s) <= 1
<1>3. Small(left)
  <2>1. CASE left = <<>>
    BY <2>1
  <2>2. ASSUME NEW c \in Commands, left = <<c>> PROVE Small(left)
    BY <2>2
  <2> QED BY <1>2, <2>1, <2>2
<1>4. <<>> \in Seq(Commands) /\ Len(<<>>) = 0
  OBVIOUS
<1>5. CASE toTool = left /\ fromTool = <<>>
  BY <1>3, <1>4, <1>5
<1>6. CASE toTool = <<>> /\ fromTool = left
  BY <1>3, <1>4, <1>6
<1> QED BY <1>1, <1>5, <1>6

(* The datagrams that are published.                                          *)
LEMMA DatagramType ==
    ASSUME NEW front \in Fronts, NEW p \in Pwm
    PROVE  RcDatagram(front, p) \in Seq(Messages)
<1> DEFINE before == [i \in DOMAIN front |-> Kind(front[i])]
<1>1. front \in Seq({"SKIPPED", "OTHER"})
  BY FrontsAssumption
<1>2. \A i \in DOMAIN front : Kind(front[i]) \in Messages
  BY <1>1 DEF Kind, Messages
<1>3. DOMAIN front = 1..Len(front) /\ Len(front) \in Nat
  BY <1>1
<1>4. before \in Seq(Messages)
  BY <1>2, <1>3
<1>5. Rc(p) \in Messages
  BY DEF Rc, Messages
<1> QED BY <1>4, <1>5 DEF RcDatagram

(* What is taken from a datagram is a value of the channel.                   *)
LEMMA RcValueType ==
    ASSUME NEW d \in Seq(Messages), NEW v \in RcValues(parseDatagram(d))
    PROVE  v \in Pwm
<1>1. PICK i \in DOMAIN d : d[i][1] = "RC" /\ v = d[i][2]
  BY DEF RcValues, parseDatagram, Passing
<1>2. d[i] \in Messages
  BY <1>1
<1> QED BY <1>1, <1>2 DEF Messages

(* Every initial state has the types.                                         *)
LEMMA TypeInit == Init => TypeOK
<1> SUFFICES ASSUME Init PROVE ControlType /\ RadioType /\ LineType
  BY TypeParts
<1>1. ControlType
  <2>1. Defaults \in [Kept -> Int]
    BY DEF Defaults
  <2>2. arguments \in Seq([option : STRING, value : SUBSET Int])
    BY ArgumentsAssumption DEF Init
  <2> QED BY <2>1, <2>2 DEF Init, ControlType, Phases, Starting, Positions
<1>2. RadioType
  <2>1. rc = <<>> /\ Len(<<>>) = 0 /\ <<>> \in Seq(Seq(Messages))
    BY DEF Init
  <2> QED BY <2>1, Parameters DEF Init, RadioType
<1>3. /\ toTool \in Seq(Commands) /\ fromTool \in Seq(Commands)
      /\ Len(toTool) <= 1 /\ givenUp \in BOOLEAN
  BY LeftType DEF Init
<1>4. noises \in 0..MAX_NOISE /\ called \in Movements /\ fate \in Fates
  BY Parameters DEF Init, Movements, Fates
<1>5. LineType
  BY <1>3, <1>4, Parameters DEF LineType
<1> QED BY <1>1, <1>2, <1>5

(* Every step keeps the types of the process.                                 *)
LEMMA ControlStep == ControlType /\ RadioType /\ [Next]_vars => ControlType'
<1> SUFFICES ASSUME ControlType, RadioType, [Next]_vars PROVE ControlType'
  OBVIOUS
<1> USE DEF ControlType, Phases, Starting, Sending, Awaiting, switchVars, configVars
<1>1. ASSUME UNCHANGED <<configVars, running, phase, switchVars, requestDue>> PROVE ControlType'
  BY <1>1
<1>2. CASE Interrupt
  BY <1>2 DEF Interrupt
<1>3. CASE RequestFallsDue
  BY <1>3 DEF RequestFallsDue
<1>4. CASE Stop \/ PollOnly \/ RequestStream \/ RequestFails
  BY <1>4 DEF Stop, PollOnly, RequestStream, RequestFails, Elsewhere
<1>5. CASE PollTimeout \/ IgnoreMessage
  BY <1>5 DEF PollTimeout, IgnoreMessage
<1>6. CASE ReceiveRc
  <2>1. pwm' \in Pwm
    BY <1>6, Shrinks, RcValueType DEF ReceiveRc, RadioType
  <2>2. lastPosition' \in Positions
    BY <1>6, ClassifyType DEF ReceiveRc, Positions
  <2>3. phase' \in {"edge", "top"} /\ baselineCaptured' = TRUE
        /\ UNCHANGED <<configVars, running, requestDue>>
    BY <1>6 DEF ReceiveRc
  <2> QED BY <2>1, <2>2, <2>3
<1>7. CASE SendCommand
  BY <1>7 DEF SendCommand, AwaitOf
<1>8. CASE SkipCommand \/ TakeAnswer \/ AnswerTimeout \/ NoiseEndsWait
  BY <1>8 DEF SkipCommand, TakeAnswer, AnswerTimeout, NoiseEndsWait, EndWait, After
<1>9. CASE WakeUp
  BY <1>9 DEF WakeUp
<1>10. ASSUME ReadingArgument
       PROVE  /\ Head(arguments) \in [option : STRING, value : SUBSET Int]
              /\ Tail(arguments) \in Seq([option : STRING, value : SUBSET Int])
  BY <1>10, Shrinks DEF ReadingArgument
<1>11. CASE SetFlag
  <2>1. config' = [config EXCEPT ![Head(arguments).option] = 1] /\ ReadingArgument
    BY <1>11 DEF SetFlag
  <2>2. \A option : \A value \in Int : [config EXCEPT ![option] = value] \in [Kept -> Int]
    OBVIOUS
  <2>3. config' \in [Kept -> Int]
    BY <2>1, <2>2
  <2> QED BY <1>10, <1>11, <2>1, <2>3 DEF SetFlag, Elsewhere
<1>12. CASE SetValue
  <2>1. PICK value \in Head(arguments).value :
            config' = IF Head(arguments).option \in Kept
                        THEN [config EXCEPT ![Head(arguments).option] = value]
                        ELSE config
    BY <1>12 DEF SetValue
  <2>2. value \in Int /\ ReadingArgument
    BY <1>10, <1>12, <2>1 DEF SetValue
  <2>3. config' \in [Kept -> Int]
    BY <2>1, <2>2
  <2> QED BY <1>10, <1>12, <2>3 DEF SetValue, Elsewhere
<1>13. CASE RejectArgument \/ CheckArguments
  BY <1>13 DEF RejectArgument, CheckArguments, Elsewhere
<1>14. CASE OpenSerial \/ OpenSerialFails \/ OpenEndpoint
  BY <1>14 DEF OpenSerial, OpenSerialFails, OpenEndpoint, Elsewhere
<1> QED
  BY <1>1, <1>2, <1>3, <1>4, <1>5, <1>6, <1>7, <1>8, <1>9, <1>11, <1>12, <1>13, <1>14
     DEF Next, BridgeStep, StartStep, MoveStick, PublishRc, PublishHidden, Publish, AutopilotRestarts, ToolAnswers, AnswerLost, ToolTakes, vars

(* Every step keeps the types of the radio and the socket.                    *)
LEMMA RadioStep == RadioType /\ [Next]_vars => RadioType'
<1> SUFFICES ASSUME RadioType, [Next]_vars PROVE RadioType'
  OBVIOUS
<1>1. ASSUME UNCHANGED radioVars PROVE RadioType'
  BY <1>1, SamePart
<1>2. ASSUME NEW p \in Pwm, MoveStick(p) PROVE RadioType'
  BY <1>2 DEF MoveStick, RadioType
<1>3. ASSUME NEW front \in Fronts, Publish(front), upsets' \in 0..MAX_UPSETS PROVE RadioType'
  <2>1. RcDatagram(front, stick) \in Seq(Messages)
    BY DatagramType DEF RadioType
  <2>2. /\ Append(rc, RcDatagram(front, stick)) \in Seq(Seq(Messages))
        /\ Len(Append(rc, RcDatagram(front, stick))) = Len(rc) + 1 /\ Len(rc) \in Nat
    BY <2>1 DEF RadioType
  <2>3. rc' \in Seq(Seq(Messages)) /\ Len(rc') <= RC_BUFFER
    BY <1>3, <2>2, Parameters DEF Publish, RadioType
  <2> QED BY <1>3, <2>3 DEF Publish, RadioType
<1>8. CASE PublishRc
  BY <1>3, <1>8 DEF PublishRc, RadioType
<1>9. ASSUME upsets < MAX_UPSETS, upsets' = upsets + 1 PROVE upsets' \in 0..MAX_UPSETS
  BY <1>9, Parameters DEF RadioType
<1>10. CASE PublishHidden
  BY <1>3, <1>9, <1>10 DEF PublishHidden
<1>4. CASE AutopilotRestarts
  <2>1. upsets' = upsets + 1 /\ upsets < MAX_UPSETS /\ streaming' = FALSE
        /\ UNCHANGED <<stick, rc>>
    BY <1>4 DEF AutopilotRestarts
  <2>2. upsets' \in 0..MAX_UPSETS
    BY <2>1, Parameters DEF RadioType
  <2> QED BY <2>1, <2>2 DEF RadioType
<1>5. CASE RequestStream
  BY <1>5 DEF RequestStream, RadioType
<1>11. CASE RequestFails
  <2>1. upsets' \in 0..MAX_UPSETS
    BY <1>9, <1>11 DEF RequestFails, RadioType
  <2> QED BY <1>11, <2>1 DEF RequestFails, RadioType
<1>6. ASSUME rc # <<>>, rc' = Tail(rc), UNCHANGED <<stick, streaming, upsets>> PROVE RadioType'
  <2>1. Tail(rc) \in Seq(Seq(Messages)) /\ Len(Tail(rc)) = Len(rc) - 1 /\ Len(rc) \in Nat
    BY <1>6, Shrinks DEF RadioType
  <2> QED BY <1>6, <2>1, Parameters DEF RadioType
<1>7. CASE IgnoreMessage \/ ReceiveRc
  BY <1>6, <1>7 DEF IgnoreMessage, ReceiveRc
<1> QED
  BY <1>1, <1>2, <1>4, <1>5, <1>7, <1>8, <1>10, <1>11
     DEF Next, BridgeStep, StartStep, SetFlag, SetValue, RejectArgument, CheckArguments, OpenSerial,
         OpenSerialFails, OpenEndpoint, Elsewhere, Stop, PollOnly, ToolAnswers, AnswerLost, ToolTakes, Interrupt,
         RequestFallsDue, PollTimeout, SendCommand, SkipCommand, TakeAnswer, AnswerTimeout, NoiseEndsWait, EndWait, WakeUp,
         vars, radioVars

(* Every step keeps the types of the line.                                    *)
LEMMA LineStep == LineType /\ [Next]_vars => LineType'
<1> SUFFICES ASSUME LineType, [Next]_vars PROVE LineType'
  OBVIOUS
<1>1. ASSUME UNCHANGED lineVars PROVE LineType'
  BY <1>1, SamePart
<1>2. ASSUME toTool # <<>>
      PROVE  /\ Head(toTool) \in Commands /\ Tail(toTool) \in Seq(Commands)
             /\ Len(Tail(toTool)) <= TOOL_BUFFER
  <2>1. /\ Head(toTool) \in Commands /\ Tail(toTool) \in Seq(Commands)
        /\ Len(Tail(toTool)) = Len(toTool) - 1 /\ Len(toTool) \in Nat
    BY <1>2, Shrinks DEF LineType
  <2> QED BY <2>1, Parameters DEF LineType
<1>3. CASE ToolAnswers \/ AnswerLost
  <2>1. /\ toTool # <<>> /\ toTool' = Tail(toTool) /\ fate' = FateTaken
        /\ UNCHANGED <<givenUp, noises, called>>
        /\ (fromTool' = fromTool \/ fromTool' = Append(fromTool, Head(toTool)))
    BY <1>3 DEF ToolAnswers, AnswerLost, ToolTakes
  <2>2. fromTool' \in Seq(Commands)
    <3>1. Append(fromTool, Head(toTool)) \in Seq(Commands)
      BY <1>2, <2>1, Grows DEF LineType
    <3> QED BY <2>1, <3>1 DEF LineType
  <2>3. fate' \in Fates
    BY <2>1 DEF FateTaken, LineType, Fates
  <2> QED BY <1>2, <2>1, <2>2, <2>3 DEF LineType
<1>4. CASE ReceiveRc
  <2>1. UNCHANGED <<toTool, fromTool, givenUp, noises>>
        /\ ((called' = lastPosition' /\ fate' = "due") \/ UNCHANGED <<called, fate>>)
    BY <1>4 DEF ReceiveRc
  <2>2. lastPosition' \in Movements
    BY <1>4, ClassifyType DEF ReceiveRc, Movements
  <2> QED BY <2>1, <2>2 DEF LineType, Fates
<1>9. Fate(phase, "sent") \in Fates /\ Fate(phase, "missed") \in Fates
  BY DEF Fate, LineType, Fates
<1>5. CASE SendCommand
  <2>1. CommandOf(phase) \in Commands
    BY CommandType
  <2>2. /\ Append(toTool, CommandOf(phase)) \in Seq(Commands)
        /\ Len(Append(toTool, CommandOf(phase))) = Len(toTool) + 1 /\ Len(toTool) \in Nat
    BY <2>1 DEF LineType
  <2>3. toTool' \in Seq(Commands) /\ Len(toTool') <= TOOL_BUFFER
    BY SMTT(40), <1>5, <2>2, Parameters DEF SendCommand, LineType
  <2>4. fate' \in Fates
    BY <1>5, <1>9 DEF SendCommand
  <2> QED BY <1>5, <2>3, <2>4 DEF SendCommand, LineType
<1>6. CASE TakeAnswer
  <2>1. Tail(fromTool) \in Seq(Commands)
    BY <1>6, Shrinks DEF TakeAnswer, LineType
  <2> QED BY <1>6, <2>1 DEF TakeAnswer, EndWait, LineType
<1>7. CASE AnswerTimeout
  BY <1>7 DEF AnswerTimeout, EndWait, LineType
<1>10. CASE NoiseEndsWait
  <2>1. noises' \in 0..MAX_NOISE
    BY <1>10, Parameters DEF NoiseEndsWait, LineType
  <2> QED BY <1>10, <2>1 DEF NoiseEndsWait, EndWait, LineType
<1>11. CASE SkipCommand
  BY <1>9, <1>11 DEF SkipCommand, LineType
<1>8. CASE OpenSerial
  <2>1. <<>> \in Seq(Commands)
    OBVIOUS
  <2> QED BY <1>8, <2>1 DEF OpenSerial, LineType
<1> QED
  BY <1>1, <1>3, <1>4, <1>5, <1>6, <1>7, <1>8, <1>10, <1>11
     DEF Next, BridgeStep, StartStep, SetFlag, SetValue, RejectArgument, CheckArguments,
         OpenSerialFails, OpenEndpoint, Elsewhere, MoveStick, PublishRc, PublishHidden, Publish,
         AutopilotRestarts, Interrupt, RequestFallsDue, Stop, PollOnly, RequestStream, RequestFails,
         PollTimeout, IgnoreMessage, WakeUp, vars

(* Every step keeps the types.                                                *)
LEMMA TypeStep == TypeOK /\ [Next]_vars => TypeOK'
<1> SUFFICES ASSUME TypeOK, [Next]_vars PROVE TypeOK'
  OBVIOUS
<1>1. ControlType' /\ RadioType' /\ LineType'
  BY TypeParts, ControlStep, RadioStep, LineStep
<1> QED BY Zenon, <1>1 DEF TypeOK, ControlType, RadioType, LineType, Fates

(* Every reachable state has the types.                                       *)
THEOREM TypeCorrect == Spec => []TypeOK
  BY TypeInit, TypeStep, PTL DEF Spec

-----------------------------------------------------------------------------
(* The switch.                                                               *)
(* Past the arguments the hysteresis is one checkArguments lets through, and no *)
(* value has come before.                                                     *)
Checked ==
    /\ phase \in {"arguments", "stopped"} \/ config["--switch-hysteresis"] \in 0..399
    /\ phase = "arguments" => ~baselineCaptured

SwitchInv == TypeOK /\ Baseline /\ Checked /\ OutOfBandDecides

(* Where a command goes to and comes back from.                               *)
LEMMA PhaseFacts ==
    /\ Sending \cap Awaiting = {} /\ Starting \cap Awaiting = {} /\ Starting \cap Sending = {}
    /\ \A p \in Sending : AwaitOf(p) \in Awaiting /\ After(p) \notin Awaiting
    /\ \A p \in Awaiting : After(p) \notin Awaiting
    /\ \A p : AwaitOf(p) \notin Starting /\ After(p) \notin Starting
  BY DEF Sending, Awaiting, AwaitOf, After, Starting

(* Once the arguments are read, the options stay as they are.                 *)
LEMMA ConfigKept ==
    ASSUME [Next]_vars, phase # "arguments"
    PROVE  config' = config /\ phase' # "arguments"
<1>1. phase \notin Starting \/ phase \in {"serial", "endpoint"}
  BY DEF Starting
<1> QED
  BY <1>1, PhaseFacts
     DEF Next, BridgeStep, StartStep, SetFlag, SetValue, RejectArgument, CheckArguments, ReadingArgument,
         Elsewhere, OpenSerial, OpenSerialFails, OpenEndpoint, MoveStick, PublishRc, PublishHidden,
         Publish, AutopilotRestarts, ToolAnswers, AnswerLost, ToolTakes, Interrupt, RequestFallsDue, Stop, PollOnly,
         RequestStream, RequestFails, PollTimeout, IgnoreMessage, ReceiveRc, SendCommand, SkipCommand,
         TakeAnswer, AnswerTimeout, NoiseEndsWait, EndWait, WakeUp, vars, configVars, Starting

(* While they are read, nothing is received.                                  *)
LEMMA Reading ==
    ASSUME [Next]_vars, phase = "arguments"
    PROVE  /\ UNCHANGED switchVars
           /\ \/ phase' \in {"arguments", "stopped"}
              \/ phase' = "serial" /\ config' = config /\ config["--switch-hysteresis"] \in 0..399
  BY DEF Next, BridgeStep, StartStep, SetFlag, SetValue, RejectArgument, CheckArguments,
         Elsewhere, OpenSerial, OpenSerialFails, OpenEndpoint, MoveStick, PublishRc, PublishHidden,
         Publish, AutopilotRestarts, ToolAnswers, AnswerLost, ToolTakes, Interrupt, RequestFallsDue, Stop, PollOnly,
         RequestStream, RequestFails, PollTimeout, IgnoreMessage, ReceiveRc, SendCommand, SkipCommand,
         TakeAnswer, AnswerTimeout, NoiseEndsWait, EndWait, WakeUp, vars, configVars, switchVars, Sending, Awaiting

(* A message with a value leaves a position that the value, when it is out of *)
(* the band, has decided.                                                     *)
LEMMA SwitchReceive ==
    ASSUME TypeOK, Checked, ReceiveRc
    PROVE  /\ lastPosition' \in {"UP", "DOWN"} /\ baselineCaptured' /\ phase' # "arguments"
           /\ OutOfBandDecides'
<1>1. /\ pwm' \in RcValues(parseDatagram(Head(rc))) /\ lastPosition' = Classify(pwm', lastPosition)
      /\ baselineCaptured' = TRUE /\ rc # <<>> /\ phase = "poll" /\ config' = config
      /\ phase' \in {"edge", "top"}
  BY DEF ReceiveRc, configVars
<1>2. pwm' \in Int /\ lastPosition \in Positions
  <2>1. Head(rc) \in Seq(Messages)
    BY <1>1, Shrinks DEF TypeOK
  <2> QED BY <1>1, <2>1, RcValueType, Parameters DEF TypeOK
<1>3. lastPosition' \in {"UP", "DOWN"}
  BY <1>1, ClassifyType
<1>4. ConfigType /\ config["--switch-hysteresis"] >= 0
  <2>1. config["--switch-hysteresis"] \in 0..399
    BY <1>1 DEF Checked
  <2>2. ConfigType
    BY Zenon DEF TypeOK, ConfigType
  <2>3. \A h \in 0..399 : h >= 0
    OBVIOUS
  <2> QED BY <2>1, <2>2, <2>3
<1>5. /\ AboveBand(pwm') => lastPosition' = HighPosition
      /\ BelowBand(pwm') => lastPosition' = Inverted(HighPosition)
  BY <1>1, <1>2, <1>4, ClassifyOutOfBand
<1>6. OutOfBandDecides'
  BY <1>1, <1>5 DEF OutOfBandDecides, AboveBand, BelowBand, HighLimit, LowLimit, HighPosition,
                    Inverted, InvertSwitch, Threshold
<1> QED BY <1>1, <1>3, <1>6

(* Every step keeps what is known of the switch.                              *)
LEMMA SwitchStep == SwitchInv /\ [Next]_vars => SwitchInv'
<1> SUFFICES ASSUME SwitchInv, [Next]_vars PROVE SwitchInv'
  OBVIOUS
<1>1. TypeOK /\ TypeOK'
  BY TypeStep DEF SwitchInv
<1>2. CASE phase = "arguments"
  <2>1. ~baselineCaptured' /\ lastPosition' = lastPosition /\ ~baselineCaptured
    BY <1>2, Reading DEF SwitchInv, Checked, switchVars
  <2>2. Checked'
    BY <1>2, <2>1, Reading DEF Checked
  <2> QED BY <1>1, <2>1, <2>2 DEF SwitchInv, Baseline, OutOfBandDecides
<1>3. ASSUME phase # "arguments", UNCHANGED switchVars, phase = "stopped" => phase' = "stopped"
      PROVE  SwitchInv'
  <2>1. config' = config /\ phase' # "arguments"
    BY <1>3, ConfigKept
  <2>2. Checked'
    BY <1>3, <2>1 DEF SwitchInv, Checked
  <2>3. OutOfBandDecides'
    BY <1>3, <2>1 DEF SwitchInv, OutOfBandDecides, AboveBand, BelowBand, HighLimit, LowLimit,
                      HighPosition, Inverted, InvertSwitch, Threshold, switchVars
  <2> QED BY <1>1, <1>3, <2>2, <2>3 DEF SwitchInv, Baseline, switchVars
<1>4. CASE ReceiveRc
  <2>1. config' = config /\ phase = "poll"
    BY <1>4 DEF ReceiveRc, configVars
  <2>2. /\ lastPosition' \in {"UP", "DOWN"} /\ baselineCaptured' /\ phase' # "arguments"
        /\ OutOfBandDecides'
    BY <1>4, SwitchReceive DEF SwitchInv
  <2>3. Checked'
    BY <2>1, <2>2 DEF SwitchInv, Checked
  <2> QED BY <1>1, <2>2, <2>3 DEF SwitchInv, Baseline
<1>5. ReceiveRc \/ UNCHANGED switchVars
  BY DEF Next, BridgeStep, StartStep, SetFlag, SetValue, RejectArgument, CheckArguments,
         Elsewhere, OpenSerial, OpenSerialFails, OpenEndpoint, MoveStick, PublishRc, PublishHidden,
         Publish, AutopilotRestarts, ToolAnswers, AnswerLost, ToolTakes, Interrupt, RequestFallsDue, Stop, PollOnly,
         RequestStream, RequestFails, PollTimeout, IgnoreMessage, SendCommand, SkipCommand,
         TakeAnswer, AnswerTimeout, NoiseEndsWait, EndWait, WakeUp, vars
<1>6. phase = "stopped" => phase' = "stopped"
  BY DEF Next, BridgeStep, StartStep, SetFlag, SetValue, RejectArgument, CheckArguments, ReadingArgument,
         Elsewhere, OpenSerial, OpenSerialFails, OpenEndpoint, MoveStick, PublishRc, PublishHidden,
         Publish, AutopilotRestarts, ToolAnswers, AnswerLost, ToolTakes, Interrupt, RequestFallsDue, Stop, PollOnly,
         RequestStream, RequestFails, PollTimeout, IgnoreMessage, ReceiveRc, SendCommand, SkipCommand,
         TakeAnswer, AnswerTimeout, NoiseEndsWait, EndWait, WakeUp, vars, Sending, Awaiting
<1> QED BY <1>2, <1>3, <1>4, <1>5, <1>6

(* Every initial state is before the baseline.                                *)
LEMMA SwitchInit == Init => SwitchInv
  BY TypeInit DEF Init, SwitchInv, Baseline, Checked, OutOfBandDecides

(* In every reachable state the baseline is a position, and outside the band   *)
(* the last position is the one the last value selects.                        *)
THEOREM SwitchInvariant == Spec => []SwitchInv
  BY SwitchInit, SwitchStep, PTL DEF Spec

(* Outside the band the switch decides alone, whatever threshold and          *)
(* hysteresis are configured.                                                 *)
THEOREM OutOfBand == Spec => []OutOfBandDecides
<1>1. SwitchInv => OutOfBandDecides
  BY DEF SwitchInv
<1> QED BY <1>1, SwitchInvariant, PTL

(* No list of arguments turns the inversion of the switch off: --invert-switch *)
(* sets what is set already, and no other option touches it.                    *)
THEOREM AlwaysInverted == Spec => []InvertSwitch
<1>1. Init => InvertSwitch
  BY DEF Init, InvertSwitch, Defaults, Kept, Flags
<1>2. TypeOK /\ InvertSwitch /\ [Next]_vars => InvertSwitch'
  <2> SUFFICES ASSUME TypeOK, InvertSwitch, [Next]_vars PROVE InvertSwitch'
    OBVIOUS
  <2>1. config \in [Kept -> Int] /\ "--invert-switch" \in Kept
    BY DEF TypeOK, Kept, Flags
  <2>2. CASE config' = config
    BY <2>2 DEF InvertSwitch
  <2>3. CASE SetFlag
    <3>1. config' = [config EXCEPT ![Head(arguments).option] = 1]
      BY <2>3 DEF SetFlag
    <3> QED BY <2>1, <3>1 DEF InvertSwitch
  <2>4. CASE SetValue
    <3>1. Head(arguments).option # "--invert-switch"
      BY <2>4 DEF SetValue, Paths, Ports, Bytes, Numbers
    <3>2. \E value : config' = [config EXCEPT ![Head(arguments).option] = value] \/ config' = config
      BY <2>4 DEF SetValue
    <3> QED BY <2>1, <3>1, <3>2 DEF InvertSwitch
  <2>5. config' = config \/ SetFlag \/ SetValue
    BY DEF Next, BridgeStep, StartStep, RejectArgument, CheckArguments, Elsewhere, OpenSerial,
           OpenSerialFails, OpenEndpoint, MoveStick, PublishRc, PublishHidden, Publish,
           AutopilotRestarts, ToolAnswers, AnswerLost, ToolTakes, Interrupt, RequestFallsDue, Stop, PollOnly,
           RequestStream, RequestFails, PollTimeout, IgnoreMessage, ReceiveRc, SendCommand, SkipCommand,
           TakeAnswer, AnswerTimeout, NoiseEndsWait, EndWait, WakeUp, vars, configVars
  <2> QED BY <2>2, <2>3, <2>4, <2>5
<1> QED BY <1>1, <1>2, TypeCorrect, PTL DEF Spec

-----------------------------------------------------------------------------
(* The line.                                                                 *)
(* Lengths of the two queues, and of what is taken from them.                 *)
LEMMA QueueFacts ==
    ASSUME TypeOK
    PROVE  /\ Len(toTool) \in Nat /\ Len(fromTool) \in Nat /\ Len(toTool) <= TOOL_BUFFER
           /\ toTool # <<>> => Len(Tail(toTool)) = Len(toTool) - 1
           /\ fromTool # <<>> => Len(Tail(fromTool)) = Len(fromTool) - 1
           /\ \A c \in Commands : Len(Append(toTool, c)) = Len(toTool) + 1
           /\ \A c \in Commands : Len(Append(fromTool, c)) = Len(fromTool) + 1
           /\ noises \in Nat
<1>1. toTool \in Seq(Commands) /\ fromTool \in Seq(Commands) /\ Len(toTool) <= TOOL_BUFFER
  BY DEF TypeOK
<1>2. Len(toTool) \in Nat /\ Len(fromTool) \in Nat
  BY <1>1
<1>3. /\ toTool # <<>> => Len(Tail(toTool)) = Len(toTool) - 1
      /\ fromTool # <<>> => Len(Tail(fromTool)) = Len(fromTool) - 1
  BY <1>1, Shrinks
<1>4. /\ \A c \in Commands : Len(Append(toTool, c)) = Len(toTool) + 1
      /\ \A c \in Commands : Len(Append(fromTool, c)) = Len(fromTool) + 1
  BY <1>1, Grows
<1>5. noises \in Nat
  BY Parameters DEF TypeOK
<1> QED BY <1>1, <1>2, <1>3, <1>4, <1>5

(* Every step keeps the bound on what is on its way.                          *)
LEMMA BacklogStep == TypeOK /\ Backlog /\ [Next]_vars => Backlog'
<1> SUFFICES ASSUME TypeOK, Backlog, [Next]_vars PROVE Backlog'
  OBVIOUS
<1> DEFINE extra == IF phase \in Awaiting THEN 1 ELSE 0
<1>1. Len(toTool) + Len(fromTool) <= TOOL_BUFFER + noises + extra /\ extra \in {0, 1}
  BY DEF Backlog
<1>2. ASSUME UNCHANGED <<toTool, fromTool, noises>>,
             phase' = phase \/ (phase \notin Awaiting /\ phase' \notin Awaiting)
      PROVE  Backlog'
  BY <1>2 DEF Backlog
<1>3. CASE ToolAnswers
  <2>1. toTool # <<>> /\ toTool' = Tail(toTool) /\ phase' = phase /\ noises' = noises
        /\ fromTool' = Append(fromTool, Head(toTool))
    BY <1>3 DEF ToolAnswers, ToolTakes
  <2>2. Head(toTool) \in Commands
    BY <2>1, Shrinks DEF TypeOK
  <2>3. Len(toTool') = Len(toTool) - 1 /\ Len(fromTool') = Len(fromTool) + 1
    BY <2>1, <2>2, QueueFacts
  <2> QED BY <1>1, <2>1, <2>3, QueueFacts, Parameters DEF Backlog
<1>4. CASE AnswerLost
  <2>1. Len(toTool') = Len(toTool) - 1 /\ fromTool' = fromTool /\ phase' = phase /\ noises' = noises
    BY <1>4, QueueFacts DEF AnswerLost, ToolTakes
  <2> QED BY <1>1, <2>1, QueueFacts, Parameters DEF Backlog
<1>5. CASE SendCommand
  <2>1. phase \notin Awaiting /\ phase' \in Awaiting /\ fromTool' = fromTool
        /\ noises' = noises
    BY <1>5, PhaseFacts DEF SendCommand
  <2>2. Len(toTool') <= Len(toTool) + 1
    BY <1>5, QueueFacts, CommandType DEF SendCommand
  <2>3. Len(toTool') \in Nat
    BY <1>5, QueueFacts, CommandType DEF SendCommand
  <2> QED BY <1>1, <2>1, <2>2, <2>3, QueueFacts, Parameters DEF Backlog
<1>6. CASE TakeAnswer
  <2>1. /\ Len(fromTool') = Len(fromTool) - 1 /\ toTool' = toTool
        /\ phase \in Awaiting /\ phase' \notin Awaiting /\ noises' = noises
    BY <1>6, QueueFacts, PhaseFacts DEF TakeAnswer, EndWait
  <2> QED BY <1>1, <2>1, QueueFacts, Parameters DEF Backlog
<1>7. CASE AnswerTimeout
  <2>1. fromTool = <<>> /\ UNCHANGED <<toTool, fromTool, noises>> /\ phase' \notin Awaiting
    BY <1>7, PhaseFacts DEF AnswerTimeout, EndWait
  <2>2. Len(fromTool) = 0
    BY <2>1
  <2> QED BY <2>1, <2>2, QueueFacts, Parameters DEF Backlog
<1>14. CASE NoiseEndsWait
  <2>1. /\ UNCHANGED <<toTool, fromTool>> /\ noises' = noises + 1
        /\ phase \in Awaiting /\ phase' \notin Awaiting
    BY <1>14, PhaseFacts DEF NoiseEndsWait, EndWait
  <2> QED BY <1>1, <2>1, QueueFacts, Parameters DEF Backlog
<1>8. CASE SkipCommand
  BY <1>2, <1>8, PhaseFacts DEF SkipCommand, lineVars
<1>9. CASE PollTimeout \/ IgnoreMessage \/ ReceiveRc \/ WakeUp
  BY <1>2, <1>9 DEF PollTimeout, IgnoreMessage, ReceiveRc, WakeUp, lineVars, Awaiting
<1>10. CASE Stop \/ PollOnly \/ RequestStream \/ RequestFails
  BY <1>2, <1>10 DEF Stop, PollOnly, RequestStream, RequestFails, Elsewhere, lineVars, Awaiting
<1>11. CASE SetFlag \/ SetValue \/ RejectArgument \/ CheckArguments \/ OpenSerialFails \/ OpenEndpoint
  BY <1>2, <1>11
     DEF SetFlag, SetValue, RejectArgument, CheckArguments, ReadingArgument, OpenSerialFails,
         OpenEndpoint, Elsewhere, lineVars, Awaiting
<1>12. CASE OpenSerial
  <2>1. phase \notin Awaiting /\ phase' \notin Awaiting /\ toTool' = toTool /\ noises' = noises
        /\ (fromTool' = fromTool \/ fromTool' = <<>>)
    BY <1>12 DEF OpenSerial, Awaiting
  <2>2. Len(fromTool') <= Len(fromTool) /\ Len(fromTool') \in Nat
    BY <2>1, QueueFacts
  <2> QED BY <1>1, <2>1, <2>2, QueueFacts, Parameters DEF Backlog
<1>13. CASE Interrupt
  BY <1>2, <1>13 DEF Interrupt, lineVars, Awaiting
<1> QED
  BY <1>2, <1>3, <1>4, <1>5, <1>6, <1>7, <1>8, <1>9, <1>10, <1>11, <1>12, <1>13, <1>14
     DEF Next, BridgeStep, StartStep, MoveStick, PublishRc, PublishHidden, Publish, AutopilotRestarts,
         RequestFallsDue, vars, lineVars

(* Late answers do not pile up, however many commands are sent and time out.    *)
THEOREM Bounded == Spec => []BacklogBounded
<1>1. Init => Backlog
  <2> SUFFICES ASSUME Init PROVE Backlog
    OBVIOUS
  <2>1. Len(toTool) \in Nat /\ Len(fromTool) \in Nat /\ Len(toTool) + Len(fromTool) <= 1
    BY LeftType DEF Init
  <2>2. noises = 0
    BY DEF Init
  <2> QED BY <2>1, <2>2, Parameters DEF Backlog
<1>2. TypeOK /\ Backlog => BacklogBounded
  <2> SUFFICES ASSUME TypeOK, Backlog PROVE BacklogBounded
    OBVIOUS
  <2> QED BY QueueFacts, Parameters DEF Backlog, BacklogBounded
<1> QED BY <1>1, <1>2, BacklogStep, TypeCorrect, PTL DEF Spec

(* A sequence of one element, and what is left of it.                         *)
LEMMA Single ==
    /\ \A c : Append(<<>>, c) = <<c>>
    /\ \A c : Head(<<c>>) = c /\ Tail(<<c>>) = <<>> /\ <<c>> # <<>>
  OBVIOUS

(* What may be on its way, until a wait has been given up.                    *)
Answered ==
    /\ phase \notin Awaiting => toTool = <<>> /\ (NotFlushed \/ fromTool = <<>>)
    /\ phase \in Awaiting =>
           \/ toTool = <<>> /\ fromTool = <<>>
           \/ toTool = <<CommandOf(phase)>> /\ fromTool = <<>>
           \/ toTool = <<>> /\ fromTool = <<CommandOf(phase)>>

InStep == ~givenUp => Answered

(* A wait that has been given up is never forgotten.                          *)
LEMMA GivenUpStays == [Next]_vars /\ givenUp => givenUp'
  BY DEF Next, BridgeStep, StartStep, SetFlag, SetValue, RejectArgument, CheckArguments,
         Elsewhere, OpenSerial, OpenSerialFails, OpenEndpoint, MoveStick, PublishRc, PublishHidden,
         Publish, AutopilotRestarts, ToolAnswers, AnswerLost, ToolTakes, Interrupt, RequestFallsDue, Stop, PollOnly,
         RequestStream, RequestFails, PollTimeout, IgnoreMessage, ReceiveRc, SendCommand, SkipCommand,
         TakeAnswer, AnswerTimeout, NoiseEndsWait, EndWait, WakeUp, vars, lineVars

(* Past the arguments a port that has been flushed stays so.                  *)
LEMMA FlushedStays ==
    ASSUME [Next]_vars, ~OpenSerial
    PROVE  NotFlushed => NotFlushed'
<1>1. CASE phase = "arguments"
  BY <1>1, Reading DEF NotFlushed
<1>2. CASE phase # "arguments" /\ phase \notin {"serial", "stopped"}
  <2>1. config' = config
    BY <1>2, ConfigKept
  <2> QED BY <1>2, <2>1 DEF NotFlushed, DryRun
<1>3. CASE phase \in {"serial", "stopped"}
  <2>1. phase' \in {"serial", "stopped"}
    BY <1>3
       DEF Next, BridgeStep, StartStep, SetFlag, SetValue, RejectArgument, CheckArguments,
           ReadingArgument, Elsewhere, OpenSerialFails, OpenEndpoint, MoveStick, PublishRc,
           PublishHidden, Publish, AutopilotRestarts, ToolAnswers, AnswerLost, ToolTakes, Interrupt,
           RequestFallsDue, Stop, PollOnly, RequestStream, RequestFails, PollTimeout, IgnoreMessage,
           ReceiveRc, SendCommand, SkipCommand, TakeAnswer, AnswerTimeout, NoiseEndsWait, EndWait, WakeUp, vars, Sending,
           Awaiting
  <2> QED BY <2>1 DEF NotFlushed
<1> QED BY <1>1, <1>2, <1>3

(* Every step keeps the line in step with the bridge until one is given up.   *)
LEMMA InStepStep == TypeOK /\ InStep /\ [Next]_vars => InStep'
<1> SUFFICES ASSUME TypeOK, InStep, [Next]_vars, ~givenUp' PROVE Answered'
  BY DEF InStep
<1>1. Answered
  BY GivenUpStays DEF InStep
<1>3. ASSUME UNCHANGED <<toTool, fromTool>>, phase \notin Awaiting, phase' \notin Awaiting, ~OpenSerial
      PROVE  Answered'
  BY <1>1, <1>3, FlushedStays DEF Answered
<1>4. CASE ToolAnswers \/ AnswerLost
  <2>1. /\ toTool # <<>> /\ toTool' = Tail(toTool) /\ UNCHANGED <<phase, lastPosition>>
        /\ (fromTool' = fromTool \/ fromTool' = Append(fromTool, Head(toTool)))
    BY <1>4 DEF ToolAnswers, AnswerLost, ToolTakes, switchVars
  <2>2. phase \in Awaiting /\ toTool = <<CommandOf(phase)>> /\ fromTool = <<>>
    BY <1>1, <2>1 DEF Answered
  <2>3. CommandOf(phase)' = CommandOf(phase)
    BY <2>1 DEF CommandOf
  <2>4. toTool' = <<>> /\ (fromTool' = <<>> \/ fromTool' = <<CommandOf(phase)>>)
    BY <2>1, <2>2, Single
  <2> QED BY <2>1, <2>2, <2>3, <2>4 DEF Answered
<1>6. CASE SendCommand
  <2>1. /\ phase \in Sending /\ phase' = AwaitOf(phase) /\ UNCHANGED <<lastPosition, fromTool>>
        /\ ~DryRun
    BY <1>6 DEF SendCommand, switchVars
  <2>2. toTool = <<>> /\ fromTool = <<>>
    <3>1. ~NotFlushed
      BY <2>1 DEF NotFlushed, Sending
    <3> QED BY <1>1, <2>1, <3>1, PhaseFacts DEF Answered
  <2>3. toTool' = <<>> \/ toTool' = <<CommandOf(phase)>>
    BY <1>6, <2>2, Single DEF SendCommand
  <2>4. CommandOf(phase)' = CommandOf(phase) /\ phase' \in Awaiting
    BY <2>1 DEF CommandOf, Sending, AwaitOf, Awaiting
  <2> QED BY <2>1, <2>2, <2>3, <2>4 DEF Answered
<1>7. CASE TakeAnswer
  <2>1. /\ phase \in Awaiting /\ fromTool # <<>> /\ fromTool' = Tail(fromTool)
        /\ toTool' = toTool /\ phase' \notin Awaiting
    BY <1>7, PhaseFacts DEF TakeAnswer, EndWait
  <2>2. toTool = <<>> /\ \E a : fromTool = <<a>>
    BY <1>1, <2>1 DEF Answered
  <2> QED BY <2>1, <2>2, Single DEF Answered
<1>8. CASE AnswerTimeout
  BY <1>8 DEF AnswerTimeout
<1>17. CASE NoiseEndsWait
  BY <1>17 DEF NoiseEndsWait
<1>9. CASE SkipCommand
  BY <1>3, <1>9, PhaseFacts DEF SkipCommand, lineVars, OpenSerial, Starting
<1>10. CASE PollTimeout \/ IgnoreMessage \/ ReceiveRc \/ WakeUp
  BY <1>3, <1>10 DEF PollTimeout, IgnoreMessage, ReceiveRc, WakeUp, lineVars, Awaiting, OpenSerial
<1>11. CASE Stop \/ PollOnly \/ RequestStream \/ RequestFails
  BY <1>3, <1>11 DEF Stop, PollOnly, RequestStream, RequestFails, Elsewhere, lineVars, Awaiting, OpenSerial
<1>12. CASE SetFlag \/ SetValue \/ RejectArgument \/ CheckArguments \/ OpenEndpoint
  BY <1>3, <1>12
     DEF SetFlag, SetValue, RejectArgument, CheckArguments, ReadingArgument, OpenEndpoint,
         Elsewhere, lineVars, Awaiting, OpenSerial
<1>13. CASE OpenSerialFails
  <2>1. toTool = <<>>
    BY <1>1, <1>13 DEF Answered, OpenSerialFails, Awaiting
  <2> QED BY <1>13, <2>1 DEF OpenSerialFails, Elsewhere, lineVars, Awaiting, Answered, NotFlushed
<1>14. CASE OpenSerial
  <2>1. /\ phase = "serial" /\ phase' = "endpoint" /\ toTool' = toTool /\ config' = config
        /\ (DryRun \/ fromTool' = <<>>)
    BY <1>14 DEF OpenSerial, configVars
  <2>2. toTool = <<>>
    BY <1>1, <2>1 DEF Answered, Awaiting
  <2> QED BY <2>1, <2>2 DEF Answered, NotFlushed, DryRun, Awaiting
<1>15. CASE Interrupt
  <2>1. UNCHANGED <<toTool, fromTool, lastPosition>> /\ (phase' = phase \/ phase = "arguments")
        /\ (phase = "arguments" => phase' = "stopped")
    BY <1>15 DEF Interrupt, lineVars, switchVars
  <2>2. CASE phase = "arguments"
    BY <1>1, <2>1, <2>2 DEF Answered, NotFlushed, Awaiting
  <2>3. CASE phase' = phase
    <3>1. CommandOf(phase)' = CommandOf(phase)
      BY <2>1, <2>3 DEF CommandOf
    <3>2. NotFlushed' = NotFlushed
      BY <1>15, <2>3 DEF NotFlushed, DryRun, Interrupt, configVars
    <3> QED BY <1>1, <2>1, <2>3, <3>1, <3>2 DEF Answered
  <2> QED BY <2>1, <2>2, <2>3
<1>16. ASSUME UNCHANGED <<configVars, lineVars, phase, switchVars>> PROVE Answered'
  <2>1. CommandOf(phase)' = CommandOf(phase)
    BY <1>16 DEF CommandOf, switchVars
  <2>2. NotFlushed' = NotFlushed
    BY <1>16 DEF NotFlushed, DryRun, configVars
  <2> QED BY <1>1, <1>16, <2>1, <2>2 DEF Answered, lineVars
<1> QED
  BY <1>4, <1>6, <1>7, <1>8, <1>9, <1>10, <1>11, <1>12, <1>13, <1>14, <1>15, <1>16, <1>17
     DEF Next, BridgeStep, StartStep, MoveStick, PublishRc, PublishHidden, Publish, AutopilotRestarts,
         RequestFallsDue, vars

(* No answer is ahead of its request, for any buffer of the tool.             *)
THEOREM AnswersMatch == Spec => []AnswersMatchUntilGivenUp
<1>1. Init => InStep
  <2> SUFFICES ASSUME Init, toTool = <<>> PROVE Answered
    BY DEF Init, InStep
  <2> QED BY DEF Init, Answered, NotFlushed, Awaiting
<1>2. InStep => AnswersMatchUntilGivenUp
  BY Single DEF InStep, Answered, AnswersMatchUntilGivenUp
<1> QED BY <1>1, <1>2, InStepStep, TypeCorrect, PTL DEF Spec

-----------------------------------------------------------------------------
(* The command of a change.                                                  *)

(* What is due before it is sent.                                             *)
Due ==
    /\ phase \in Starting \cup {"startup"} => fate = "due" /\ called = "UP"
    /\ phase = "edge" => fate = "due" /\ called = lastPosition

OrderInv == Due /\ ChangeCommandedOnce

(* The positions of the commands in the tool's buffer are numbers from 1 on.   *)
LEMMA WaitingType ==
    ASSUME TypeOK
    PROVE  \A i \in Waiting : i \in Nat /\ i >= 1 /\ i <= Len(toTool)
  BY DEF TypeOK, Waiting

(* A command that joins the buffer is the last in it.                         *)
LEMMA WaitingJoined ==
    ASSUME TypeOK, NEW c \in Commands, toTool' = Append(toTool, c)
    PROVE  /\ c \notin Movements => Waiting' = Waiting
           /\ c \in Movements => Waiting' = Waiting \cup {Len(toTool) + 1}
           /\ toTool'[Len(toTool) + 1] = c
           /\ \A i \in Waiting : toTool'[i] = toTool[i]
<1>1. toTool \in Seq(Commands) /\ Len(toTool) \in Nat
  BY DEF TypeOK
<1>2. /\ DOMAIN toTool' = DOMAIN toTool \cup {Len(toTool) + 1}
      /\ toTool'[Len(toTool) + 1] = c
      /\ \A i \in DOMAIN toTool : toTool'[i] = toTool[i] /\ i # Len(toTool) + 1
  BY <1>1
<1> QED BY <1>2 DEF Waiting

(* When the oldest is taken, the others move up.                              *)
LEMMA WaitingTaken ==
    ASSUME TypeOK, toTool # <<>>, toTool' = Tail(toTool)
    PROVE  /\ \A i \in Nat : i >= 1 => (i \in Waiting' <=> i + 1 \in Waiting)
           /\ \A i \in Waiting' : i \in Nat /\ i >= 1 /\ toTool'[i] = toTool[i + 1]
<1>1. toTool \in Seq(Commands) /\ Len(toTool) \in Nat /\ Len(toTool) > 0
  BY DEF TypeOK
<1>2. /\ DOMAIN toTool = 1..Len(toTool) /\ DOMAIN toTool' = 1..(Len(toTool) - 1)
      /\ \A i \in 1..(Len(toTool) - 1) : toTool'[i] = toTool[i + 1]
  BY <1>1
<1>3. \A i \in Nat : i >= 1 => (i \in DOMAIN toTool' <=> i + 1 \in DOMAIN toTool)
  BY <1>1, <1>2
<1> QED BY <1>1, <1>2, <1>3 DEF Waiting

(* The command the last change calls for is the last one in the buffer.        *)
LastWaits == \E i \in Waiting : toTool[i] = called /\ \A j \in Waiting : j <= i

(* A movement that is sent becomes the last one there.                        *)
LEMMA SentLast ==
    ASSUME TypeOK, called \in Movements, called' = called, toTool' = Append(toTool, called)
    PROVE  LastWaits'
<1>1. called \in Commands
  BY DEF Movements, Commands
<1>2. /\ Waiting' = Waiting \cup {Len(toTool) + 1} /\ toTool'[Len(toTool) + 1] = called
  BY <1>1, WaitingJoined
<1>3. \A j \in Waiting' : j <= Len(toTool) + 1
  BY <1>2, WaitingType, QueueFacts
<1> QED BY <1>2, <1>3 DEF LastWaits

(* What it takes changes nothing for the command called for, unless it is it.  *)
LEMMA FateKept == Waiting # {1} \/ fate \notin {"sent", "obeyed"} => FateTaken = fate
  BY Zenon DEF FateTaken

(* What the tool takes is the command called for, and nothing is behind it, or  *)
(* that command is still the last one to be taken.                             *)
LEMMA TakenInOrder ==
    ASSUME TypeOK, fate = "sent" => LastWaits, fate = "obeyed" => Waiting = {},
           toTool # <<>>, toTool' = Tail(toTool), fate' = FateTaken, called' = called
    PROVE  /\ fate' = fate \/ (fate = "sent" /\ fate' = "obeyed")
           /\ fate' = "sent" => LastWaits'
           /\ fate' = "obeyed" => Waiting' = {}
<1>1. ASSUME Waiting \subseteq {1} PROVE Waiting' = {}
  <2>1. \A i \in Nat : i >= 1 => i + 1 # 1
    OBVIOUS
  <2> QED BY <1>1, <2>1, WaitingTaken
<1>2. CASE fate = "sent" /\ Waiting = {1}
  <2>1. toTool[1] = called
    BY <1>2 DEF LastWaits
  <2>2. Head(toTool) = toTool[1]
    BY DEF TypeOK
  <2>3. fate' = "obeyed"
    BY <1>2, <2>1, <2>2 DEF FateTaken
  <2> QED BY <1>1, <1>2, <2>3
<1>3. CASE fate = "sent" /\ Waiting # {1}
  <2>1. fate' = fate
    BY <1>3, FateKept
  <2>2. PICK i \in Waiting : toTool[i] = called /\ \A j \in Waiting : j <= i
    BY <1>3 DEF LastWaits
  <2>3. i \in Nat /\ i >= 2
    <3>1. i \in Nat /\ i >= 1
      BY WaitingType
    <3>2. PICK j \in Waiting : j # 1
      BY <1>3
    <3>3. j \in Nat /\ j >= 1 /\ j <= i
      BY <2>2, <3>2, WaitingType
    <3> QED BY <3>1, <3>2, <3>3
  <2>4. i - 1 \in Nat /\ i - 1 >= 1 /\ (i - 1) + 1 = i
    BY <2>3
  <2>5. i - 1 \in Waiting' /\ toTool'[i - 1] = called
    BY <2>2, <2>4, WaitingTaken
  <2>6. \A j \in Waiting' : j <= i - 1
    <3> SUFFICES ASSUME NEW j \in Waiting' PROVE j <= i - 1
      OBVIOUS
    <3>1. j \in Nat /\ j >= 1 /\ j + 1 \in Waiting
      BY WaitingTaken
    <3>2. j + 1 <= i
      BY <2>2, <3>1
    <3> QED BY <2>3, <3>1, <3>2
  <2> QED BY <1>3, <2>1, <2>5, <2>6 DEF LastWaits
<1>4. CASE fate = "obeyed"
  <2>1. Waiting = {} /\ Waiting # {1}
    BY <1>4
  <2>2. fate' = fate
    BY <2>1, FateKept
  <2> QED BY <1>1, <1>4, <2>1, <2>2
<1>5. CASE fate \notin {"sent", "obeyed"}
  BY <1>5, FateKept
<1> QED BY <1>2, <1>3, <1>4, <1>5

(* The parts of the invariant.                                                *)
LEMMA OrderParts ==
    ChangeCommandedOnce <=>
        /\ fate \notin {"twice", "undone"}
        /\ fate = "due" => phase \in Starting \cup {"startup", "edge", "stopped"}
        /\ fate = "sent" => LastWaits
        /\ fate = "obeyed" => Waiting = {}
  BY Zenon DEF ChangeCommandedOnce, LastWaits

(* A step that sends and takes nothing keeps what is known of the commands.    *)
LEMMA OrderKept ==
    ASSUME OrderInv, UNCHANGED <<toTool, called, fate>>,
           \/ phase' = phase /\ lastPosition' = lastPosition
           \/ phase' \notin Starting \cup {"startup", "edge"} /\ fate # "due"
           \/ phase \in Starting /\ phase' \in Starting \cup {"startup", "stopped"}
    PROVE  OrderInv'
<1>1. (fate = "sent" => LastWaits') /\ (fate = "obeyed" => Waiting' = {})
  BY OrderParts DEF OrderInv, LastWaits, Waiting
<1>2. fate \notin {"twice", "undone"}
      /\ (fate = "due" => phase \in Starting \cup {"startup", "edge", "stopped"})
  BY OrderParts DEF OrderInv
<1>3. Due'
  BY DEF OrderInv, Due, Starting
<1>4. fate = "due" => phase' \in Starting \cup {"startup", "edge", "stopped"}
  BY <1>2
<1>5. ChangeCommandedOnce'
  BY <1>1, <1>2, <1>4 DEF ChangeCommandedOnce, LastWaits
<1> QED BY <1>3, <1>5 DEF OrderInv

(* Every step keeps the commands in order.                                    *)
LEMMA OrderStep == TypeOK /\ TypeOK' /\ OrderInv /\ [Next]_vars => OrderInv'
<1> SUFFICES ASSUME TypeOK, TypeOK', OrderInv, [Next]_vars PROVE OrderInv'
  OBVIOUS
<1>1. /\ fate \notin {"twice", "undone"}
      /\ fate = "due" => phase \in Starting \cup {"startup", "edge", "stopped"}
      /\ fate = "sent" => LastWaits
      /\ fate = "obeyed" => Waiting = {}
  BY OrderParts DEF OrderInv
<1>2. ASSUME Due', fate' \notin {"twice", "undone"},
             fate' = "due" => phase' \in Starting \cup {"startup", "edge", "stopped"},
             fate' = "sent" => LastWaits', fate' = "obeyed" => Waiting' = {}
      PROVE  OrderInv'
  BY <1>2 DEF OrderInv, ChangeCommandedOnce, LastWaits
<1>3. ASSUME phase \in {"top", "poll", "sleep"} \cup Awaiting,
             phase' \notin Starting \cup {"startup", "edge"}, UNCHANGED <<toTool, called, fate>>
      PROVE  OrderInv'
  <2>1. fate # "due"
    BY <1>1, <1>3 DEF Starting, Awaiting
  <2> QED BY <1>3, <2>1, OrderKept
<1>4. CASE ToolAnswers \/ AnswerLost
  <2>1. /\ toTool # <<>> /\ toTool' = Tail(toTool) /\ fate' = FateTaken /\ called' = called
        /\ phase' = phase /\ lastPosition' = lastPosition
    BY <1>4 DEF ToolAnswers, AnswerLost, ToolTakes, switchVars
  <2>2. /\ fate' = fate \/ (fate = "sent" /\ fate' = "obeyed")
        /\ fate' = "sent" => LastWaits'
        /\ fate' = "obeyed" => Waiting' = {}
    BY <1>1, <2>1, TakenInOrder
  <2>3. Due'
    BY <2>1, <2>2 DEF OrderInv, Due
  <2>4. fate' \notin {"twice", "undone"}
        /\ (fate' = "due" => phase' \in Starting \cup {"startup", "edge", "stopped"})
    BY <1>1, <2>1, <2>2
  <2> QED BY <1>2, <2>2, <2>3, <2>4
<1>5. CASE ReceiveRc
  <2>1. CASE phase' = "edge"
    <3>1. fate' = "due" /\ called' = lastPosition'
      BY <1>5, <2>1 DEF ReceiveRc
    <3>2. Due'
      BY <2>1, <3>1 DEF Due, Starting
    <3> QED BY <1>2, <2>1, <3>1, <3>2
  <2>2. CASE phase' # "edge"
    <3>1. phase = "poll" /\ phase' = "top" /\ UNCHANGED <<toTool, called, fate>>
      BY <1>5, <2>2 DEF ReceiveRc
    <3> QED BY <1>3, <3>1 DEF Starting
  <2> QED BY <2>1, <2>2
<1>6. CASE SendCommand \/ SkipCommand
  <2>1. /\ phase \in Sending /\ called' = called
        /\ phase' \in {AwaitOf(phase), After(phase)}
        /\ \/ toTool' = Append(toTool, CommandOf(phase)) /\ fate' = Fate(phase, "sent")
           \/ toTool' = toTool /\ fate' = Fate(phase, "missed")
    BY <1>6 DEF SendCommand, SkipCommand
  <2>2. phase' \notin Starting \cup {"startup", "edge"}
    BY <2>1 DEF AwaitOf, After, Sending, Starting
  <2>3. Due'
    BY <2>2 DEF Due
  <2>4. CASE phase = "status"
    <3>1. CommandOf(phase) = "STATUS" /\ "STATUS" \notin Movements /\ "STATUS" \in Commands
      BY <2>4 DEF CommandOf, Movements, Commands
    <3>2. fate' = fate /\ fate # "due"
      BY <1>1, <2>1, <2>4, <3>1 DEF Fate, Starting
    <3>3. Waiting' = Waiting /\ \A i \in Waiting : toTool'[i] = toTool[i]
      <4>1. CASE toTool' = toTool
        BY <4>1 DEF Waiting
      <4>2. CASE toTool' = Append(toTool, "STATUS")
        BY <3>1, <4>2, WaitingJoined
      <4> QED BY <2>1, <3>1, <4>1, <4>2
    <3>4. LastWaits => LastWaits'
      BY <2>1, <3>3 DEF LastWaits
    <3> QED BY <1>1, <1>2, <2>3, <3>2, <3>3, <3>4
  <2>5. CASE phase \in {"startup", "edge"}
    <3>1. fate = "due" /\ called \in Movements /\ CommandOf(phase) = called
      BY <2>5 DEF OrderInv, Due, CommandOf, TypeOK, Movements
    <3>2. Fate(phase, "sent") = "sent" /\ Fate(phase, "missed") = "missed"
      BY <3>1 DEF Fate
    <3>3. fate' = "sent" => LastWaits'
      BY <2>1, <3>1, <3>2, SentLast
    <3>4. fate' \in {"sent", "missed"}
      BY <2>1, <3>2
    <3> QED BY <1>2, <2>3, <3>3, <3>4
  <2> QED BY <2>1, <2>4, <2>5 DEF Sending
<1>7. CASE TakeAnswer \/ AnswerTimeout \/ NoiseEndsWait
  <2>1. phase \in Awaiting /\ phase' = After(phase) /\ UNCHANGED <<toTool, called, fate>>
    BY <1>7 DEF TakeAnswer, AnswerTimeout, NoiseEndsWait, EndWait
  <2>2. phase' \notin Starting \cup {"startup", "edge"}
    BY <2>1 DEF After, Awaiting, Starting
  <2> QED BY <1>3, <2>1, <2>2
<1>8. CASE PollTimeout \/ IgnoreMessage \/ WakeUp
  BY <1>3, <1>8 DEF PollTimeout, IgnoreMessage, WakeUp, lineVars, Starting
<1>9. CASE Stop \/ PollOnly \/ RequestStream \/ RequestFails
  BY <1>3, <1>9 DEF Stop, PollOnly, RequestStream, RequestFails, Elsewhere, lineVars, Starting
<1>10. CASE StartStep
  <2>1. phase \in Starting /\ phase' \in Starting \cup {"startup", "stopped"}
        /\ UNCHANGED <<toTool, called, fate>>
    BY <1>10
       DEF StartStep, SetFlag, SetValue, RejectArgument, CheckArguments, ReadingArgument,
           OpenSerial, OpenSerialFails, OpenEndpoint, Elsewhere, lineVars, Starting
  <2> QED BY <2>1, OrderKept
<1>11. CASE Interrupt
  <2>1. /\ UNCHANGED <<toTool, called, fate, lastPosition>>
        /\ phase' = phase \/ (phase = "arguments" /\ phase' = "stopped")
    BY <1>11 DEF Interrupt, lineVars, switchVars
  <2> QED BY <2>1, OrderKept DEF Starting
<1>12. ASSUME UNCHANGED <<phase, switchVars, lineVars>> PROVE OrderInv'
  BY <1>12, OrderKept DEF switchVars, lineVars
<1> QED
  BY <1>4, <1>5, <1>6, <1>7, <1>8, <1>9, <1>10, <1>11, <1>12
     DEF Next, BridgeStep, MoveStick, PublishRc, PublishHidden, Publish, AutopilotRestarts,
         RequestFallsDue, vars

(* A change of position is commanded once: its command is neither forgotten    *)
(* nor repeated, and whatever else was on its way, it is the movement the tool    *)
(* takes last, unless it is lost.                                             *)
THEOREM CommandedOnce == Spec => []ChangeCommandedOnce
<1>1. Init => OrderInv
  BY DEF Init, OrderInv, Due, ChangeCommandedOnce, Starting
<1>2. OrderInv => ChangeCommandedOnce
  BY DEF OrderInv
<1>3. TypeOK /\ OrderInv /\ [Next]_vars => OrderInv'
  BY TypeStep, OrderStep
<1> QED BY <1>1, <1>2, <1>3, TypeCorrect, PTL DEF Spec

-----------------------------------------------------------------------------
(* The end of the program.                                                    *)

(* The steps the program takes at most before it ends, once it is to end.        *)
StepsToStop ==
    CASE phase = "stopped"                    -> 0
      [] phase = "top"                        -> 1
      [] phase \in {"sleep", "awaitStartup"}  -> 2
      [] phase \in {"awaitStatus", "startup"} -> 3
      [] phase \in {"status", "endpoint"}     -> 4
      [] phase \in {"awaitEdge", "serial"}    -> 5
      [] phase = "edge"                       -> 6
      [] OTHER                                -> 7

Stopping(n) == ~running /\ phase \in Phases \ {"arguments"} /\ StepsToStop <= n

(* Only noise moves it besides the program itself, and no signal comes twice.       *)
LEMMA StoppingKept ==
    ASSUME NEW n \in Nat, Stopping(n), [Next]_vars, ~BridgeStep
    PROVE  Stopping(n)'
<1>1. running' = running /\ phase' = phase => Stopping(n)'
  BY DEF Stopping, StepsToStop
<1>2. CASE Interrupt
  BY <1>2 DEF Interrupt, Stopping
<1>3. CASE RequestFallsDue \/ (\E p \in Pwm : MoveStick(p)) \/ PublishRc \/ PublishHidden
           \/ AutopilotRestarts \/ ToolAnswers \/ AnswerLost \/ UNCHANGED vars
  BY <1>1, <1>3 DEF RequestFallsDue, MoveStick, PublishRc, PublishHidden, Publish,
                    AutopilotRestarts, ToolAnswers, AnswerLost, ToolTakes, vars
<1>4. CASE NoiseEndsWait
  <2>1. phase \in Awaiting /\ phase' = After(phase) /\ running' = running
    BY <1>4 DEF NoiseEndsWait, EndWait
  <2>2. phase' \in Phases /\ phase' # "arguments"
    BY <2>1 DEF After, Sending, Awaiting, Phases
  <2>3. StepsToStop \in 0..7 /\ StepsToStop' \in 0..7 /\ StepsToStop' < StepsToStop
    BY <2>1 DEF StepsToStop, After, Sending, Awaiting
  <2>4. \A a, b \in 0..7 : a < b /\ b <= n => a <= n
    OBVIOUS
  <2> QED BY <2>1, <2>2, <2>3, <2>4 DEF Stopping
<1> QED BY <1>2, <1>3, <1>4 DEF Next

(* Each of its own steps brings it nearer: no wait is begun twice.                *)
LEMMA StoppingNearer ==
    ASSUME NEW n \in Nat, Stopping(n), BridgeStep
    PROVE  n > 0 /\ Stopping(n - 1)'
<1>1. ~running /\ phase \in Phases /\ phase # "arguments" /\ StepsToStop <= n
  BY DEF Stopping
<1>2. StepsToStop \in 0..7
  BY DEF StepsToStop
<1>3. ASSUME running' = running, phase' \in Phases, phase' # "arguments",
             StepsToStop' \in 0..7, StepsToStop' < StepsToStop
      PROVE  n > 0 /\ Stopping(n - 1)'
  <2>1. \A a, b \in 0..7 : a < b /\ b <= n => n > 0 /\ a <= n - 1
    OBVIOUS
  <2>2. n > 0 /\ StepsToStop' <= n - 1
    BY <1>1, <1>2, <1>3, <2>1
  <2> QED BY <1>1, <1>3, <2>2 DEF Stopping
<1>4. ASSUME NEW to \in Phases, to # "arguments", phase' = to, running' = running,
             \/ phase = "serial" /\ to \in {"endpoint", "stopped"}
             \/ phase = "endpoint" /\ to \in {"startup", "stopped"}
             \/ phase = "top" /\ to = "stopped"
             \/ phase = "poll" /\ to \in {"top", "edge"}
             \/ phase \in Sending /\ to \in {AwaitOf(phase), After(phase)}
             \/ phase \in Awaiting /\ to = After(phase)
             \/ phase = "sleep" /\ to = "top"
      PROVE  n > 0 /\ Stopping(n - 1)'
  <2>1. StepsToStop' \in 0..7 /\ StepsToStop' < StepsToStop
    BY <1>4 DEF StepsToStop, AwaitOf, After, Sending, Awaiting
  <2> QED BY <1>3, <1>4, <2>1
<1>5. CASE StartStep
  <2>1. \/ OpenSerial \/ OpenSerialFails \/ OpenEndpoint
    BY <1>1, <1>5 DEF StartStep, SetFlag, SetValue, RejectArgument, CheckArguments, ReadingArgument
  <2> QED BY <1>4, <2>1 DEF OpenSerial, OpenSerialFails, OpenEndpoint, Elsewhere, Phases, Starting, Sending
<1>6. CASE Stop \/ PollOnly \/ RequestStream \/ RequestFails
  BY <1>1, <1>4, <1>6 DEF Stop, PollOnly, RequestStream, RequestFails, Elsewhere, Phases
<1>7. CASE PollTimeout \/ IgnoreMessage \/ ReceiveRc
  BY <1>4, <1>7 DEF PollTimeout, IgnoreMessage, ReceiveRc, Phases, Sending
<1>8. CASE SendCommand \/ SkipCommand
  <2>1. /\ phase \in Sending /\ phase' \in {AwaitOf(phase), After(phase)} /\ running' = running
    BY <1>8 DEF SendCommand, SkipCommand
  <2>2. phase' \in Phases /\ phase' # "arguments"
    BY <2>1 DEF AwaitOf, After, Sending, Awaiting, Phases
  <2> QED BY <1>4, <2>1, <2>2
<1>9. CASE TakeAnswer \/ AnswerTimeout
  <2>1. phase \in Awaiting /\ phase' = After(phase) /\ running' = running
    BY <1>9 DEF TakeAnswer, AnswerTimeout, NoiseEndsWait, EndWait
  <2>2. phase' \in Phases /\ phase' # "arguments"
    BY <2>1 DEF After, Sending, Awaiting, Phases
  <2> QED BY <1>4, <2>1, <2>2
<1>10. CASE WakeUp
  BY <1>4, <1>10 DEF WakeUp, Phases
<1> QED BY <1>5, <1>6, <1>7, <1>8, <1>9, <1>10 DEF BridgeStep

(* A signal that comes before its handler is installed ends the program.          *)
HandlerInstalled == ~running => phase # "arguments"

(* So it stays: nothing goes back to reading arguments.                         *)
LEMMA HandlerStep == HandlerInstalled /\ [Next]_vars => HandlerInstalled'
<1> SUFFICES ASSUME HandlerInstalled, [Next]_vars PROVE HandlerInstalled'
  OBVIOUS
<1>1. CASE phase # "arguments"
  BY <1>1, ConfigKept DEF HandlerInstalled
<1>2. CASE phase = "arguments"
  <2>1. running
    BY <1>2 DEF HandlerInstalled
  <2>2. CASE Interrupt
    BY <1>2, <2>2 DEF Interrupt, HandlerInstalled
  <2>3. CASE ~Interrupt
    <3>1. running' = running
      BY <1>2, <2>3
         DEF Next, BridgeStep, StartStep, SetFlag, SetValue, RejectArgument, CheckArguments,
             OpenSerial, OpenSerialFails, OpenEndpoint, Elsewhere, Stop, PollOnly, RequestStream,
             RequestFails, PollTimeout, IgnoreMessage, ReceiveRc, SendCommand, SkipCommand,
             TakeAnswer, AnswerTimeout, NoiseEndsWait, EndWait, WakeUp, RequestFallsDue, MoveStick, PublishRc,
             PublishHidden, Publish, AutopilotRestarts, ToolAnswers, AnswerLost, ToolTakes, vars
    <3> QED BY <2>1, <3>1 DEF HandlerInstalled
  <2> QED BY <2>2, <2>3
<1> QED BY <1>1, <1>2

(* The process is scheduled until it ends: the fairness of BridgeStep, one of     *)
(* whose guards holds in every phase but the last.                             *)
Scheduled == <>[](phase # "stopped") => []<><<BridgeStep>>_vars

(* After a signal the program ends, wherever it was waiting: seven steps of it at    *)
(* most are left, whatever its options are and whatever the radio, the autopilot,    *)
(* the tool and the line do meanwhile.                                         *)
THEOREM ShutsDown == Spec /\ Scheduled => ShutdownCompletes
<1> DEFINE Gone == phase = "stopped"
           Remains(n) == Stopping(n) /\ [Next]_vars => Stopping(n)'
           Nearer(n) == Stopping(n) /\ <<BridgeStep>>_vars => Stopping(n - 1)'
<1>1. TypeOK /\ HandlerInstalled => (~running => Stopping(7))
  BY DEF TypeOK, HandlerInstalled, Stopping, StepsToStop
<1>2. \A n \in Nat : Remains(n)
  <2> SUFFICES ASSUME NEW n \in Nat, Stopping(n), [Next]_vars PROVE Stopping(n)'
    OBVIOUS
  <2>1. CASE BridgeStep
    <3>1. Stopping(n - 1)' => Stopping(n)'
      <4>1. StepsToStop' \in 0..7
        BY DEF StepsToStop
      <4>2. \A a \in 0..7 : a <= n - 1 => a <= n
        OBVIOUS
      <4> QED BY <4>1, <4>2 DEF Stopping
    <3> QED BY <2>1, <3>1, StoppingNearer
  <2>2. CASE ~BridgeStep
    BY <2>2, StoppingKept
  <2> QED BY <2>1, <2>2
<1>3. \A n \in Nat : Nearer(n)
  BY StoppingNearer
<1>4. Stopping(0) => Gone
  BY DEF Stopping, StepsToStop
<1>5. Remains(0) /\ Remains(1) /\ Remains(2) /\ Remains(3) /\ Remains(4) /\ Remains(5) /\ Remains(6) /\ Remains(7)
  BY <1>2
<1>6. /\ Stopping(1) /\ <<BridgeStep>>_vars => Stopping(0)'
      /\ Stopping(2) /\ <<BridgeStep>>_vars => Stopping(1)'
      /\ Stopping(3) /\ <<BridgeStep>>_vars => Stopping(2)'
      /\ Stopping(4) /\ <<BridgeStep>>_vars => Stopping(3)'
      /\ Stopping(5) /\ <<BridgeStep>>_vars => Stopping(4)'
      /\ Stopping(6) /\ <<BridgeStep>>_vars => Stopping(5)'
      /\ Stopping(7) /\ <<BridgeStep>>_vars => Stopping(6)'
  <2>1. Nearer(1) /\ Nearer(2) /\ Nearer(3) /\ Nearer(4) /\ Nearer(5) /\ Nearer(6) /\ Nearer(7)
    BY <1>3
  <2>2. 1 - 1 = 0 /\ 2 - 1 = 1 /\ 3 - 1 = 2 /\ 4 - 1 = 3 /\ 5 - 1 = 4 /\ 6 - 1 = 5 /\ 7 - 1 = 6
    OBVIOUS
  <2> QED BY <2>1, <2>2
<1>7. (phase # "stopped") <=> ~Gone
  OBVIOUS
<1>8. Init => HandlerInstalled
  BY DEF Init, HandlerInstalled
<1>9. Spec => [](TypeOK /\ HandlerInstalled)
  BY <1>8, TypeCorrect, HandlerStep, PTL DEF Spec
<1> QED BY <1>1, <1>4, <1>5, <1>6, <1>7, <1>9, PTL DEF Spec, Scheduled, ShutdownCompletes
=============================================================================

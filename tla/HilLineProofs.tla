----------------------------- MODULE HilLineProofs -----------------------------
(* Proofs about HilLine, for every reader, every set of messages and every      *)
(* bound: the timed read and that it ends, the buffer of the firmware's decoder,  *)
(* the types, what an undisturbed line delivers, and how the readers recover      *)
(* after the last fault.  The last two follow the bytes of every frame from the    *)
(* encoder through the loop of the reader to the payload it hands on, and rest    *)
(* on the round trip of HilFrameProofs.                                       *)
EXTENDS HilLine, HilFrameProofs, FiniteSetTheorems

(* The program that reads stays the same one.                                 *)
LEMMA SameReader == [Next]_vars => reader' = reader
  BY DEF Next, Send, LineFault, Lose, Change, Add, Fault, ReaderStep, Call, Fetch, TimedOut,
         DeadlinePassed, StartTimedRead, ReadFails, AsioStep, ByteRead, TimerExpires, TimerHandler,
         ReadHandler, RunReturnsByte, RunReturnsNone, ByteStep, Search, ToolUnescape, ToolEscape,
         ToolData, ToolEnd, HostData, HostAdjacent, HostEnd, AfterByte, vars

-----------------------------------------------------------------------------
(* The timed read.                                                           *)
(* A byte that has left the port and not reached the loop is in the hands of  *)
(* the one read operation; nothing is left of an operation between two reads,  *)
(* one ends without a byte only when the deadline has passed, and none waits     *)
(* without the timer that would end it.                                        *)
AsioInv ==
    /\ taken \in Nat /\ handed \in Nat
    /\ phase # "run" => op = "off" /\ timer = "off" /\ taken = handed
    /\ phase = "run" =>
           /\ op \in Operations
           /\ taken = handed + IF op \in {"read", "gotByte"} THEN 1 ELSE 0
    /\ timer = "expired" \/ op \in {"aborted", "gotNone"} => expired
    /\ timer \in {"off", "armed", "expired", "cancelled"}
    /\ timer = "cancelled" => op \in {"gotByte", "gotNone", "gotError"}
    /\ op = "pending" => timer # "off"

(* Every step keeps it so.                                                    *)
LEMMA AsioInvStep == AsioInv /\ [Next]_vars => AsioInv'
<1> SUFFICES ASSUME AsioInv, [Next]_vars PROVE AsioInv'
  OBVIOUS
<1> USE DEF AsioInv, Operations
<1>1. ASSUME UNCHANGED <<timer, op, expired, byteHistory>>, phase' = phase \/ (phase # "run" /\ phase' # "run")
      PROVE  AsioInv'
  BY <1>1 DEF byteHistory
<1>2. CASE \E m \in Messages : Send(m)
  BY <1>1, <1>2 DEF Send, asioVars
<1>3. CASE LineFault
  BY <1>1, <1>3 DEF LineFault, Lose, Change, Add, Fault, asioVars
<1>4. CASE Call
  BY <1>4 DEF Call, byteHistory
<1>5. CASE Fetch
  <2>1. /\ phase = "reading" /\ phase' = "step" /\ taken' = taken + 1 /\ handed' = handed + 1
        /\ UNCHANGED <<timer, op, expired>>
    BY <1>5 DEF Fetch, asioVars
  <2> QED BY <2>1
<1>6. CASE TimedOut
  BY <1>1, <1>6 DEF TimedOut, ReturnWithoutFrame, asioVars
<1>7. CASE DeadlinePassed
  BY <1>7 DEF DeadlinePassed, ReturnWithoutFrame, byteHistory
<1>8. CASE StartTimedRead
  BY <1>8 DEF StartTimedRead, byteHistory
<1>9. CASE ByteRead
  <2>1. /\ op = "pending" /\ op' = "read" /\ taken' = taken + 1
        /\ UNCHANGED <<phase, timer, expired, handed>>
    BY <1>9 DEF ByteRead
  <2>2. phase = "run" /\ taken = handed
    BY <2>1
  <2> QED BY <2>1, <2>2
<1>10. CASE TimerExpires
  BY <1>10 DEF TimerExpires, byteHistory
<1>11. CASE TimerHandler
  <2>1. /\ timer \in {"expired", "cancelled"} /\ timer' = "off"
        /\ UNCHANGED <<phase, expired, taken, handed>>
        /\ op' = IF timer = "expired" /\ op = "pending" THEN "aborted" ELSE op
    BY <1>11 DEF TimerHandler, byteHistory
  <2> QED BY <2>1
<1>12. CASE ReadHandler
  <2>1. /\ op \in {"read", "aborted", "failed"}
        /\ op' = CASE op = "read" -> "gotByte" [] op = "aborted" -> "gotNone" [] OTHER -> "gotError"
        /\ timer' \in {timer, "cancelled"} /\ UNCHANGED <<phase, expired, taken, handed>>
    BY <1>12 DEF ReadHandler, Results, byteHistory
  <2>2. phase = "run"
    BY <2>1
  <2> QED BY <2>1, <2>2
<1>13. CASE RunReturnsByte
  <2>1. /\ phase = "run" /\ phase' = "step" /\ timer = "off" /\ op = "gotByte" /\ op' = "off"
        /\ handed' = handed + 1 /\ UNCHANGED <<timer, expired, taken>>
    BY <1>13 DEF RunReturnsByte
  <2> QED BY <2>1
<1>14. CASE RunReturnsNone
  <2>1. /\ phase = "run" /\ phase' = "idle" /\ timer = "off" /\ op' = "off"
        /\ op \in {"gotNone", "gotError"}
        /\ UNCHANGED <<timer, expired, taken, handed>>
    BY <1>14 DEF RunReturnsNone, ReturnWithoutFrame, byteHistory
  <2> QED BY <2>1
<1>15. CASE ByteStep
  <2>1. UNCHANGED <<timer, op, expired, byteHistory>> /\ phase = "step" /\ phase' # "run"
    BY <1>15
       DEF ByteStep, Search, ToolUnescape, ToolEscape, ToolData, ToolEnd, HostData, HostAdjacent,
           HostEnd, AfterByte, InHand, Continue, Return, asioVars
  <2> QED BY <1>1, <2>1
<1>16. CASE ReadFails
  <2>1. op = "pending" /\ op' = "failed" /\ UNCHANGED <<phase, timer, expired, taken, handed>>
    BY <1>16 DEF ReadFails, byteHistory
  <2>2. phase = "run"
    BY <2>1
  <2> QED BY <2>1, <2>2
<1>17. CASE UNCHANGED vars
  BY <1>1, <1>17 DEF vars, asioVars
<1> QED
  BY <1>2, <1>3, <1>4, <1>5, <1>6, <1>7, <1>8, <1>9, <1>10, <1>11, <1>12, <1>13, <1>14, <1>15, <1>16,
     <1>17 DEF Next, ReaderStep, AsioStep

(* So it is always.                                                           *)
LEMMA AsioAlways == Spec => []AsioInv
<1>1. Init => AsioInv
  BY DEF Init, AsioInv
<1> QED BY <1>1, AsioInvStep, PTL DEF Spec

(* A timed read takes no byte from the port that it does not deliver, whatever *)
(* order the two handlers are queued in.                                      *)
THEOREM TimedRead == Spec => []TimedReadExact
<1>1. AsioInv => TimedReadExact
  BY DEF AsioInv, TimedReadExact
<1> QED BY <1>1, AsioAlways, PTL

-----------------------------------------------------------------------------
(* io_service::run returns.                                                   *)

(* How many of the two waits and their handlers are still to come.              *)
TimerLeft == CASE timer = "off" -> 0 [] timer = "armed" -> 2 [] OTHER -> 1
ReadLeft  == CASE op = "pending" -> 2 [] op \in {"read", "aborted", "failed"} -> 1 [] OTHER -> 0
Running(n) == phase = "run" /\ TimerLeft + ReadLeft <= n

(* Nothing else adds to them while run lasts.                                  *)
LEMMA RunKept ==
    ASSUME NEW n \in Nat, AsioInv, Running(n), [Next]_vars, ~AsioStep
    PROVE  Running(n)'
<1>1. UNCHANGED <<phase, timer, op>> => Running(n)'
  BY DEF Running, TimerLeft, ReadLeft
<1>2. phase = "run"
  BY DEF Running
<1>3. CASE \E m \in Messages : Send(m)
  BY <1>1, <1>3 DEF Send, asioVars
<1>4. CASE LineFault
  BY <1>1, <1>4 DEF LineFault, Lose, Change, Add, Fault, asioVars
<1>5. CASE Call \/ Fetch \/ TimedOut \/ DeadlinePassed \/ StartTimedRead
  BY <1>2, <1>5 DEF Call, Fetch, TimedOut, DeadlinePassed, StartTimedRead
<1>6. CASE ByteStep
  BY <1>2, <1>6 DEF ByteStep, Search, ToolUnescape, ToolEscape, ToolData, ToolEnd, HostData,
                    HostAdjacent, HostEnd, InHand
<1>7. CASE ReadFails
  <2>1. op = "pending" /\ op' = "failed" /\ UNCHANGED <<phase, timer>>
    BY <1>7 DEF ReadFails
  <2>2. ReadLeft = 2 /\ ReadLeft' = 1 /\ TimerLeft' = TimerLeft /\ TimerLeft \in 0..2
    BY <2>1 DEF ReadLeft, TimerLeft
  <2> QED BY <2>1, <2>2 DEF Running
<1>8. CASE UNCHANGED vars
  BY <1>1, <1>8 DEF vars, asioVars
<1> QED BY <1>3, <1>4, <1>5, <1>6, <1>7, <1>8 DEF Next, ReaderStep

(* Each handler that runs, and each wait that ends, is one less; when none is    *)
(* left run returns.                                                          *)
LEMMA RunNearer ==
    ASSUME NEW n \in Nat, AsioInv, Running(n), AsioStep
    PROVE  phase' # "run" \/ (n > 0 /\ Running(n - 1)')
<1>1. /\ phase = "run" /\ TimerLeft + ReadLeft <= n
      /\ timer \in {"off", "armed", "expired", "cancelled"}
      /\ op \in {"pending", "read", "aborted", "failed", "gotByte", "gotNone", "gotError"}
  BY DEF Running, AsioInv, Operations
<1>2. TimerLeft \in 0..2 /\ ReadLeft \in 0..2
  BY <1>1 DEF TimerLeft, ReadLeft
<1>3. ASSUME phase' = phase, TimerLeft' \in Nat, ReadLeft' \in Nat,
             TimerLeft' + ReadLeft' < TimerLeft + ReadLeft
      PROVE  n > 0 /\ Running(n - 1)'
  <2>1. \A a, b, c, d \in Nat : c + d < a + b /\ a + b <= n => n > 0 /\ c + d <= n - 1
    OBVIOUS
  <2>2. TimerLeft \in Nat /\ ReadLeft \in Nat
    BY <1>2
  <2>3. n > 0 /\ TimerLeft' + ReadLeft' <= n - 1
    BY <1>1, <1>3, <2>1, <2>2
  <2> QED BY <1>1, <1>3, <2>3 DEF Running
<1>4. CASE ByteRead
  <2>1. op = "pending" /\ op' = "read" /\ UNCHANGED <<phase, timer>>
    BY <1>4 DEF ByteRead
  <2>2. ReadLeft = 2 /\ ReadLeft' = 1 /\ TimerLeft' = TimerLeft
    BY <2>1 DEF ReadLeft, TimerLeft
  <2> QED BY <1>2, <1>3, <2>1, <2>2
<1>5. CASE TimerExpires
  <2>1. timer = "armed" /\ timer' = "expired" /\ UNCHANGED <<phase, op>>
    BY <1>5 DEF TimerExpires
  <2>2. TimerLeft = 2 /\ TimerLeft' = 1 /\ ReadLeft' = ReadLeft
    BY <2>1 DEF ReadLeft, TimerLeft
  <2> QED BY <1>2, <1>3, <2>1, <2>2
<1>6. CASE TimerHandler
  <2>1. /\ timer \in {"expired", "cancelled"} /\ timer' = "off" /\ UNCHANGED phase
        /\ op' = op \/ (op = "pending" /\ op' = "aborted")
    BY <1>6 DEF TimerHandler
  <2>2. TimerLeft = 1 /\ TimerLeft' = 0
    BY <2>1 DEF TimerLeft
  <2>3. ReadLeft' = ReadLeft \/ (ReadLeft = 2 /\ ReadLeft' = 1)
    BY <2>1 DEF ReadLeft
  <2> QED BY <1>2, <1>3, <2>1, <2>2, <2>3
<1>7. CASE ReadHandler
  <2>1. /\ op \in {"read", "aborted", "failed"} /\ op' \in {"gotByte", "gotNone", "gotError"}
        /\ timer' = timer \/ (timer = "armed" /\ timer' = "cancelled")
        /\ UNCHANGED phase
    BY <1>7 DEF ReadHandler, Results
  <2>2. ReadLeft = 1 /\ ReadLeft' = 0
    BY <2>1 DEF ReadLeft
  <2>3. TimerLeft' = TimerLeft \/ (TimerLeft = 2 /\ TimerLeft' = 1)
    BY <2>1 DEF TimerLeft
  <2> QED BY <1>2, <1>3, <2>1, <2>2, <2>3
<1>8. CASE RunReturnsByte \/ RunReturnsNone
  BY <1>8 DEF RunReturnsByte, RunReturnsNone, ReturnWithoutFrame
<1> QED BY <1>4, <1>5, <1>6, <1>7, <1>8 DEF AsioStep

(* While run lasts something of it can go on: a wait ends, a handler is queued, or  *)
(* it returns.  No order of the two handlers leaves it a read that nothing ends.   *)
SomethingToRun ==
    phase = "run" =>
        \/ timer = "armed"
        \/ timer \in {"expired", "cancelled"}
        \/ op \in {"read", "aborted", "failed"}
        \/ timer = "off" /\ op \in {"gotByte", "gotNone", "gotError"}

(* In every state, whatever the line and the deadline do.                       *)
THEOREM RunNeverStuck == Spec => []SomethingToRun
<1>1. AsioInv => SomethingToRun
  BY DEF AsioInv, Operations, SomethingToRun
<1> QED BY <1>1, AsioAlways, PTL

(* The fairness of the timed read, with the phase for what is enabled in it:       *)
(* RunNeverStuck.                                                             *)
HandlersCalled == <>[](phase = "run") => []<><<AsioStep>>_vars

(* A timed read returns, with a byte or without, whatever comes on the line and in  *)
(* whatever order its timer and its read operation end.                         *)
THEOREM TimedReadEnds == Spec /\ HandlersCalled => TimedReadReturns
<1>1. AsioInv /\ phase = "run" => Running(4)
  BY DEF AsioInv, Running, TimerLeft, ReadLeft
<1> DEFINE Kept(n) == Running(n) /\ AsioInv /\ [Next]_vars => Running(n)' \/ ~(phase = "run")'
           Nearer(n, m) == Running(n) /\ AsioInv /\ <<AsioStep>>_vars => Running(m)' \/ ~(phase = "run")'
<1>2. \A n \in Nat : Kept(n)
  <2> SUFFICES ASSUME NEW n \in Nat, Running(n), AsioInv, [Next]_vars
               PROVE  Running(n)' \/ ~(phase = "run")'
    OBVIOUS
  <2>1. CASE AsioStep
    <3>1. phase' # "run" \/ (n > 0 /\ Running(n - 1)')
      BY <2>1, RunNearer
    <3>2. n > 0 /\ Running(n - 1)' => Running(n)'
      <4>1. ASSUME Running(n - 1)' PROVE Running(n)'
        <5>1. phase' = "run" /\ (TimerLeft + ReadLeft)' <= n - 1 /\ (TimerLeft + ReadLeft)' \in Int
          BY <4>1 DEF Running, TimerLeft, ReadLeft
        <5> QED BY <5>1 DEF Running
      <4> QED BY <4>1
    <3> QED BY <3>1, <3>2
  <2>2. CASE ~AsioStep
    BY <2>2, RunKept
  <2> QED BY <2>1, <2>2
<1>3. \A n \in Nat : n > 0 => Nearer(n, n - 1)
  BY RunNearer
<1>4. Running(0) /\ AsioInv /\ <<AsioStep>>_vars => ~(phase = "run")'
  BY RunNearer
<1>5. Kept(0) /\ Kept(1) /\ Kept(2) /\ Kept(3) /\ Kept(4)
  BY <1>2
<1>6. Nearer(1, 0) /\ Nearer(2, 1) /\ Nearer(3, 2) /\ Nearer(4, 3)
  BY <1>3
<1>7. (phase # "run") <=> ~(phase = "run")
  OBVIOUS
<1>8. \A n \in Nat : Running(n) => phase = "run"
  BY DEF Running
<1>9. (Running(0) \/ Running(1) \/ Running(2) \/ Running(3) \/ Running(4)) => phase = "run"
  BY <1>8
<1> QED BY <1>1, <1>4, <1>5, <1>6, <1>7, <1>9, AsioAlways, PTL DEF Spec, HandlersCalled, TimedReadReturns

-----------------------------------------------------------------------------
(* The buffer of the decoder.                                                *)
Buffer == DecodedFits /\ \E S : frame \in Seq(S)

(* A step that keeps the frame, or drops it.                                  *)
LEMMA SameBuffer ==
    ASSUME Buffer, reader' = reader, frame' = frame \/ frame' = <<>>
    PROVE  Buffer'
<1>1. MAX_PAYLOAD \in Nat
  BY LimitsAssumption
<1>2. Len(<<>>) = 0 /\ <<>> \in Seq({})
  OBVIOUS
<1>3. CASE frame' = frame
  BY <1>3 DEF Buffer, DecodedFits
<1>4. CASE frame' = <<>>
  <2>1. \E S : frame' \in Seq(S)
    BY <1>2, <1>4
  <2>2. Len(frame') <= MAX_PAYLOAD + 2
    BY <1>1, <1>2, <1>4
  <2> QED BY <2>1, <2>2 DEF Buffer, DecodedFits
<1> QED BY <1>3, <1>4

(* A byte more, where there is room for it.                                   *)
LEMMA OneByte ==
    ASSUME Buffer, reader' = reader, NEW b, frame' = Append(frame, b),
           reader = "tool" => Len(frame) < MAX_PAYLOAD + 2
    PROVE  Buffer'
<1>1. PICK S : frame \in Seq(S)
  BY DEF Buffer
<1>2. frame \in Seq(S \cup {b})
  BY <1>1
<1>3. frame' \in Seq(S \cup {b}) /\ Len(frame') = Len(frame) + 1 /\ Len(frame) \in Nat
  BY <1>2
<1>4. MAX_PAYLOAD \in Nat
  BY LimitsAssumption
<1>5. reader' = "tool" => Len(frame') <= MAX_PAYLOAD + 2
  BY <1>3, <1>4
<1> QED BY <1>3, <1>5 DEF Buffer, DecodedFits

(* What readFrom does with a byte of a frame.                                 *)
LEMMA KeepStep ==
    ASSUME Buffer, reader' = reader, NEW b, Keep(b)
    PROVE  Buffer'
<1>1. CASE Len(frame) >= MAX_PAYLOAD + 2
  BY <1>1, SameBuffer DEF Keep, Restart
<1>2. CASE ~(Len(frame) >= MAX_PAYLOAD + 2)
  <2>1. PICK S : frame \in Seq(S)
    BY DEF Buffer
  <2>2. Len(frame) < MAX_PAYLOAD + 2
    BY <1>2, <2>1, LimitsAssumption
  <2> QED BY <1>2, <2>2, OneByte DEF Keep
<1> QED BY <1>1, <1>2

(* Every step keeps the buffer within its bounds.                             *)
LEMMA BufferStep == Buffer /\ [Next]_vars => Buffer'
<1> SUFFICES ASSUME Buffer, [Next]_vars PROVE Buffer'
  OBVIOUS
<1>1. reader' = reader
  BY SameReader
<1>2. CASE ToolUnescape \/ ToolData
  BY <1>1, <1>2, KeepStep DEF ToolUnescape, ToolData
<1>3. CASE HostData
  BY <1>1, <1>3, SameBuffer, OneByte DEF HostData
<1>4. frame' = frame \/ frame' = <<>> \/ ToolUnescape \/ ToolData \/ HostData
  BY DEF Next, Send, LineFault, Lose, Change, Add, Fault, ReaderStep, Call, Fetch, TimedOut,
         DeadlinePassed, StartTimedRead, ReadFails, ReturnWithoutFrame, AsioStep, ByteRead, TimerExpires,
         TimerHandler, ReadHandler, RunReturnsByte, RunReturnsNone, ByteStep, Search, ToolEscape,
         ToolEnd, HostAdjacent, HostEnd, Restart, callVars, vars
<1> QED BY <1>1, <1>2, <1>3, <1>4, SameBuffer

(* decoded[] of readFrom is never written past its end, whatever bytes come.   *)
THEOREM DecoderWithinBounds == Spec => []DecodedFits
<1>1. Init => Buffer
  <2> SUFFICES ASSUME Init PROVE Buffer
    OBVIOUS
  <2>1. frame = <<>> /\ Len(<<>>) = 0 /\ <<>> \in Seq({})
    BY DEF Init
  <2>2. MAX_PAYLOAD \in Nat
    BY LimitsAssumption
  <2> QED BY <2>1, <2>2 DEF Buffer, DecodedFits
<1>2. Buffer => DecodedFits
  BY DEF Buffer
<1> QED BY <1>1, <1>2, BufferStep, PTL DEF Spec

-----------------------------------------------------------------------------
(* A code as the four bytes of its float.                                     *)
LEMMA CodeBytes ==
    ASSUME NEW n \in Codes
    PROVE  FloatBytes(n) \in Seq(Bytes) /\ Len(FloatBytes(n)) = 4
<1>1. n \in WholeFloats
  BY DEF Codes, NoCode, WholeFloats
<1> QED BY <1>1, FloatTyped

(* The bytes of a payload, float by float.                                     *)
Floats(d, m, N) ==
    /\ d \in Seq(Bytes) /\ Len(d) = 4 * N
    /\ \A k \in 1..N : FloatAt(d, k) = FloatBytes(m[k])

(* One float more.                                                            *)
LEMMA FloatsStep ==
    ASSUME NEW N \in Nat, NEW d, NEW m, Floats(d, m, N), m[N + 1] \in Codes
    PROVE  Floats(d \o FloatBytes(m[N + 1]), m, N + 1)
<1> DEFINE x == FloatBytes(m[N + 1]) e == d \o x
<1>1. x \in Seq(Bytes) /\ Len(x) = 4
  BY CodeBytes
<1>2. d \in Seq(Bytes) /\ Len(d) = 4 * N
  BY DEF Floats
<1> HIDE DEF x
<1>3. e \in Seq(Bytes) /\ Len(e) = 4 * (N + 1)
  <2>1. e \in Seq(Bytes) /\ Len(e) = Len(d) + Len(x)
    BY <1>1, <1>2, ConcatFacts
  <2> HIDE DEF e
  <2> QED BY <1>1, <1>2, <2>1
<1>4. FloatAt(e, N + 1) = x
  <2>1. Rest(e, Len(d)) = x
    BY <1>1, <1>2, ConcatFacts
  <2> HIDE DEF e
  <2>2. 4 * (N + 1) - 3 = Len(d) + 1
    BY <1>2
  <2> QED BY <1>3, <2>1, <2>2 DEF Rest, FloatAt
<1>5. ASSUME NEW k \in 1..N PROVE FloatAt(e, k) = FloatBytes(m[k])
  <2>1. 1 <= 4 * k - 3 /\ 4 * k <= Len(d) /\ 4 * k - 3 \in Nat /\ 4 * k \in Nat
    BY <1>2
  <2>2. SubSeq(d \o x, 4 * k - 3, 4 * k) = SubSeq(d, 4 * k - 3, 4 * k)
    <3> DEFINE i == 4 * k - 3 j == 4 * k
    <3>1. i \in Nat /\ j \in Nat /\ 1 <= i /\ j <= Len(d)
      BY <2>1
    <3> HIDE DEF i, j
    <3>2. SubSeq(d \o x, i, j) = SubSeq(d, i, j)
      BY <1>1, <1>2, <3>1
    <3> QED BY <3>2 DEF i, j
  <2>3. FloatAt(d, k) = FloatBytes(m[k])
    BY DEF Floats
  <2> QED BY <2>2, <2>3 DEF FloatAt
<1>6. ASSUME NEW k \in 1..(N + 1) PROVE FloatAt(e, k) = FloatBytes(m[k])
  <2>1. k = N + 1 \/ k \in 1..N
    OBVIOUS
  <2> HIDE DEF e
  <2> QED BY <1>4, <1>5, <2>1 DEF x
<1> HIDE DEF e
<1>7. Floats(e, m, N + 1)
  BY <1>3, <1>6 DEF Floats
<1> QED BY <1>7 DEF e, x

(* The payload of a command.                                                  *)
LEMMA CommandFloats == \A m \in Commands : Floats(CommandPayload(m), m, 2)
<1> SUFFICES ASSUME NEW m \in Commands PROVE Floats(CommandPayload(m), m, 2)
  OBVIOUS
<1>1. m[1] \in Codes /\ m[2] \in Codes
  BY MessagesAssumption
<1>2. Floats(<<>>, m, 0)
  BY DEF Floats
<1>3. FloatBytes(m[1]) \in Seq(Bytes) /\ <<>> \o FloatBytes(m[1]) = FloatBytes(m[1])
  BY <1>1, CodeBytes
<1>4. 0 + 1 = 1 /\ 1 + 1 = 2 /\ 0 \in Nat /\ 1 \in Nat
  OBVIOUS
<1>5. Floats(<<>> \o FloatBytes(m[1]), m, 1)
  BY <1>1, <1>2, <1>4, FloatsStep
<1>6. Floats(FloatBytes(m[1]) \o FloatBytes(m[2]), m, 2)
  BY <1>1, <1>3, <1>4, <1>5, FloatsStep
<1> QED BY <1>6 DEF CommandPayload

(* The same for addFloat of the firmware, which has room for four.            *)
LEMMA AddFloatStep ==
    ASSUME NEW N \in 0..3, NEW d, NEW m, Floats(d, m, N), m[N + 1] \in Codes
    PROVE  Floats(addFloat(d, m[N + 1]), m, N + 1)
<1>1. Len(d) = 4 * N /\ Len(FloatBytes(m[N + 1])) = 4
  BY CodeBytes DEF Floats
<1>2. ~(Len(d) + Len(FloatBytes(m[N + 1])) > MAX_PAYLOAD)
  BY <1>1, LimitsAssumption
<1>3. addFloat(d, m[N + 1]) = d \o FloatBytes(m[N + 1])
  BY <1>2 DEF addFloat, addBytes
<1>4. N \in Nat
  OBVIOUS
<1> QED BY <1>3, <1>4, FloatsStep

(* The four values of an answer fit the firmware's buffer.                    *)
LEMMA ResponseFloats == \A m \in Responses : Floats(ResponsePayload(m), m, 4)
<1> SUFFICES ASSUME NEW m \in Responses PROVE Floats(ResponsePayload(m), m, 4)
  OBVIOUS
<1>1. m[1] \in Codes /\ m[2] \in Codes /\ m[3] \in Codes /\ m[4] \in Codes
  BY MessagesAssumption
<1> DEFINE d1 == addFloat(<<>>, m[1]) d2 == addFloat(d1, m[2]) d3 == addFloat(d2, m[3])
           d4 == addFloat(d3, m[4])
<1>2. Floats(<<>>, m, 0)
  BY DEF Floats
<1>3. 0 + 1 = 1 /\ 1 + 1 = 2 /\ 2 + 1 = 3 /\ 3 + 1 = 4 /\ 0 \in 0..3 /\ 1 \in 0..3 /\ 2 \in 0..3 /\ 3 \in 0..3
  OBVIOUS
<1> HIDE DEF d1, d2, d3, d4
<1>4. Floats(d1, m, 1)
  BY <1>1, <1>2, <1>3, AddFloatStep DEF d1
<1>5. Floats(d2, m, 2)
  BY <1>1, <1>4, <1>3, AddFloatStep DEF d2
<1>6. Floats(d3, m, 3)
  BY <1>1, <1>5, <1>3, AddFloatStep DEF d3
<1>7. Floats(d4, m, 4)
  BY <1>1, <1>6, <1>3, AddFloatStep DEF d4
<1> QED BY <1>7 DEF ResponsePayload, d1, d2, d3, d4

(* The number of floats the reader's messages have.                            *)
Size == IF reader = "tool" THEN 2 ELSE 4

(* The payload of whatever is sent to this reader.                            *)
LEMMA PayloadFloats == \A m \in Messages : Floats(Payload(m), m, Size)
  BY CommandFloats, ResponseFloats DEF Messages, Payload, Size

(* It is made of bytes, of eight or of at most sixteen.                       *)
LEMMA PayloadTyped ==
    ASSUME NEW m \in Messages
    PROVE  /\ Payload(m) \in Seq(Bytes) /\ Payload(m) # <<>>
           /\ Len(Payload(m)) <= 16 /\ (reader = "tool" => Len(Payload(m)) = 8)
<1>1. Floats(Payload(m), m, Size)
  BY PayloadFloats
<1>2. Payload(m) \in Seq(Bytes) /\ Len(Payload(m)) = 4 * Size
  BY <1>1 DEF Floats
<1>3. 4 * Size <= 16 /\ 4 * Size >= 1 /\ (reader = "tool" => 4 * Size = 8)
  BY DEF Size
<1> QED BY <1>2, <1>3

(* For payloads of that length the three encoders agree.                      *)
LEMMA SameFrame ==
    ASSUME NEW d \in Seq(Bytes), Len(d) <= 16
    PROVE  BridgeBuild(d) = build(d) /\ ArduinoBuild(d, MAX_PAYLOAD) = build(d)
<1>1. Len(d) <= MAX_PAYLOAD /\ MAX_PAYLOAD \in Nat
  BY LimitsAssumption
<1> QED BY <1>1, EncodersAgree

(* Whoever sends it, a message goes out as the same bytes.                     *)
LEMMA OneEncoding ==
    ASSUME NEW m \in Messages
    PROVE  Encodings(m) = {build(Payload(m))}
<1>1. Payload(m) \in Seq(Bytes) /\ Len(Payload(m)) <= 16
  BY PayloadTyped
<1>2. /\ BridgeBuild(Payload(m)) = build(Payload(m))
      /\ ArduinoBuild(Payload(m), MAX_PAYLOAD) = build(Payload(m))
  BY <1>1, SameFrame
<1> QED BY <1>2 DEF Encodings

(* The payloads that come out of the decoders are bytes.                       *)
LEMMA CheckedTyped == \A d \in Seq(Bytes) : CheckedPayload(d) \subseteq Seq(Bytes)
<1> SUFFICES ASSUME NEW d \in Seq(Bytes) PROVE CheckedPayload(d) \subseteq Seq(Bytes)
  OBVIOUS
<1> DEFINE size == Len(d) - 2
<1>1. size \in Int /\ size <= Len(d)
  OBVIOUS
<1>2. size >= 0 => SubSeq(d, 1, size) \in Seq(Bytes)
  BY <1>1
<1> HIDE DEF size
<1>3. CheckedPayload(d) = {} \/ (size >= 0 /\ CheckedPayload(d) = {SubSeq(d, 1, size)})
  BY DEF CheckedPayload, size
<1> QED BY <1>2, <1>3

(* The same for the decoders of the Raspberry programs.                       *)
LEMMA DecodedTyped == frame \in Seq(Bytes) => Decoded \subseteq Seq(Bytes)
<1> SUFFICES ASSUME frame \in Seq(Bytes) PROVE Decoded \subseteq Seq(Bytes)
  OBVIOUS
<1>1. Unescaped(frame).out \in Seq(Bytes)
  BY LoopTypes DEF DecoderStates
<1>2. decodeFromBytes(frame) \subseteq Seq(Bytes)
  BY <1>1, CheckedTyped DEF decodeFromBytes
<1> DEFINE x == <<HEADER>> \o frame \o <<END>>
<1>3. x \in Seq(Bytes)
  BY Flips
<1> HIDE DEF x
<1>4. ASSUME Len(x) >= 4 PROVE SubSeq(x, 2, Len(x) - 1) \in Seq(Bytes)
  BY <1>3, <1>4
<1>5. \A y \in Seq(Bytes) : unescapedCopy(y) \in Seq(Bytes)
  <2> SUFFICES ASSUME NEW y \in Seq(Bytes) PROVE unescapedCopy(y) \in Seq(Bytes)
    OBVIOUS
  <2>1. Unescaped(y).out \in Seq(Bytes) /\ ESCAPE \in Bytes
    BY LoopTypes, Flips DEF DecoderStates
  <2> QED BY <2>1 DEF unescapedCopy
<1>6. unbuild(x) \subseteq Seq(Bytes)
  BY <1>4, <1>5, CheckedTyped DEF unbuild
<1> QED BY <1>2, <1>6 DEF Decoded, x

(* What a call returns is added to what was heard.                            *)
LEMMA ReturnTyped ==
    ASSUME NEW payloads \in SUBSET Seq(Bytes), heard \in Seq(Seq(Bytes)), Return(payloads)
    PROVE  heard' \in Seq(Seq(Bytes))
<1>1. CASE payloads = {}
  BY <1>1 DEF Return
<1>2. CASE payloads # {}
  <2>1. (CHOOSE p \in payloads : TRUE) \in Seq(Bytes)
    BY <1>2
  <2> QED BY <1>2, <2>1 DEF Return
<1> QED BY <1>1, <1>2

-----------------------------------------------------------------------------
(* TypeOK, and the calls: between two calls nothing is kept, and a call is made  *)
(* only while one that ends inside a frame is still allowed.                   *)
CallInv ==
    /\ TypeOK
    /\ phase = "idle" => ~inFrame
    /\ phase # "idle" => cuts < MAX_CUTS

(* What an action that leaves the reader's own state alone has to keep.        *)
LEMMA CallUnchanged ==
    ASSUME CallInv, UNCHANGED <<reader, phase, callVars, heard, cuts>>,
           line' \in Seq(Bytes), byte' \in Bytes,
           timer' \in {"off", "armed", "expired", "cancelled"},
           op' \in {"off"} \cup Operations, expired' \in BOOLEAN,
           sent' \in Seq(Messages), faults' \in 0..MAX_FAULTS, added' \in BOOLEAN,
           taken' \in Nat, handed' \in Nat
    PROVE  CallInv'
<1>1. Messages' = Messages
  BY DEF Messages
<1> QED BY <1>1 DEF CallInv, TypeOK, DecodedFits, callVars

(* A fault leaves bytes on the line.                                          *)
LEMMA LineTyped ==
    ASSUME line \in Seq(Bytes), LineFault
    PROVE  line' \in Seq(Bytes)
<1>1. NoiseBytes \subseteq Bytes /\ MAX_BURST \in Nat
  BY NoiseAssumption, BoundsAssumption
<1>2. ASSUME NEW i \in DOMAIN line, NEW n \in 1..MAX_BURST, i + n <= Len(line) + 1,
             Lose(i, n)
      PROVE  line' \in Seq(Bytes)
  <2>1. i \in 1..Len(line) /\ n \in Nat /\ n >= 1 /\ Len(line) \in Nat
    BY <1>1, <1>2
  <2>2. SubSeq(line, 1, i - 1) \in Seq(Bytes)
    BY <2>1
  <2>3. SubSeq(line, i + n, Len(line)) \in Seq(Bytes)
    BY <2>1
  <2>4. SubSeq(line, 1, i - 1) \o SubSeq(line, i + n, Len(line)) \in Seq(Bytes)
    BY <2>2, <2>3, ConcatFacts
  <2>5. line' = SubSeq(line, 1, i - 1) \o SubSeq(line, i + n, Len(line))
    BY <1>2 DEF Lose, Fault
  <2> QED BY <2>4, <2>5
<1>3. ASSUME NEW i \in DOMAIN line, NEW b \in NoiseBytes, Change(i, b)
      PROVE  line' \in Seq(Bytes)
  BY <1>1, <1>3, ExceptSeq DEF Change, Fault, ReplaceAt
<1>4. ASSUME NEW i \in 1..Len(line) + 1, NEW b \in NoiseBytes, Add(i, b)
      PROVE  line' \in Seq(Bytes)
  <2>1. i \in Nat /\ 1 <= i /\ i <= Len(line) + 1 /\ Len(line) \in Nat /\ b \in Bytes
    BY <1>1
  <2>2. SubSeq(line, 1, i - 1) \in Seq(Bytes) /\ SubSeq(line, i, Len(line)) \in Seq(Bytes)
    BY <2>1
  <2>3. SubSeq(line, 1, i - 1) \o <<b>> \o SubSeq(line, i, Len(line)) \in Seq(Bytes)
    BY <2>1, <2>2
  <2> QED BY <1>4, <2>3 DEF Add, Fault, InsertAt
<1> QED BY <1>2, <1>3, <1>4 DEF LineFault

(* The next byte of the line.                                                 *)
LEMMA HeadTyped ==
    ASSUME line \in Seq(Bytes), line # <<>>
    PROVE  Head(line) \in Bytes /\ Tail(line) \in Seq(Bytes) /\ line = <<Head(line)>> \o Tail(line)
  OBVIOUS

(* A call that ends without a frame.                                          *)
LEMMA EndTyped ==
    ASSUME CallInv, ReturnWithoutFrame, phase # "idle", op' \in {op, "off"}, expired' \in BOOLEAN,
           UNCHANGED <<reader, line, byte, timer, lineHistory, heard, byteHistory>>
    PROVE  CallInv'
<1>1. Messages' = Messages
  BY DEF Messages
<1>2. cuts' \in 0..MAX_CUTS
  BY BoundsAssumption DEF CallInv, TypeOK, ReturnWithoutFrame
<1>3. <<>> \in Seq(Bytes) /\ Len(<<>>) = 0 /\ MAX_PAYLOAD \in Nat
  BY LimitsAssumption
<1>4. frame' = <<>> /\ inFrame' = FALSE /\ escapeNext' = FALSE /\ phase' = "idle"
  BY DEF ReturnWithoutFrame
<1>5. DecodedFits'
  BY <1>3, <1>4 DEF DecodedFits
<1> QED
  BY <1>1, <1>2, <1>3, <1>4, <1>5 DEF CallInv, TypeOK, Phases, lineHistory, byteHistory

(* What the loop does with a byte.                                            *)
LEMMA LoopKeepsTypes ==
    ASSUME CallInv, phase = "step", AfterByte, phase' \in {"reading", "idle"},
           inFrame' \in BOOLEAN, escapeNext' \in BOOLEAN, frame' \in Seq(Bytes), DecodedFits',
           phase' = "idle" => ~inFrame', heard' \in Seq(Seq(Bytes))
    PROVE  CallInv'
<1>1. Messages' = Messages
  BY DEF AfterByte, Messages
<1> QED BY <1>1 DEF CallInv, TypeOK, AfterByte, Phases, asioVars, lineHistory, byteHistory

(* What readFrom keeps are bytes.                                             *)
LEMMA KeepTyped ==
    ASSUME frame \in Seq(Bytes), inFrame, NEW b \in Bytes, Keep(b)
    PROVE  inFrame' \in BOOLEAN /\ escapeNext' \in BOOLEAN /\ frame' \in Seq(Bytes)
<1>1. Append(frame, b) \in Seq(Bytes) /\ <<>> \in Seq(Bytes)
  BY AppendFacts
<1> QED BY <1>1 DEF Keep, Restart

(* The loop of the four readers, action by action.                            *)
LEMMA LoopStep ==
    ASSUME CallInv, DecodedFits', ByteStep
    PROVE  CallInv'
<1> USE DEF InHand
<1>1. /\ frame \in Seq(Bytes) /\ byte \in Bytes /\ heard \in Seq(Seq(Bytes))
      /\ inFrame \in BOOLEAN /\ escapeNext \in BOOLEAN
  BY DEF CallInv, TypeOK
<1>2. <<>> \in Seq(Bytes) /\ Append(frame, byte) \in Seq(Bytes) /\ Flip(byte) \in Bytes
  BY <1>1, FlipTyped, AppendFacts
<1>3. CASE Search
  <2>1. /\ phase = "step" /\ AfterByte /\ phase' = "reading" /\ heard' = heard
        /\ inFrame' \in BOOLEAN /\ escapeNext' = FALSE /\ frame' = <<>>
    BY <1>3 DEF Search, Restart, Continue
  <2> QED BY <1>1, <1>2, <2>1, LoopKeepsTypes
<1>4. ASSUME NEW b \in Bytes, phase = "step", inFrame, Keep(b), Continue, AfterByte PROVE CallInv'
  <2>1. inFrame' \in BOOLEAN /\ escapeNext' \in BOOLEAN /\ frame' \in Seq(Bytes)
    BY <1>1, <1>4, KeepTyped
  <2>2. phase' = "reading" /\ heard' = heard
    BY <1>4 DEF Continue
  <2> QED BY <1>1, <1>4, <2>1, <2>2, LoopKeepsTypes
<1>5. CASE ToolUnescape
  BY <1>2, <1>4, <1>5 DEF ToolUnescape
<1>6. CASE ToolEscape
  <2>1. /\ phase = "step" /\ AfterByte /\ phase' = "reading" /\ heard' = heard
        /\ inFrame' = inFrame /\ escapeNext' = TRUE /\ frame' = frame
    BY <1>6 DEF ToolEscape, Continue
  <2> QED BY <1>1, <2>1, LoopKeepsTypes
<1>7. CASE ToolData
  BY <1>1, <1>4, <1>7 DEF ToolData
<1>8. CASE ToolEnd
  <2>1. phase = "step" /\ AfterByte /\ frame' = <<>> /\ escapeNext' = FALSE
    BY <1>8 DEF ToolEnd, Restart
  <2>2. CASE CheckedPayload(frame) = {}
    <3>1. phase' = "reading" /\ heard' = heard /\ inFrame' = inFrame
      BY <1>8, <2>2 DEF ToolEnd, Continue
    <3> QED BY <1>1, <1>2, <2>1, <3>1, LoopKeepsTypes
  <2>3. CASE CheckedPayload(frame) # {}
    <3>1. Return(CheckedPayload(frame)) /\ inFrame' = FALSE
      BY <1>8, <2>3 DEF ToolEnd
    <3>2. heard' \in Seq(Seq(Bytes)) /\ phase' = "idle"
      <4>1. CheckedPayload(frame) \in SUBSET Seq(Bytes)
        BY <1>1, CheckedTyped
      <4>2. heard' \in Seq(Seq(Bytes))
        BY <1>1, <3>1, <4>1, ReturnTyped
      <4> QED BY <3>1, <4>2 DEF Return
    <3> QED BY <1>2, <2>1, <3>1, <3>2, LoopKeepsTypes
  <2> QED BY <2>2, <2>3
<1>9. CASE HostData
  <2>1. /\ phase = "step" /\ AfterByte /\ phase' = "reading" /\ heard' = heard
        /\ inFrame' \in BOOLEAN /\ escapeNext' = escapeNext /\ frame' \in Seq(Bytes)
    BY <1>1, <1>2, <1>9 DEF HostData, Continue
  <2> QED BY <1>1, <2>1, LoopKeepsTypes
<1>10. CASE HostAdjacent
  <2>1. /\ phase = "step" /\ AfterByte /\ phase' = "reading" /\ heard' = heard
        /\ inFrame' = inFrame /\ escapeNext' = escapeNext /\ frame' = frame
    BY <1>10 DEF HostAdjacent, Continue, callVars
  <2> QED BY <1>1, <2>1, LoopKeepsTypes
<1>11. CASE HostEnd
  <2>1. /\ phase = "step" /\ AfterByte /\ frame' = <<>> /\ escapeNext' = escapeNext
        /\ Return(Decoded) /\ inFrame' = FALSE
    BY <1>11 DEF HostEnd
  <2>2. heard' \in Seq(Seq(Bytes)) /\ phase' = "idle"
    <3>1. Decoded \in SUBSET Seq(Bytes)
      BY <1>1, DecodedTyped
    <3>2. heard' \in Seq(Seq(Bytes))
      BY <1>1, <2>1, <3>1, ReturnTyped
    <3> QED BY <2>1, <3>2 DEF Return
  <2> QED BY <1>1, <1>2, <2>1, <2>2, LoopKeepsTypes
<1> QED BY <1>3, <1>5, <1>6, <1>7, <1>8, <1>9, <1>10, <1>11 DEF ByteStep

(* Every step keeps the types.                                                *)
LEMMA CallInvStep == CallInv /\ DecodedFits' /\ [Next]_vars => CallInv'
<1> SUFFICES ASSUME CallInv, DecodedFits', [Next]_vars PROVE CallInv'
  OBVIOUS
<1>1. /\ line \in Seq(Bytes) /\ byte \in Bytes /\ sent \in Seq(Messages)
      /\ timer \in {"off", "armed", "expired", "cancelled"}
      /\ op \in {"off"} \cup Operations /\ expired \in BOOLEAN
      /\ faults \in 0..MAX_FAULTS /\ added \in BOOLEAN /\ taken \in Nat /\ handed \in Nat
  BY DEF CallInv, TypeOK
<1>2. ASSUME NEW m \in Messages, Send(m) PROVE CallInv'
  <2>1. build(Payload(m)) \in Seq(Bytes)
    BY PayloadTyped, BuildFacts
  <2>2. line' = line \o build(Payload(m))
    BY <1>2, OneEncoding DEF Send
  <2>3. line' \in Seq(Bytes) /\ sent' \in Seq(Messages)
    BY <1>1, <1>2, <2>1, <2>2 DEF Send
  <2> QED BY <1>1, <1>2, <2>3, CallUnchanged DEF Send, asioVars, byteHistory
<1>3. CASE LineFault
  <2>1. line' \in Seq(Bytes)
    BY <1>1, <1>3, LineTyped
  <2>2. /\ UNCHANGED <<reader, phase, byte, callVars, asioVars, sent, heard, cuts, byteHistory>>
        /\ faults < MAX_FAULTS /\ faults' = faults + 1 /\ added' \in {added, TRUE}
    BY <1>3 DEF LineFault, Lose, Change, Add, Fault
  <2>3. faults' \in 0..MAX_FAULTS /\ added' \in BOOLEAN
    <3>1. MAX_FAULTS \in Nat /\ faults \in 0..MAX_FAULTS /\ faults < MAX_FAULTS /\ faults' = faults + 1
      BY <1>1, <2>2, BoundsAssumption
    <3>2. faults' \in 0..MAX_FAULTS
      BY <3>1
    <3>3. added' \in BOOLEAN
      BY <1>1, <2>2
    <3> QED BY <3>2, <3>3
  <2> QED BY <1>1, <2>1, <2>2, <2>3, CallUnchanged DEF asioVars, byteHistory
<1>4. CASE Call
  <2>1. <<>> \in Seq(Bytes) /\ cuts < MAX_CUTS /\ Messages' = Messages
    BY <1>4, BoundsAssumption DEF Call, CallInv, TypeOK, Messages
  <2> QED BY <1>4, <2>1 DEF Call, CallInv, TypeOK, Phases, lineHistory, byteHistory
<1>5. CASE Fetch
  <2>1. Head(line) \in Bytes /\ Tail(line) \in Seq(Bytes) /\ Messages' = Messages
    BY <1>1, <1>5, HeadTyped DEF Fetch, Messages
  <2> QED BY <1>1, <1>5, <2>1 DEF Fetch, CallInv, TypeOK, Phases, callVars, asioVars, lineHistory
<1>6. CASE TimedOut
  BY <1>1, <1>6, EndTyped DEF TimedOut, asioVars
<1>7. CASE DeadlinePassed
  BY <1>1, <1>7, EndTyped DEF DeadlinePassed
<1>8. CASE RunReturnsNone
  BY <1>1, <1>8, EndTyped DEF RunReturnsNone
<1>9. CASE StartTimedRead
  <2>1. Messages' = Messages
    BY <1>9 DEF StartTimedRead, Messages
  <2> QED BY <1>9, <2>1 DEF StartTimedRead, Operations, CallInv, TypeOK, DecodedFits, Phases, callVars,
                            lineHistory, byteHistory
<1>10. CASE ByteRead
  <2>1. Head(line) \in Bytes /\ Tail(line) \in Seq(Bytes)
    BY <1>1, <1>10, HeadTyped DEF ByteRead
  <2>2. op' \in Operations
    BY <1>10 DEF ByteRead, Operations
  <2> QED BY <1>1, <1>10, <2>1, <2>2, CallUnchanged DEF ByteRead, lineHistory
<1>11. CASE TimerExpires
  BY <1>1, <1>11, CallUnchanged DEF TimerExpires, lineHistory, byteHistory
<1>12. CASE TimerHandler
  <2>1. op' \in {"off"} \cup Operations
    BY <1>1, <1>12 DEF TimerHandler, Operations
  <2> QED BY <1>1, <1>12, <2>1, CallUnchanged DEF TimerHandler, lineHistory, byteHistory
<1>13. CASE ReadHandler
  <2>1. op' \in Operations
    BY <1>13 DEF ReadHandler, Results, Operations
  <2> QED BY <1>1, <1>13, <2>1, CallUnchanged DEF ReadHandler, lineHistory, byteHistory
<1>14. CASE RunReturnsByte
  <2>1. Messages' = Messages
    BY <1>14 DEF RunReturnsByte, Messages
  <2> QED BY <1>14, <2>1 DEF RunReturnsByte, CallInv, TypeOK, DecodedFits, Phases, callVars, lineHistory
<1>15. CASE ByteStep
  BY <1>15, LoopStep
<1>16. CASE ReadFails
  <2>1. op' \in Operations
    BY <1>16 DEF ReadFails, Operations
  <2> QED BY <1>1, <1>16, <2>1, CallUnchanged DEF ReadFails, lineHistory, byteHistory
<1>17. CASE UNCHANGED vars
  BY <1>1, <1>17, CallUnchanged DEF vars, asioVars, lineHistory, byteHistory
<1> QED
  BY <1>2, <1>3, <1>4, <1>5, <1>6, <1>7, <1>8, <1>9, <1>10, <1>11, <1>12, <1>13, <1>14, <1>15, <1>16,
     <1>17 DEF Next, ReaderStep, AsioStep

-----------------------------------------------------------------------------
Streams(q) ==
    LET out[n \in 0..Len(q)] == IF n = 0 THEN <<>> ELSE out[n - 1] \o build(q[n])
    IN  out

Stream(q) == Streams(q)[Len(q)]

Queues == Seq(Seq(Bytes))

(* A frame is made of bytes.                                                  *)
LEMMA BuildTyped == \A d \in Seq(Bytes) : build(d) \in Seq(Bytes)
<1> SUFFICES ASSUME NEW d \in Seq(Bytes) PROVE build(d) \in Seq(Bytes)
  OBVIOUS
<1>1. CASE d = <<>>
  BY <1>1 DEF build
<1>2. CASE d # <<>>
  BY <1>2, BuildFacts
<1> QED BY <1>1, <1>2

(* So is what has one more frame at its end.                                  *)
LEMMA NextTyped == \A x \in Seq(Bytes), d \in Seq(Bytes) : x \o build(d) \in Seq(Bytes)
  BY BuildTyped

(* The stream of a queue, frame by frame.                                     *)
LEMMA StreamsLoop ==
    ASSUME NEW q \in Queues
    PROVE  /\ Streams(q)[0] = <<>>
           /\ \A n \in 1..Len(q) : Streams(q)[n] = Streams(q)[n - 1] \o build(q[n])
           /\ \A n \in 0..Len(q) : Streams(q)[n] \in Seq(Bytes)
<1> DEFINE step == [x \in Seq(Bytes) |-> [d \in Seq(Bytes) |-> x \o build(d)]]
           Body(g, n) == IF n = 0 THEN <<>> ELSE g[n - 1] \o build(q[n])
           Loop(g) == g = [n \in 0..Len(q) |-> Body(g, n)]
<1>1. Len(q) \in Nat /\ \A n \in 1..Len(q) : q[n] \in Seq(Bytes)
  BY DEF Queues
<1>2. <<>> \in Seq(Bytes) /\ step \in [Seq(Bytes) -> [Seq(Bytes) -> Seq(Bytes)]]
  BY NextTyped
<1>3. PICK f \in [0..Len(q) -> Seq(Bytes)] :
          f[0] = <<>> /\ \A n \in 1..Len(q) : f[n] = step[f[n - 1]][q[n]]
  <2> HIDE DEF step
  <2>1. Loops(Seq(Bytes), <<>>, step, q) # {}
    BY <1>2, LoopExists DEF Queues
  <2> QED BY <2>1 DEF Loops
<1>4. \A n \in 1..Len(q) : f[n - 1] \in Seq(Bytes) /\ f[n] = f[n - 1] \o build(q[n])
  <2>1. \A n \in 1..Len(q) : n - 1 \in 0..Len(q)
    BY <1>1
  <2> QED BY <1>1, <1>3, <2>1
<1>5. Loop(Streams(q))
  <2>1. \A n \in 0..Len(q) : f[n] = Body(f, n)
    <3>1. \A n \in 0..Len(q) : n = 0 \/ n \in 1..Len(q)
      BY <1>1
    <3> QED BY <1>3, <1>4, <3>1
  <2>2. Loop(f)
    <3> HIDE DEF Body
    <3> QED BY <2>1
  <2>3. Streams(q) = CHOOSE g : Loop(g)
    BY DEF Streams
  <2> HIDE DEF Loop
  <2> QED BY <2>2, <2>3
<1>6. \A n \in 0..Len(q) : Streams(q)[n] = Body(Streams(q), n)
  <2> DEFINE g == Streams(q)
  <2>1. Loop(g)
    BY <1>5
  <2> HIDE DEF g, Body
  <2>2. \A n \in 0..Len(q) : g[n] = Body(g, n)
    BY <2>1
  <2> QED BY <2>2 DEF g
<1>7. /\ Streams(q)[0] = <<>>
      /\ \A n \in 1..Len(q) : Streams(q)[n] = Streams(q)[n - 1] \o build(q[n])
  <2>1. 0 \in 0..Len(q) /\ \A n \in 1..Len(q) : n \in 0..Len(q) /\ n # 0
    BY <1>1
  <2> QED BY <1>6, <2>1
<1>8. \A n \in 0..Len(q) : Streams(q)[n] \in Seq(Bytes)
  <2> DEFINE g == Streams(q)
  <2>1. g[0] \in Seq(Bytes) /\ \A n \in 1..Len(q) : g[n - 1] \in Seq(Bytes) => g[n] \in Seq(Bytes)
    <3>1. g[0] = <<>>
      BY <1>7
    <3>2. ASSUME NEW n \in 1..Len(q), g[n - 1] \in Seq(Bytes) PROVE g[n] \in Seq(Bytes)
      <4>1. g[n] = g[n - 1] \o build(q[n]) /\ q[n] \in Seq(Bytes)
        BY <1>1, <1>7
      <4> HIDE DEF g
      <4> QED BY <3>2, <4>1, NextTyped
    <3> QED BY <3>1, <3>2
  <2>2. \A n \in 0..Len(q) : g[n] \in Seq(Bytes)
    <3> HIDE DEF g
    <3> QED BY <1>1, <2>1, LoopTyped
  <2> QED BY <2>2
<1> QED BY <1>7, <1>8

(* The stream is made of bytes, and is empty when nothing was sent.           *)
LEMMA StreamTyped ==
    /\ \A q \in Queues : Stream(q) \in Seq(Bytes)
    /\ Stream(<<>>) = <<>> /\ <<>> \in Queues
<1>1. <<>> \in Queues /\ Len(<<>>) = 0
  BY DEF Queues
<1>2. \A q \in Queues : Len(q) \in 0..Len(q)
  BY DEF Queues
<1> QED BY <1>1, <1>2, StreamsLoop DEF Stream

(* A frame more, at the end.                                                  *)
LEMMA StreamStep ==
    ASSUME NEW q \in Queues, NEW d \in Seq(Bytes)
    PROVE  Stream(Append(q, d)) = Stream(q) \o build(d) /\ Append(q, d) \in Queues
<1> DEFINE e == Append(q, d)
           f == Streams(e)
           g == Streams(q)
<1>1. e \in Queues /\ Len(e) = Len(q) + 1 /\ \A n \in 1..Len(q) : e[n] = q[n]
  BY AppendFacts DEF Queues
<1>2. Len(q) \in Nat /\ e[Len(q) + 1] = d /\ Len(q) + 1 \in 1..Len(e) /\ 1..Len(q) \subseteq 1..Len(e)
  BY <1>1 DEF Queues
<1>3. StepsAgree(f, g, Len(q))
  <2> HIDE DEF e
  <2> QED BY <1>1, <1>2, StreamsLoop DEF StepsAgree
<1>4. f[Len(q)] = g[Len(q)]
  BY <1>2, <1>3, LoopsAgree
<1>5. f[Len(q) + 1] = f[Len(q)] \o build(d)
  <2> HIDE DEF e
  <2>1. f[Len(q) + 1] = f[(Len(q) + 1) - 1] \o build(e[Len(q) + 1])
    BY <1>1, <1>2, StreamsLoop
  <2>2. (Len(q) + 1) - 1 = Len(q)
    BY <1>2
  <2> QED BY <1>2, <2>1, <2>2
<1> QED BY <1>1, <1>4, <1>5 DEF Stream

(* An element in front of a sequence that gets another one at its end.        *)
LEMMA FrontAppend ==
    ASSUME NEW A, NEW q \in Seq(A), NEW d \in A, NEW b \in A
    PROVE  <<d>> \o Append(q, b) = Append(<<d>> \o q, b)
  OBVIOUS

(* A frame more, in front.                                                    *)
LEMMA StreamFront ==
    ASSUME NEW d \in Seq(Bytes)
    PROVE  \A q \in Queues : Stream(<<d>> \o q) = build(d) \o Stream(q)
<1> DEFINE S == {q \in Queues : Stream(<<d>> \o q) = build(d) \o Stream(q)}
<1>1. <<>> \in S
  <2>1. <<d>> \o <<>> = Append(<<>>, d) /\ <<>> \o build(d) = build(d) /\ build(d) \o <<>> = build(d)
    BY BuildTyped
  <2>2. Stream(Append(<<>>, d)) = <<>> \o build(d)
    BY StreamStep, StreamTyped
  <2> QED BY <2>1, <2>2, StreamTyped
<1>2. ASSUME NEW q \in Seq(Seq(Bytes)), NEW b \in Seq(Bytes), q \in S PROVE Append(q, b) \in S
  <2>1. <<d>> \o q \in Queues /\ q \in Queues
    BY DEF Queues
  <2>2. <<d>> \o Append(q, b) = Append(<<d>> \o q, b)
    BY FrontAppend
  <2>3. Stream(<<d>> \o Append(q, b)) = Stream(<<d>> \o q) \o build(b)
    BY <2>1, <2>2, StreamStep
  <2>4. Stream(Append(q, b)) = Stream(q) \o build(b) /\ Append(q, b) \in Queues
    BY <2>1, StreamStep
  <2>5. (build(d) \o Stream(q)) \o build(b) = build(d) \o (Stream(q) \o build(b))
    <3>1. build(d) \in Seq(Bytes) /\ Stream(q) \in Seq(Bytes) /\ build(b) \in Seq(Bytes)
      BY <2>1, BuildTyped, StreamTyped
    <3> QED BY SMTT(30), <3>1, ConcatBytes
  <2>6. Stream(<<d>> \o q) = build(d) \o Stream(q)
    BY <1>2
  <2> QED BY <2>3, <2>4, <2>5, <2>6
<1>3. Seq(Seq(Bytes)) \subseteq S
  <2> HIDE DEF S
  <2> QED BY <1>1, <1>2, SequenceInduction
<1> QED BY <1>3 DEF Queues

(* What is left of a queue after n frames.                                     *)
LEMMA RestFacts ==
    ASSUME NEW A, NEW q \in Seq(A), NEW n \in 0..Len(q)
    PROVE  /\ Rest(q, n) \in Seq(A) /\ Len(Rest(q, n)) = Len(q) - n
           /\ n = Len(q) => Rest(q, n) = <<>>
           /\ n < Len(q) => q[n + 1] \in A /\ n + 1 \in 0..Len(q)
                            /\ Rest(q, n) = <<q[n + 1]>> \o Rest(q, n + 1)
<1>1. Len(q) \in Nat /\ n \in Nat /\ n <= Len(q)
  OBVIOUS
<1>2. Rest(q, n) \in Seq(A) /\ Len(Rest(q, n)) = Len(q) - n
  BY <1>1 DEF Rest
<1>3. n = Len(q) => Rest(q, n) = <<>>
  BY <1>1 DEF Rest
<1>4. ASSUME n < Len(q)
      PROVE  q[n + 1] \in A /\ n + 1 \in 0..Len(q) /\ Rest(q, n) = <<q[n + 1]>> \o Rest(q, n + 1)
  <2>1. q[n + 1] \in A /\ n + 1 \in 0..Len(q)
    BY <1>1, <1>4
  <2>2. Rest(q, n) = <<q[n + 1]>> \o Rest(q, n + 1)
    BY <1>1, <1>4, <2>1 DEF Rest
  <2> QED BY <2>1, <2>2
<1> QED BY <1>2, <1>3, <1>4

(* What is left of a sequence that has one element more.                       *)
LEMMA RestAppend ==
    ASSUME NEW A, NEW q \in Seq(A), NEW n \in 0..Len(q), NEW x \in A
    PROVE  Rest(q, n) \in Seq(A) /\ Rest(Append(q, x), n) = Append(Rest(q, n), x)
<1>1. Len(q) \in Nat /\ n \in Nat /\ n <= Len(q)
  OBVIOUS
<1>2. Rest(q, n) \in Seq(A) /\ Len(Rest(q, n)) = Len(q) - n
  BY ZenonT(40), RestFacts
<1> DEFINE e == Append(q, x) s == Rest(e, n) t == Append(Rest(q, n), x) N == Len(q) - n
<1>3. /\ e \in Seq(A) /\ Len(e) = Len(q) + 1 /\ e[Len(q) + 1] = x
      /\ \A i \in 1..Len(q) : e[i] = q[i]
  BY AppendFacts
<1>4. /\ t \in Seq(A) /\ Len(t) = N + 1 /\ t[N + 1] = x
      /\ \A i \in 1..N : t[i] = q[n + i]
  <2> DEFINE r == Rest(q, n)
  <2>1. r \in Seq(A) /\ Len(r) = N /\ \A i \in 1..N : r[i] = q[n + i]
    BY <1>1, <1>2 DEF Rest
  <2> HIDE DEF r, N
  <2>2. /\ Append(r, x) \in Seq(A) /\ Len(Append(r, x)) = N + 1 /\ Append(r, x)[N + 1] = x
        /\ \A i \in 1..N : Append(r, x)[i] = r[i]
    BY <2>1, AppendFacts
  <2> QED BY <2>1, <2>2 DEF r
<1> HIDE DEF e
<1>5. s \in Seq(A) /\ Len(s) = N + 1 /\ \A i \in 1..(N + 1) : s[i] = e[n + i]
  BY <1>1, <1>3 DEF Rest
<1>6. ASSUME NEW i \in 1..Len(s) PROVE s[i] = t[i]
  <2>1. s[i] = e[n + i] /\ N \in Nat /\ i \in 1..(N + 1)
    BY <1>1, <1>5
  <2>2. CASE i = N + 1
    <3>1. n + i = Len(q) + 1
      BY <1>1, <2>2
    <3> HIDE DEF s, t
    <3> QED BY <1>3, <1>4, <2>1, <2>2, <3>1
  <2>3. CASE i # N + 1
    <3>1. i \in 1..N /\ n + i \in 1..Len(q)
      BY <1>1, <2>1, <2>3
    <3>2. t[i] = q[n + i]
      <4> HIDE DEF t
      <4> QED BY <1>4, <3>1
    <3>3. e[n + i] = q[n + i]
      BY <1>3, <3>1
    <3> HIDE DEF s, t
    <3> QED BY <2>1, <3>2, <3>3
  <2> QED BY <2>2, <2>3
<1>7. Len(s) = Len(t)
  BY <1>4, <1>5
<1> HIDE DEF s, t
<1>8. s = t
  BY <1>4, <1>5, <1>6, <1>7, SeqEqual
<1>9. Rest(e, n) = Append(Rest(q, n), x)
  BY <1>8 DEF s, t
<1> QED BY <1>2, <1>9 DEF e

(* What comes next on the line: the frame of the next payload.                 *)
LEMMA NextFrame ==
    ASSUME NEW q \in Queues, NEW n \in 0..Len(q), n < Len(q), q[n + 1] # <<>>
    PROVE  Stream(Rest(q, n))
               = <<HEADER>> \o (Inside(q[n + 1]) \o (<<END>> \o Stream(Rest(q, n + 1))))
<1> DEFINE d == q[n + 1] r == Rest(q, n + 1) x == Inside(d) y == Stream(r)
<1>1. d \in Seq(Bytes) /\ Rest(q, n) = <<d>> \o r /\ r \in Queues
  <2>1. n + 1 \in 0..Len(q) /\ d \in Seq(Bytes) /\ Rest(q, n) = <<d>> \o r
    BY RestFacts DEF Queues
  <2>2. r \in Queues
    BY <2>1, RestFacts DEF Queues
  <2> QED BY <2>1, <2>2
<1>2. d # <<>>
  OBVIOUS
<1> HIDE DEF d, r
<1>3. Stream(Rest(q, n)) = build(d) \o y
  BY <1>1, StreamFront
<1>4. build(d) = <<HEADER>> \o x \o <<END>> /\ x \in Seq(Bytes) /\ y \in Seq(Bytes)
  BY <1>1, <1>2, BuildFacts, InsideFacts, StreamTyped
<1>5. <<HEADER>> \in Seq(Bytes) /\ <<END>> \in Seq(Bytes)
  BY Flips
<1> HIDE DEF x, y
<1>6. (<<HEADER>> \o x \o <<END>>) \o y = <<HEADER>> \o (x \o (<<END>> \o y))
  <2>1. x \o <<END>> \in Seq(Bytes) /\ <<END>> \o y \in Seq(Bytes)
    BY <1>4, <1>5
  <2>2. <<HEADER>> \o x \o <<END>> = <<HEADER>> \o (x \o <<END>>)
    BY <1>4, <1>5, ConcatBytes
  <2>3. (<<HEADER>> \o (x \o <<END>>)) \o y = <<HEADER>> \o ((x \o <<END>>) \o y)
    BY <1>4, <1>5, <2>1, ConcatBytes
  <2>4. (x \o <<END>>) \o y = x \o (<<END>> \o y)
    BY <1>4, <1>5, ConcatBytes
  <2> QED BY <2>2, <2>3, <2>4
<1>7. Stream(Rest(q, n)) = <<HEADER>> \o (x \o (<<END>> \o y))
  BY <1>3, <1>4, <1>6
<1> QED BY <1>7 DEF d, r, x, y

-----------------------------------------------------------------------------
(* Two ways to write what begins with one byte.                               *)
LEMMA SameHead ==
    ASSUME NEW A, NEW p \in Seq(A), NEW t \in Seq(A), NEW b \in A, NEW h \in A,
           <<b>> \o p = <<h>> \o t
    PROVE  b = h /\ p = t
<1>1. Head(<<b>> \o p) = b /\ Tail(<<b>> \o p) = p
  OBVIOUS
<1>2. Head(<<h>> \o t) = h /\ Tail(<<h>> \o t) = t
  OBVIOUS
<1> QED BY <1>1, <1>2

-----------------------------------------------------------------------------
(* Where the reader is on the line.                                           *)

(* The bytes the loop of the reader has not seen.                             *)
Pending == IF phase = "step" \/ op \in {"read", "gotByte"} THEN <<byte>> \o line ELSE line

Payloads == [i \in 1..Len(sent) |-> Payload(sent[i])]

(* What the call keeps of the first k bytes of d's frame.                      *)
Keeps(d, k) ==
    IF reader = "tool" THEN Unescapes(Inside(d))[k] = [out |-> frame, escapeNext |-> escapeNext]
                       ELSE frame = SubSeq(Inside(d), 1, k)

NothingKept == frame = <<>> /\ (reader = "tool" => escapeNext = FALSE)

(* n frames have passed and the next one has not begun: the delimiter before it, *)
(* if the call has seen one, was the end of a frame that was cut.  Each of the n   *)
(* was heard or cut, up to a more.                                            *)
Between(n, a) ==
    /\ Pending = Stream(Rest(Payloads, n))
    /\ inFrame => NothingKept /\ reader # "library"
    /\ n <= Len(heard) + cuts + a

(* k bytes of the next frame have passed; the call holds them, or a call that    *)
(* held them has ended.                                                       *)
Ahead(q, k, n) == Rest(Inside(q[n + 1]), k) \o (<<END>> \o Stream(Rest(q, n + 1)))

Within(n, k, a) ==
    /\ n < Len(sent) /\ k \in 0..Len(Inside(Payloads[n + 1]))
    /\ Pending = Ahead(Payloads, k, n)
    /\ IF inFrame THEN Keeps(Payloads[n + 1], k) /\ n <= Len(heard) + cuts + a
                  ELSE reader # "library" /\ n + 1 <= Len(heard) + cuts + a

(* What was heard, h, after its first b are payloads among the first n of q after   *)
(* its first s, in their order.                                               *)
HeardOf(h, b, q, s, n) ==
    \E place \in [(b + 1)..Len(h) -> (s + 1)..n] :
        /\ \A i, j \in (b + 1)..Len(h) : i < j => place[i] < place[j]
        /\ \A i \in (b + 1)..Len(h) : h[i] = q[place[i]]

At(n, b, s, a) ==
    /\ HeardOf(heard, b, Payloads, s, n)
    /\ Between(n, a) \/ \E k \in Nat : Within(n, k, a)

(* The reader has its place on the line; what it heard and what was sent count    *)
(* from the b-th payload and the s-th message on.                              *)
Placed(b, s, a) == \E n \in s..Len(sent) : At(n, b, s, a)

(* On a line without faults they count from the start.                         *)
Undisturbed == faults = 0 => Placed(0, 0, 0)

(* The rest of the state.                                                     *)
LineInv ==
    /\ CallInv
    /\ phase # "run" => op = "off"
    /\ phase = "run" => reader = "keyboard" /\ op \in Operations

-----------------------------------------------------------------------------
(* The order of what was heard survives a frame that passes, heard or not, and one *)
(* that is sent.                                                              *)
LEMMA HeardMore ==
    ASSUME NEW A, NEW h \in Seq(A), NEW q \in Seq(A), NEW b \in Nat, NEW s \in Nat,
           NEW n \in s..Len(q), HeardOf(h, b, q, s, n)
    PROVE  /\ n < Len(q) => HeardOf(h, b, q, s, n + 1) /\ HeardOf(Append(h, q[n + 1]), b, q, s, n + 1)
           /\ \A x \in A : HeardOf(h, b, Append(q, x), s, n)
<1>1. PICK place \in [(b + 1)..Len(h) -> (s + 1)..n] :
          /\ \A i, j \in (b + 1)..Len(h) : i < j => place[i] < place[j]
          /\ \A i \in (b + 1)..Len(h) : h[i] = q[place[i]]
  BY DEF HeardOf
<1>2. Len(h) \in Nat /\ Len(q) \in Nat /\ n \in Nat
  OBVIOUS
<1>3. ASSUME n < Len(q) PROVE HeardOf(h, b, q, s, n + 1)
  <2>1. place \in [(b + 1)..Len(h) -> (s + 1)..(n + 1)]
    BY <1>2
  <2> QED BY <1>1, <2>1 DEF HeardOf
<1>4. ASSUME n < Len(q) PROVE HeardOf(Append(h, q[n + 1]), b, q, s, n + 1)
  <2> DEFINE N == Len(h) e == Append(h, q[n + 1])
             more == [i \in (b + 1)..(N + 1) |-> IF i = N + 1 THEN n + 1 ELSE place[i]]
  <2>1. q[n + 1] \in A
    BY <1>2, <1>4
  <2>2. Len(e) = N + 1 /\ e[N + 1] = q[n + 1] /\ \A i \in (b + 1)..N : e[i] = h[i]
    <3>1. Len(e) = N + 1 /\ e[N + 1] = q[n + 1] /\ \A i \in 1..N : e[i] = h[i]
      BY <2>1, AppendFacts
    <3>2. \A i \in (b + 1)..N : i \in 1..N
      BY <1>2
    <3> QED BY <3>1, <3>2
  <2>3. more \in [(b + 1)..(N + 1) -> (s + 1)..(n + 1)]
    <3>1. ASSUME NEW i \in (b + 1)..(N + 1), i # N + 1 PROVE place[i] \in (s + 1)..(n + 1)
      <4>1. i \in (b + 1)..N
        BY <1>2, <3>1
      <4>2. place[i] \in (s + 1)..n
        BY <4>1
      <4> QED BY <1>2, <4>2
    <3>2. n + 1 \in (s + 1)..(n + 1)
      BY <1>2
    <3> QED BY <3>1, <3>2
  <2>4. ASSUME NEW i \in (b + 1)..(N + 1), NEW j \in (b + 1)..(N + 1), i < j PROVE more[i] < more[j]
    <3>1. i \in (b + 1)..N /\ more[i] = place[i] /\ place[i] \in (s + 1)..n
      BY <1>2, <2>4
    <3>2. CASE j = N + 1
      BY SMTT(40), <1>2, <3>1, <3>2
    <3>3. CASE j # N + 1
      <4>1. j \in (b + 1)..N /\ more[j] = place[j]
        BY <1>2, <3>3
      <4> QED BY <1>1, <2>4, <3>1, <4>1
    <3> QED BY <3>2, <3>3
  <2>5. ASSUME NEW i \in (b + 1)..(N + 1) PROVE e[i] = q[more[i]]
    <3>1. CASE i = N + 1
      BY <2>2, <3>1
    <3>2. CASE i # N + 1
      <4>1. i \in (b + 1)..N /\ more[i] = place[i]
        BY <1>2, <3>2
      <4> HIDE DEF more
      <4> QED BY <1>1, <2>2, <4>1
    <3> QED BY <3>1, <3>2
  <2> HIDE DEF more, e
  <2> QED BY <2>2, <2>3, <2>4, <2>5 DEF HeardOf, e
<1>5. ASSUME NEW x \in A PROVE HeardOf(h, b, Append(q, x), s, n)
  <2>1. \A i \in (s + 1)..n : Append(q, x)[i] = q[i]
    <3>1. \A i \in 1..Len(q) : Append(q, x)[i] = q[i]
      BY AppendFacts
    <3>2. \A i \in (s + 1)..n : i \in 1..Len(q)
      BY <1>2
    <3> QED BY <3>1, <3>2
  <2>2. \A i \in (b + 1)..Len(h) : place[i] \in (s + 1)..n
    OBVIOUS
  <2>3. \A i \in (b + 1)..Len(h) : h[i] = Append(q, x)[place[i]]
    BY <1>1, <2>1, <2>2
  <2> QED BY <1>1, <2>3 DEF HeardOf
<1> QED BY <1>3, <1>4, <1>5

(* Of nothing heard there is nothing to place.                                  *)
LEMMA NothingToPlace ==
    ASSUME NEW h, NEW b \in Nat, b = Len(h), NEW q, NEW s, NEW n
    PROVE  HeardOf(h, b, q, s, n)
<1> DEFINE place == [i \in (b + 1)..Len(h) |-> 0]
<1>1. (b + 1)..Len(h) = {}
  <2>1. (b + 1)..b = {}
    OBVIOUS
  <2> QED BY <2>1
<1>2. place \in [(b + 1)..Len(h) -> (s + 1)..n]
  BY <1>1
<1> HIDE DEF place
<1> QED BY <1>1, <1>2 DEF HeardOf

(* The payloads of what was sent.                                             *)
LEMMA PayloadsTyped ==
    sent \in Seq(Messages) =>
        /\ Payloads \in Queues /\ Len(Payloads) = Len(sent) /\ Len(sent) \in Nat
        /\ \A i \in 1..Len(sent) : /\ Payloads[i] = Payload(sent[i]) /\ sent[i] \in Messages
                                   /\ Payloads[i] \in Seq(Bytes) /\ Payloads[i] # <<>>
                                   /\ Len(Payloads[i]) <= 16 /\ (reader = "tool" => Len(Payloads[i]) = 8)
<1> SUFFICES ASSUME sent \in Seq(Messages)
             PROVE  /\ Payloads \in Queues /\ Len(Payloads) = Len(sent) /\ Len(sent) \in Nat
                    /\ \A i \in 1..Len(sent) :
                          /\ Payloads[i] = Payload(sent[i]) /\ sent[i] \in Messages
                          /\ Payloads[i] \in Seq(Bytes) /\ Payloads[i] # <<>>
                          /\ Len(Payloads[i]) <= 16 /\ (reader = "tool" => Len(Payloads[i]) = 8)
  OBVIOUS
<1>1. \A i \in 1..Len(sent) : sent[i] \in Messages /\ Payload(sent[i]) \in Seq(Bytes)
  BY PayloadTyped
<1>2. Len(sent) \in Nat
  OBVIOUS
<1>3. Payloads \in [1..Len(sent) -> Seq(Bytes)]
  BY <1>1 DEF Payloads
<1>4. Payloads \in Queues /\ Len(Payloads) = Len(sent)
  BY <1>2, <1>3, SeqDef DEF Queues
<1>5. \A i \in 1..Len(sent) : Payloads[i] = Payload(sent[i])
  BY DEF Payloads
<1> QED BY <1>1, <1>2, <1>4, <1>5, PayloadTyped

(* A message more is a payload more.                                          *)
LEMMA PayloadsStep ==
    ASSUME sent \in Seq(Messages), NEW m \in Messages, sent' = Append(sent, m), reader' = reader
    PROVE  Payloads' = Append(Payloads, Payload(m))
<1>1. /\ Payloads \in Queues /\ Len(Payloads) = Len(sent) /\ Len(sent) \in Nat
      /\ \A i \in 1..Len(sent) : Payloads[i] = Payload(sent[i])
  BY PayloadsTyped
<1>2. Payload(m) \in Seq(Bytes)
  BY PayloadTyped
<1> DEFINE e == Append(sent, m) s == [i \in 1..Len(e) |-> Payload(e[i])]
           t == Append(Payloads, Payload(m)) N == Len(sent)
<1>3. Payloads' = s
  BY DEF Payloads, Payload, CommandPayload, ResponsePayload
<1>4. e \in Seq(Messages) /\ Len(e) = N + 1 /\ e[N + 1] = m /\ \A i \in 1..N : e[i] = sent[i]
  BY AppendFacts
<1>5. /\ t \in Seq(Seq(Bytes)) /\ Len(t) = N + 1 /\ t[N + 1] = Payload(m)
      /\ \A i \in 1..N : t[i] = Payloads[i]
  <2> DEFINE q == Payloads d == Payload(m)
  <2>1. q \in Seq(Seq(Bytes)) /\ d \in Seq(Bytes) /\ Len(q) = N
    BY <1>1, <1>2 DEF Queues
  <2> HIDE DEF q, d, N
  <2>2. /\ Append(q, d) \in Seq(Seq(Bytes)) /\ Len(Append(q, d)) = N + 1 /\ Append(q, d)[N + 1] = d
        /\ \A i \in 1..N : Append(q, d)[i] = q[i]
    BY <2>1, AppendFacts
  <2> QED BY <2>2 DEF q, d
<1> HIDE DEF e, t
<1>6. ASSUME NEW i \in 1..(N + 1) PROVE s[i] = t[i] /\ s[i] \in Seq(Bytes)
  <2>1. s[i] = Payload(e[i])
    BY <1>4
  <2>2. e[i] \in Messages
    BY <1>4
  <2>3. i = N + 1 \/ i \in 1..N
    BY <1>1
  <2> HIDE DEF s
  <2> QED BY <1>1, <1>4, <1>5, <2>1, <2>2, <2>3, PayloadTyped
<1>7. s \in Seq(Seq(Bytes)) /\ Len(s) = N + 1
  <2>1. s \in [1..(N + 1) -> Seq(Bytes)] /\ N + 1 \in Nat
    BY <1>1, <1>4, <1>6
  <2> HIDE DEF s
  <2> QED BY <2>1, SeqDef
<1>8. \A i \in 1..Len(s) : s[i] = t[i]
  BY <1>6, <1>7
<1> HIDE DEF s
<1>9. s = t
  BY <1>5, <1>7, <1>8, SeqEqual
<1> QED BY <1>3, <1>9 DEF t

-----------------------------------------------------------------------------
(* The bytes of a frame that have passed and the ones ahead.                   *)
LEMMA AheadFacts ==
    ASSUME NEW q \in Queues, NEW n \in 0..Len(q), n < Len(q), q[n + 1] # <<>>, Len(q[n + 1]) <= 16,
           NEW k \in 0..Len(Inside(q[n + 1]))
    PROVE  /\ Stream(Rest(q, n)) = <<HEADER>> \o Ahead(q, 0, n)
           /\ Ahead(q, k, n) \in Seq(Bytes)
           /\ k < Len(Inside(q[n + 1])) =>
                 /\ Inside(q[n + 1])[k + 1] \in Bytes /\ Inside(q[n + 1])[k + 1] # HEADER
                 /\ k + 1 \in 0..Len(Inside(q[n + 1])) /\ k < 36
                 /\ Ahead(q, k, n) = <<Inside(q[n + 1])[k + 1]>> \o Ahead(q, k + 1, n)
           /\ k = Len(Inside(q[n + 1])) => Ahead(q, k, n) = <<END>> \o Stream(Rest(q, n + 1))
           /\ Stream(Rest(q, n + 1)) \in Seq(Bytes)
<1> DEFINE d == q[n + 1] x == Inside(d) y == <<END>> \o Stream(Rest(q, n + 1)) N == Len(x)
<1>1. d \in Seq(Bytes) /\ n + 1 \in 0..Len(q)
  BY RestFacts DEF Queues
<1>2. Rest(q, n + 1) \in Queues
  BY <1>1, RestFacts DEF Queues
<1>3. Stream(Rest(q, n + 1)) \in Seq(Bytes) /\ y \in Seq(Bytes)
  BY <1>2, StreamTyped, Flips
<1>4. Len(d) <= 16 /\ d # <<>>
  OBVIOUS
<1>5. Stream(Rest(q, n)) = <<HEADER>> \o (x \o y)
  BY NextFrame
<1>6. k \in 0..N
  OBVIOUS
<1> HIDE DEF d
<1>7. /\ x \in Seq(Bytes) /\ N \in (Len(d) + 2)..(2 * (Len(d) + 2))
      /\ \A i \in 1..Len(x) : x[i] # HEADER
  BY <1>1, InsideFacts
<1>8. N \in Nat /\ N <= 36
  <2>1. Len(d) \in Nat
    BY <1>1
  <2>2. N \in (Len(d) + 2)..(2 * (Len(d) + 2)) /\ Len(d) <= 16
    BY <1>4, <1>7
  <2> HIDE DEF N
  <2>3. \A p \in Nat, r \in Int : r \in (p + 2)..(2 * (p + 2)) /\ p <= 16 => r \in Nat /\ r <= 36
    OBVIOUS
  <2> QED BY <2>1, <2>2, <2>3
<1> HIDE DEF x, y
<1>9. Rest(x, 0) = x
  BY <1>7 DEF Rest
<1>10. k \in 0..Len(x)
  BY <1>6
<1>11. /\ Rest(x, k) \in Seq(Bytes) /\ (k = Len(x) => Rest(x, k) = <<>>)
       /\ k < Len(x) => /\ x[k + 1] \in Bytes /\ k + 1 \in 0..Len(x)
                        /\ Rest(x, k) = <<x[k + 1]>> \o Rest(x, k + 1)
  BY <1>7, <1>10, RestFacts
<1>12. Rest(x, k) \o y \in Seq(Bytes)
  BY <1>3, <1>11, ConcatFacts
<1>13. k = Len(x) => Rest(x, k) \o y = y
  BY <1>3, <1>11
<1>14. ASSUME k < Len(x)
       PROVE  /\ x[k + 1] \in Bytes /\ x[k + 1] # HEADER /\ k + 1 \in 0..Len(x) /\ k < 36
              /\ Rest(x, k) \o y = <<x[k + 1]>> \o (Rest(x, k + 1) \o y)
  <2>1. x[k + 1] \in Bytes /\ k + 1 \in 0..Len(x) /\ Rest(x, k) = <<x[k + 1]>> \o Rest(x, k + 1)
    BY <1>11, <1>14
  <2>2. k + 1 \in 1..Len(x) /\ k < 36
    <3>1. Len(x) \in Nat /\ Len(x) <= 36
      BY <1>8
    <3> QED BY SMTT(40), <1>10, <1>14, <3>1
  <2>3. x[k + 1] # HEADER
    BY <1>7, <2>2
  <2>4. Rest(x, k + 1) \in Seq(Bytes) /\ <<x[k + 1]>> \in Seq(Bytes)
    <3>1. Rest(x, k + 1) \in Seq(Bytes)
      BY <1>7, <2>1, RestFacts
    <3> QED BY <2>1, <3>1
  <2>5. (<<x[k + 1]>> \o Rest(x, k + 1)) \o y = <<x[k + 1]>> \o (Rest(x, k + 1) \o y)
    BY SMTT(40), <1>3, <2>4, ConcatBytes
  <2> QED BY <2>1, <2>2, <2>3, <2>5
<1>15. \A j : Ahead(q, j, n) = Rest(x, j) \o y
  BY DEF Ahead, x, y, d
<1> QED BY <1>3, <1>5, <1>9, <1>12, <1>13, <1>14, <1>15 DEF d, x, y

(* A decoder never holds more than at the end.                                 *)
LEMMA OutGrows ==
    ASSUME NEW x \in Seq(Bytes)
    PROVE  \A k \in 0..Len(x) : Len(Unescapes(x)[k].out) <= Len(Unescaped(x).out)
<1> DEFINE g == Unescapes(x) N == Len(x)
           S == {m \in Nat : \A k \in 0..m : Len(g[k].out) <= Len(g[m].out)}
<1>1. /\ \A n \in 1..N : g[n] = Unescape(g[n - 1], x[n])
      /\ \A n \in 0..N : g[n] \in DecoderStates
  BY UnescapesLoop
<1>2. N \in Nat /\ \A n \in 0..N : Len(g[n].out) \in Nat
  BY <1>1 DEF DecoderStates
<1> HIDE DEF g
<1>3. 0 \in S
  <2>1. 0 \in 0..N /\ 0..0 = {0}
    BY <1>2
  <2> QED BY <1>2, <2>1
<1>4. ASSUME NEW m \in 0..(N - 1), m \in S PROVE m + 1 \in S
  <2>1. m \in 0..N /\ m + 1 \in 1..N /\ m + 1 \in 0..N /\ (m + 1) - 1 = m /\ m + 1 \in Nat
    BY <1>2
  <2>2. g[m + 1] = Unescape(g[m], x[m + 1]) /\ g[m] \in DecoderStates
    BY <1>1, <2>1
  <2>3. Len(g[m].out) <= Len(g[m + 1].out)
    BY <2>2 DEF Unescape, DecoderStates
  <2>4. ASSUME NEW k \in 0..(m + 1) PROVE Len(g[k].out) <= Len(g[m + 1].out)
    <3>1. CASE k = m + 1
      BY <1>2, <2>1, <3>1
    <3>2. CASE k # m + 1
      <4>1. k \in 0..m /\ k \in 0..N
        BY <2>1, <3>2
      <4>2. Len(g[k].out) <= Len(g[m].out)
        BY <1>4, <4>1
      <4>3. Len(g[k].out) \in Nat /\ Len(g[m].out) \in Nat /\ Len(g[m + 1].out) \in Nat
        BY <1>2, <2>1, <4>1
      <4>4. \A a, b, c \in Nat : a <= b /\ b <= c => a <= c
        OBVIOUS
      <4> QED BY <2>3, <4>2, <4>3, <4>4, Zenon
    <3> QED BY <3>1, <3>2
  <2> QED BY <2>1, <2>4
<1>5. 0..N \subseteq S
  <2> HIDE DEF S
  <2> QED BY <1>2, <1>3, <1>4, BoundedInduction
<1>6. N \in 0..N
  BY <1>2
<1> QED BY <1>5, <1>6 DEF Unescaped, g

(* What readFrom keeps of a command's frame fits its buffer.                   *)
LEMMA KeptFits ==
    ASSUME NEW d \in Seq(Bytes), Len(d) = 8, NEW k \in 0..Len(Inside(d))
    PROVE  Len(Unescapes(Inside(d))[k].out) <= 10
<1> DEFINE x == Inside(d)
<1>1. x \in Seq(Bytes) /\ Unescaped(x).out = d \o checksum(d)
  <2> DEFINE e == d \o checksum(d)
  <2>1. x \in Seq(Bytes) /\ Unescaped(x) = [out |-> e, escapeNext |-> FALSE]
    BY InsideFacts
  <2> HIDE DEF x, e
  <2>2. Unescaped(x).out = e
    BY <2>1
  <2> QED BY <2>1, <2>2 DEF e
<1>2. Len(d \o checksum(d)) = 10
  <2>1. Len(d \o checksum(d)) = Len(d) + 2
    BY ChecksumAccepted
  <2> QED BY <2>1
<1>3. k \in 0..Len(x)
  OBVIOUS
<1> HIDE DEF x
<1>4. Len(Unescapes(x)[k].out) <= Len(Unescaped(x).out)
  BY <1>1, <1>3, OutGrows
<1> QED BY <1>1, <1>2, <1>4 DEF x

(* A byte of the line is in hand.                                             *)
LEMMA ByteInHand ==
    ASSUME LineInv, ByteStep
    PROVE  /\ Pending = <<byte>> \o line /\ Pending' = line /\ Payloads' = Payloads
           /\ byte \in Bytes /\ line \in Seq(Bytes) /\ frame \in Seq(Bytes)
           /\ phase = "step" /\ cuts' = cuts /\ sent' = sent /\ reader' = reader /\ faults' = faults
           /\ cuts \in Nat /\ heard \in Seq(Seq(Bytes)) /\ sent \in Seq(Messages)
           /\ escapeNext \in BOOLEAN
<1>1. phase = "step" /\ AfterByte /\ phase' \in {"reading", "idle"}
  BY DEF ByteStep, Search, ToolUnescape, ToolEscape, ToolData, ToolEnd, HostData, HostAdjacent,
         HostEnd, InHand, Continue, Return
<1>2. op = "off"
  BY <1>1 DEF LineInv
<1>3. op' = "off" /\ line' = line /\ cuts' = cuts /\ sent' = sent /\ reader' = reader /\ faults' = faults
  BY <1>1, <1>2 DEF AfterByte, asioVars, lineHistory
<1>4. Pending = <<byte>> \o line /\ Pending' = line
  BY <1>1, <1>3 DEF Pending
<1>5. Payloads' = Payloads
  BY <1>3 DEF Payloads, Payload, CommandPayload, ResponsePayload
<1>6. /\ byte \in Bytes /\ line \in Seq(Bytes) /\ frame \in Seq(Bytes) /\ heard \in Seq(Seq(Bytes))
      /\ cuts \in Nat /\ sent \in Seq(Messages) /\ escapeNext \in BOOLEAN
  BY BoundsAssumption DEF LineInv, CallInv, TypeOK
<1> QED BY <1>1, <1>3, <1>4, <1>5, <1>6

-----------------------------------------------------------------------------
(* After all of a queue nothing is left.                                      *)
LEMMA NothingLeft == \A q \in Queues : Rest(q, Len(q)) = <<>>
<1> SUFFICES ASSUME NEW q \in Queues PROVE Rest(q, Len(q)) = <<>>
  OBVIOUS
<1>1. Len(q) \in 0..Len(q)
  BY DEF Queues
<1> QED BY <1>1, RestFacts DEF Queues

(* Where a frame is next, the byte in hand is its first delimiter.              *)
LEMMA FirstByte ==
    ASSUME LineInv, ByteStep, NEW n \in 0..Len(sent), Pending = Stream(Rest(Payloads, n))
    PROVE  /\ n < Len(sent) /\ byte = HEADER /\ byte = END /\ line = Ahead(Payloads, 0, n)
           /\ Inside(Payloads[n + 1]) \in Seq(Bytes) /\ 0 \in 0..Len(Inside(Payloads[n + 1]))
<1> DEFINE q == Payloads
<1>1. /\ Pending = <<byte>> \o line /\ byte \in Bytes /\ line \in Seq(Bytes) /\ sent \in Seq(Messages)
  BY ByteInHand
<1>2. /\ q \in Queues /\ Len(q) = Len(sent) /\ Len(sent) \in Nat
      /\ \A i \in 1..Len(sent) : q[i] \in Seq(Bytes) /\ q[i] # <<>> /\ Len(q[i]) <= 16
  BY <1>1, PayloadsTyped
<1>3. Pending = Stream(Rest(q, n))
  OBVIOUS
<1> HIDE DEF q
<1>4. n < Len(sent)
  <2> SUFFICES ASSUME n = Len(q) PROVE FALSE
    BY <1>2
  <2>1. Rest(q, n) = <<>>
    BY <1>2, NothingLeft
  <2>2. <<byte>> \o line = <<>>
    <3>1. Stream(Rest(q, n)) = <<>>
      BY <2>1, StreamTyped
    <3>2. Pending = <<>>
      BY <1>3, <3>1
    <3> QED BY <1>1, <3>2
  <2>3. Len(<<byte>> \o line) = 1 + Len(line) /\ Len(line) \in Nat
    BY <1>1
  <2> QED BY <2>2, <2>3
<1>5. q[n + 1] # <<>> /\ q[n + 1] \in Seq(Bytes) /\ Len(q[n + 1]) <= 16 /\ n \in 0..Len(q) /\ n < Len(q)
  <2>1. n + 1 \in 1..Len(sent)
    BY <1>2, <1>4
  <2> QED BY <1>2, <1>4, <2>1
<1>6. Inside(q[n + 1]) \in Seq(Bytes) /\ 0 \in 0..Len(Inside(q[n + 1]))
  <2> DEFINE x == Inside(q[n + 1])
  <2>1. x \in Seq(Bytes)
    BY <1>5, InsideFacts
  <2> HIDE DEF x
  <2>2. 0 \in 0..Len(x)
    BY <2>1
  <2> QED BY <2>1, <2>2 DEF x
<1>7. byte = HEADER /\ line = Ahead(q, 0, n)
  <2>1. Stream(Rest(q, n)) = <<HEADER>> \o Ahead(q, 0, n) /\ Ahead(q, 0, n) \in Seq(Bytes)
    BY <1>2, <1>5, <1>6, AheadFacts
  <2> DEFINE t == Ahead(q, 0, n)
  <2>2. t \in Seq(Bytes) /\ <<byte>> \o line = <<HEADER>> \o t /\ HEADER \in Bytes
    BY <1>1, <1>3, <2>1, Flips
  <2> HIDE DEF t
  <2>3. byte = HEADER /\ line = t
    BY <1>1, <2>2, SameHead
  <2> QED BY <2>3 DEF t
<1>8. byte = END
  BY <1>7, Flips
<1> QED BY <1>4, <1>6, <1>7, <1>8 DEF q

(* A call that opens a frame with it has nothing of the frame yet.               *)
LEMMA Opened ==
    ASSUME LineInv, ByteStep, NEW n \in 0..Len(sent), NEW a \in Int,
           Pending = Stream(Rest(Payloads, n)),
           inFrame', frame' = <<>>, reader = "tool" => escapeNext' = FALSE,
           n <= Len(heard') + cuts' + a
    PROVE  Within(n, 0, a)'
<1> DEFINE q == Payloads x == Inside(q[n + 1])
<1>1. Pending' = line /\ q' = q /\ sent' = sent /\ reader' = reader
  BY ByteInHand
<1>2. n < Len(sent) /\ line = Ahead(q, 0, n) /\ x \in Seq(Bytes) /\ 0 \in 0..Len(x)
  BY FirstByte
<1> HIDE DEF q
<1>3. x' = x
  BY <1>1
<1>4. Keeps(q[n + 1], 0)'
  <2> HIDE DEF x
  <2>1. Unescapes(x)[0] = [out |-> <<>>, escapeNext |-> FALSE] /\ SubSeq(x, 1, 0) = <<>>
    BY <1>2, UnescapesLoop DEF NothingRead
  <2>2. IF reader' = "tool" THEN Unescapes(x)[0] = [out |-> frame', escapeNext |-> escapeNext']
                            ELSE frame' = SubSeq(x, 1, 0)
    BY <1>1, <2>1
  <2> QED BY <1>1, <2>2 DEF Keeps, x
<1>5. n < Len(sent') /\ 0 \in 0..Len(x) /\ Pending' = Ahead(q, 0, n)
  BY <1>1, <1>2
<1> QED BY <1>1, <1>3, <1>4, <1>5 DEF Within, q

(* The first byte of a frame opens it for a call that was not in one, and for     *)
(* one that an end of a frame had opened.                                     *)
LEMMA HeaderStep ==
    ASSUME LineInv, ByteStep, NEW n \in 0..Len(sent), NEW a \in Int, Between(n, a)
    PROVE  n < Len(sent) /\ Within(n, 0, a)' /\ heard' = heard
<1>1. cuts' = cuts
  BY ByteInHand
<1>2. /\ Pending = Stream(Rest(Payloads, n)) /\ n <= Len(heard) + cuts + a
      /\ inFrame => frame = <<>> /\ (reader = "tool" => escapeNext = FALSE) /\ reader # "library"
  BY DEF Between, NothingKept
<1>3. n < Len(sent) /\ byte = HEADER /\ byte = END
  BY <1>2, FirstByte
<1>4. /\ inFrame' = TRUE /\ frame' = <<>> /\ (reader = "tool" => escapeNext' = FALSE) /\ heard' = heard
  <2>1. CASE Search
    BY <1>3, <2>1 DEF Search, Restart, Continue
  <2>2. CASE ToolUnescape \/ ToolEscape \/ ToolData \/ HostData \/ HostEnd
    <3>1. ESCAPE # END
      BY Flips
    <3> QED BY <1>2, <1>3, <2>2, <3>1 DEF ToolUnescape, ToolEscape, ToolData, HostData, HostEnd
  <2>3. CASE ToolEnd
    <3>1. frame = <<>>
      BY <1>2, <2>3 DEF ToolEnd
    <3>2. CheckedPayload(frame) = {}
      BY <3>1 DEF CheckedPayload
    <3> QED BY <2>3, <3>2 DEF ToolEnd, Restart, Continue
  <2>4. CASE HostAdjacent
    BY <1>2, <2>4 DEF HostAdjacent, Continue, callVars
  <2> QED BY <2>1, <2>2, <2>3, <2>4 DEF ByteStep
<1>5. n <= Len(heard') + cuts' + a
  BY <1>1, <1>2, <1>4
<1>6. Within(n, 0, a)'
  BY <1>2, <1>4, <1>5, Opened
<1> QED BY <1>3, <1>4, <1>6

(* The payload a frame is made of, and the next byte of the frame.              *)
LEMMA NextByte ==
    ASSUME LineInv, ByteStep, NEW n \in 0..Len(sent), n < Len(sent),
           NEW k \in 0..Len(Inside(Payloads[n + 1])), Pending = Ahead(Payloads, k, n)
    PROVE  /\ Payloads[n + 1] \in Seq(Bytes) /\ Payloads[n + 1] # <<>>
           /\ (reader = "tool" => Len(Payloads[n + 1]) = 8)
           /\ Inside(Payloads[n + 1]) \in Seq(Bytes) /\ k \in Nat
           /\ k < Len(Inside(Payloads[n + 1])) =>
                 /\ byte = Inside(Payloads[n + 1])[k + 1] /\ byte # HEADER /\ byte # END /\ k < 36
                 /\ k + 1 \in 0..Len(Inside(Payloads[n + 1])) /\ line = Ahead(Payloads, k + 1, n)
           /\ k = Len(Inside(Payloads[n + 1])) =>
                 byte = END /\ line = Stream(Rest(Payloads, n + 1)) /\ n + 1 \in 0..Len(sent)
<1> DEFINE q == Payloads d == q[n + 1] x == Inside(d)
<1>1. /\ Pending = <<byte>> \o line /\ sent \in Seq(Messages)
      /\ byte \in Bytes /\ line \in Seq(Bytes)
  BY ByteInHand
<1>2. /\ q \in Queues /\ Len(q) = Len(sent) /\ Len(sent) \in Nat
      /\ \A i \in 1..Len(sent) : /\ q[i] \in Seq(Bytes) /\ q[i] # <<>> /\ Len(q[i]) <= 16
                                 /\ (reader = "tool" => Len(q[i]) = 8)
  BY <1>1, PayloadsTyped
<1>3. k \in 0..Len(x) /\ <<byte>> \o line = Ahead(q, k, n)
  BY <1>1
<1> HIDE DEF q
<1>4. n + 1 \in 1..Len(sent) /\ n \in 0..Len(q) /\ n < Len(q) /\ n + 1 \in 0..Len(sent)
  BY <1>2
<1>5. d \in Seq(Bytes) /\ d # <<>> /\ Len(d) <= 16 /\ (reader = "tool" => Len(d) = 8)
  BY <1>2, <1>4
<1>6. x \in Seq(Bytes) /\ k \in Nat
  <2> HIDE DEF d
  <2>1. x \in Seq(Bytes)
    BY <1>5, InsideFacts
  <2> HIDE DEF x
  <2> QED BY <1>3, <2>1
<1>7. /\ k < Len(x) =>
            /\ x[k + 1] \in Bytes /\ x[k + 1] # HEADER /\ k + 1 \in 0..Len(x) /\ k < 36
            /\ Ahead(q, k, n) = <<x[k + 1]>> \o Ahead(q, k + 1, n)
      /\ k = Len(x) => Ahead(q, k, n) = <<END>> \o Stream(Rest(q, n + 1))
      /\ Stream(Rest(q, n + 1)) \in Seq(Bytes)
  BY <1>2, <1>3, <1>4, <1>5, AheadFacts
<1>8. k < Len(x) => Ahead(q, k + 1, n) \in Seq(Bytes)
  BY <1>2, <1>4, <1>5, <1>7, AheadFacts
<1> HIDE DEF d, x
<1>9. ASSUME k < Len(x)
      PROVE  /\ byte = x[k + 1] /\ byte # HEADER /\ byte # END /\ k < 36
             /\ k + 1 \in 0..Len(x) /\ line = Ahead(q, k + 1, n)
  <2> DEFINE t == Ahead(q, k + 1, n) h == x[k + 1]
  <2>1. t \in Seq(Bytes) /\ h \in Bytes /\ <<byte>> \o line = <<h>> \o t
    BY <1>3, <1>7, <1>8, <1>9
  <2> HIDE DEF t, h
  <2>2. byte = h /\ line = t
    BY <1>1, <2>1, SameHead
  <2> QED BY <1>7, <1>9, <2>2, Flips DEF t, h
<1>10. ASSUME k = Len(x) PROVE byte = END /\ line = Stream(Rest(q, n + 1))
  <2> DEFINE t == Stream(Rest(q, n + 1))
  <2>1. t \in Seq(Bytes) /\ <<byte>> \o line = <<END>> \o t /\ END \in Bytes
    BY <1>3, <1>7, <1>10, Flips
  <2> HIDE DEF t
  <2>2. byte = END /\ line = t
    BY <1>1, <2>1, SameHead
  <2> QED BY <2>2 DEF t
<1> QED BY <1>4, <1>5, <1>6, <1>9, <1>10 DEF q, d, x

(* What holds while k bytes of the next frame have passed.                     *)
LEMMA WithinFacts ==
    ASSUME LineInv, ByteStep, NEW n \in 0..Len(sent), NEW k, NEW a \in Int, Within(n, k, a)
    PROVE  /\ n < Len(sent) /\ k \in 0..Len(Inside(Payloads[n + 1]))
           /\ Pending = Ahead(Payloads, k, n)
           /\ IF inFrame THEN Keeps(Payloads[n + 1], k) /\ n <= Len(heard) + cuts + a
                         ELSE reader # "library" /\ n + 1 <= Len(heard) + cuts + a
  BY DEF Within

(* One element more of a sequence.                                            *)
LEMMA OneMore ==
    ASSUME NEW A, NEW x \in Seq(A), NEW k \in Nat, k < Len(x)
    PROVE  Append(SubSeq(x, 1, k), x[k + 1]) = SubSeq(x, 1, k + 1)
  OBVIOUS

(* A byte of a frame, not its last delimiter.                                  *)
LEMMA DataStep ==
    ASSUME LineInv, ByteStep, NEW n \in 0..Len(sent), NEW k, NEW a \in Int, Within(n, k, a),
           k < Len(Inside(Payloads[n + 1]))
    PROVE  Within(n, k + 1, a)' /\ heard' = heard
<1> DEFINE q == Payloads d == q[n + 1] x == Inside(d)
<1>1. /\ Pending' = line /\ q' = q /\ byte \in Bytes /\ line \in Seq(Bytes) /\ frame \in Seq(Bytes)
      /\ phase = "step" /\ cuts' = cuts /\ sent' = sent /\ reader' = reader /\ escapeNext \in BOOLEAN
  BY ByteInHand
<1>2. /\ n < Len(sent) /\ k \in 0..Len(x) /\ Pending = Ahead(q, k, n)
      /\ IF inFrame THEN Keeps(d, k) /\ n <= Len(heard) + cuts + a
                    ELSE reader # "library" /\ n + 1 <= Len(heard) + cuts + a
  BY WithinFacts
<1>3. k < Len(x)
  OBVIOUS
<1>4. d \in Seq(Bytes) /\ (reader = "tool" => Len(d) = 8) /\ k \in Nat /\ x \in Seq(Bytes)
  BY <1>2, NextByte
<1>5. /\ byte = x[k + 1] /\ byte # HEADER /\ byte # END /\ k < 36
      /\ k + 1 \in 0..Len(x) /\ line = Ahead(q, k + 1, n)
  BY <1>2, <1>3, NextByte
<1> HIDE DEF q
<1>6. d' = d /\ x' = x
  BY <1>1
<1> HIDE DEF d, x
<1>8. CASE ~inFrame
  <2>1. Search
    BY <1>8 DEF ByteStep, ToolUnescape, ToolEscape, ToolData, ToolEnd, HostData, HostAdjacent, HostEnd
  <2>2. inFrame' = FALSE /\ heard' = heard
    BY <1>5, <2>1 DEF Search, Continue
  <2>3. /\ n < Len(sent') /\ k + 1 \in 0..Len(x) /\ Pending' = Ahead(q, k + 1, n) /\ ~inFrame'
        /\ reader' # "library" /\ n + 1 <= Len(heard') + cuts' + a
    BY <1>1, <1>2, <1>5, <1>8, <2>2
  <2>4. Within(n, k + 1, a)'
    BY <1>1, <1>6, <2>3 DEF Within, q, d, x
  <2> QED BY <2>2, <2>4
<1>9. ASSUME inFrame PROVE inFrame' = TRUE /\ heard' = heard /\ Keeps(d, k + 1)'
  <2>1. CASE reader = "tool"
    <3> DEFINE s == Unescapes(x)[k]
    <3>1. s = [out |-> frame, escapeNext |-> escapeNext]
      BY <1>2, <1>9, <2>1 DEF Keeps, x
    <3>2. Unescapes(x)[k + 1] = Unescape(s, byte)
      <4>1. k + 1 \in 1..Len(x) /\ (k + 1) - 1 = k
        BY <1>3, <1>4
      <4>2. Unescapes(x)[k + 1] = Unescape(Unescapes(x)[(k + 1) - 1], x[k + 1])
        BY <1>4, <4>1, UnescapesLoop
      <4> QED BY <1>5, <4>1, <4>2
    <3>3. ~(Len(frame) >= MAX_PAYLOAD + 2)
      <4>1. Len(s.out) <= 10
        BY <1>2, <1>4, <2>1, KeptFits DEF x
      <4> HIDE DEF s
      <4>2. Len(frame) <= 10
        BY <3>1, <4>1
      <4>3. Len(frame) \in Nat
        BY <1>1
      <4> QED BY <4>2, <4>3, LimitsAssumption
    <3> HIDE DEF s
    <3>4. /\ inFrame' = TRUE /\ heard' = heard
          /\ Unescape(s, byte) = [out |-> frame', escapeNext |-> escapeNext']
      <4>1. CASE ToolUnescape
        <5>1. /\ escapeNext = TRUE /\ inFrame' = TRUE /\ heard' = heard
              /\ frame' = Append(frame, Flip(byte)) /\ escapeNext' = FALSE
          BY <1>1, <1>9, <3>3, <4>1 DEF ToolUnescape, Keep, Continue
        <5>2. s.escapeNext = TRUE /\ s.out = frame
          BY <3>1, <5>1
        <5> QED BY <5>1, <5>2 DEF Unescape
      <4>2. CASE ToolEscape
        <5>1. /\ escapeNext = FALSE /\ byte = ESCAPE /\ inFrame' = TRUE /\ heard' = heard
              /\ frame' = frame /\ escapeNext' = TRUE
          BY <1>1, <1>9, <4>2 DEF ToolEscape, Continue
        <5>2. s.escapeNext = FALSE /\ s.out = frame
          BY <3>1, <5>1
        <5> QED BY <5>1, <5>2 DEF Unescape
      <4>3. CASE ToolData
        <5>1. /\ escapeNext = FALSE /\ byte # ESCAPE /\ inFrame' = TRUE /\ heard' = heard
              /\ frame' = Append(frame, byte) /\ escapeNext' = FALSE
          BY <1>1, <1>9, <3>3, <4>3 DEF ToolData, Keep, Continue
        <5>2. s.escapeNext = FALSE /\ s.out = frame
          BY <3>1, <5>1
        <5> QED BY <5>1, <5>2 DEF Unescape
      <4>4. CASE Search \/ ToolEnd \/ HostData \/ HostAdjacent \/ HostEnd
        BY <1>5, <1>9, <2>1, <4>4 DEF Search, ToolEnd, HostData, HostAdjacent, HostEnd
      <4> QED BY <4>1, <4>2, <4>3, <4>4 DEF ByteStep
    <3>5. Keeps(d, k + 1)'
      BY <1>1, <1>6, <2>1, <3>2, <3>4 DEF Keeps, x
    <3> QED BY <3>4, <3>5
  <2>2. CASE reader # "tool"
    <3>1. frame = SubSeq(x, 1, k)
      BY <1>2, <1>9, <2>2 DEF Keeps, x
    <3>2. Len(frame) = k
      BY <1>2, <1>4, <3>1
    <3>3. ~(Len(frame) >= BRIDGE_LIMIT)
      BY <1>4, <1>5, <3>2, LimitsAssumption
    <3>4. HostData
      BY <1>5, <1>9, <2>2 DEF ByteStep, Search, ToolUnescape, ToolEscape, ToolData, ToolEnd, HostAdjacent, HostEnd
    <3>5. inFrame' = TRUE /\ heard' = heard /\ frame' = Append(frame, byte)
      BY <1>9, <3>3, <3>4 DEF HostData, Continue
    <3>6. Append(SubSeq(x, 1, k), x[k + 1]) = SubSeq(x, 1, k + 1)
      BY <1>3, <1>4, OneMore
    <3>7. frame' = SubSeq(x, 1, k + 1)
      BY <1>5, <3>1, <3>5, <3>6
    <3>8. Keeps(d, k + 1)'
      BY <1>1, <1>6, <2>2, <3>7 DEF Keeps, x
    <3> QED BY <3>5, <3>8
  <2> QED BY <2>1, <2>2
<1>10. CASE inFrame
  <2>1. inFrame' = TRUE /\ heard' = heard /\ Keeps(d, k + 1)'
    BY <1>9, <1>10
  <2>2. /\ n < Len(sent') /\ k + 1 \in 0..Len(x) /\ Pending' = Ahead(q, k + 1, n) /\ inFrame'
        /\ n <= Len(heard') + cuts' + a
    BY <1>1, <1>2, <1>5, <1>10, <2>1
  <2>3. Within(n, k + 1, a)'
    BY <1>1, <1>6, <2>1, <2>2 DEF Within, q, d, x
  <2> QED BY <2>1, <2>3
<1> QED BY <1>8, <1>10

-----------------------------------------------------------------------------
(* The frame a call holds to its end is decoded to the payload it was built from. *)
LEMMA FrameTaken ==
    ASSUME LineInv, ByteStep, inFrame, byte = END, NEW d \in Seq(Bytes), d # <<>>,
           Keeps(d, Len(Inside(d)))
    PROVE  inFrame' = FALSE /\ heard' = Append(heard, d)
<1> DEFINE x == Inside(d) e == d \o checksum(d)
<1>1. /\ x \in Seq(Bytes) /\ Len(x) \in (Len(d) + 2)..(2 * (Len(d) + 2)) /\ Len(d) \in Nat
      /\ Unescaped(x) = [out |-> e, escapeNext |-> FALSE]
  BY InsideFacts
<1>2. CheckedPayload(e) = {d}
  BY ChecksumAccepted
<1>3. unbuild(build(d)) = {d} /\ build(d) = <<HEADER>> \o x \o <<END>> /\ SubSeq(build(d), 2, Len(build(d)) - 1) = x
      /\ decodeFromBytes(SubSeq(build(d), 2, Len(build(d)) - 1)) = {d}
  BY FrameRoundTrip, BuildFacts
<1>4. IF reader = "tool" THEN Unescapes(x)[Len(x)] = [out |-> frame, escapeNext |-> escapeNext]
                         ELSE frame = SubSeq(x, 1, Len(x))
  BY DEF Keeps
<1> HIDE DEF x, e
<1>5. (CHOOSE p \in {d} : TRUE) = d /\ {d} # {}
  OBVIOUS
<1>6. CASE reader = "tool"
  <2>1. frame = e /\ escapeNext = FALSE
    BY <1>1, <1>4, <1>6 DEF Unescaped
  <2>2. ToolEnd
    BY <1>6, <2>1
       DEF ByteStep, Search, ToolUnescape, ToolEscape, ToolData, HostData, HostAdjacent, HostEnd,
           END, ESCAPE
  <2>3. Return({d}) /\ inFrame' = FALSE
    BY <1>2, <1>5, <2>1, <2>2 DEF ToolEnd
  <2> QED BY <1>5, <2>3 DEF Return
<1>7. CASE reader # "tool"
  <2>1. frame = x
    BY <1>1, <1>4, <1>7
  <2>2. frame # <<>>
    BY <1>1, <2>1
  <2>3. HostEnd
    BY <1>7, <2>2
       DEF ByteStep, Search, ToolUnescape, ToolEscape, ToolData, ToolEnd, HostData, HostAdjacent
  <2>4. Decoded = {d}
    BY <1>3, <2>1 DEF Decoded
  <2>5. Return({d}) /\ inFrame' = FALSE
    BY <2>3, <2>4 DEF HostEnd
  <2> QED BY <1>5, <2>5 DEF Return
<1> QED BY <1>6, <1>7

(* The last byte of a frame.                                                  *)
LEMMA EndStep ==
    ASSUME LineInv, ByteStep, NEW n \in 0..Len(sent), NEW k, NEW a \in Int, Within(n, k, a),
           k = Len(Inside(Payloads[n + 1]))
    PROVE  /\ Between(n + 1, a)' /\ n + 1 \in 0..Len(sent)
           /\ heard' = heard \/ heard' = Append(heard, Payloads[n + 1])
<1> DEFINE q == Payloads d == q[n + 1] x == Inside(d)
<1>1. /\ Pending' = line /\ q' = q /\ byte \in Bytes /\ line \in Seq(Bytes)
      /\ phase = "step" /\ cuts' = cuts /\ sent' = sent /\ reader' = reader
      /\ heard \in Seq(Seq(Bytes)) /\ cuts \in Nat /\ sent \in Seq(Messages)
  BY ByteInHand
<1>2. /\ n < Len(sent) /\ k \in 0..Len(x) /\ Pending = Ahead(q, k, n)
      /\ IF inFrame THEN Keeps(d, k) /\ n <= Len(heard) + cuts + a
                    ELSE reader # "library" /\ n + 1 <= Len(heard) + cuts + a
  BY WithinFacts
<1>3. k = Len(x)
  OBVIOUS
<1>4. d \in Seq(Bytes) /\ d # <<>>
  BY <1>2, NextByte
<1>5. byte = END /\ line = Stream(Rest(q, n + 1)) /\ n + 1 \in 0..Len(sent)
  BY <1>2, <1>3, NextByte
<1> HIDE DEF q
<1>6. Pending' = Stream(Rest(q, n + 1))
  BY <1>1, <1>5
<1>7. CASE ~inFrame
  <2>1. Search
    BY <1>7 DEF ByteStep, ToolUnescape, ToolEscape, ToolData, ToolEnd, HostData, HostAdjacent, HostEnd
  <2>2. heard' = heard /\ frame' = <<>> /\ escapeNext' = FALSE
    BY <2>1 DEF Search, Continue, Restart
  <2>3. reader' # "library" /\ n + 1 <= Len(heard') + cuts' + a
    BY <1>1, <1>2, <1>7, <2>2
  <2>4. Between(n + 1, a)'
    BY <1>1, <1>6, <2>2, <2>3 DEF Between, NothingKept, q
  <2> QED BY <1>5, <2>2, <2>4
<1>8. CASE inFrame
  <2>1. Keeps(d, Len(Inside(d))) /\ n <= Len(heard) + cuts + a
    BY <1>2, <1>3, <1>8
  <2>2. inFrame' = FALSE /\ heard' = Append(heard, d)
    <3> HIDE DEF d
    <3> QED BY <1>4, <1>5, <1>8, <2>1, FrameTaken
  <2>3. Len(heard') = Len(heard) + 1 /\ Len(heard) \in Nat
    <3>1. heard \in Seq(Seq(Bytes)) /\ d \in Seq(Bytes)
      BY <1>1, <1>4
    <3> HIDE DEF d
    <3>2. Len(Append(heard, d)) = Len(heard) + 1 /\ Len(heard) \in Nat
      BY <3>1, AppendFacts
    <3> QED BY <2>2, <3>2
  <2>4. n + 1 <= Len(heard') + cuts' + a
    BY <1>1, <1>2, <2>1, <2>3
  <2>5. Between(n + 1, a)'
    BY <1>1, <1>6, <2>2, <2>4 DEF Between, q
  <2> QED BY <1>5, <2>2, <2>5 DEF q
<1> QED BY <1>7, <1>8

(* The place of what was heard, when it stays the same and when a payload comes   *)
(* to it.                                                                     *)
LEMMA HeardSteps ==
    ASSUME LineInv, ByteStep, NEW b \in Nat, NEW s \in Nat, NEW n \in s..Len(sent),
           HeardOf(heard, b, Payloads, s, n)
    PROVE  /\ heard' = heard => HeardOf(heard', b, Payloads', s, n)
           /\ n < Len(sent) /\ (heard' = heard \/ heard' = Append(heard, Payloads[n + 1]))
                 => HeardOf(heard', b, Payloads', s, n + 1)
<1> DEFINE q == Payloads
<1>1. q' = q /\ heard \in Seq(Seq(Bytes)) /\ sent \in Seq(Messages)
  BY ByteInHand
<1>2. q \in Queues /\ Len(q) = Len(sent)
  BY <1>1, PayloadsTyped
<1>3. HeardOf(heard, b, q, s, n)
  OBVIOUS
<1> HIDE DEF q
<1>4. heard' = heard => HeardOf(heard', b, q', s, n)
  BY <1>1, <1>3
<1>5. n < Len(sent) => /\ HeardOf(heard, b, q, s, n + 1)
                        /\ HeardOf(Append(heard, q[n + 1]), b, q, s, n + 1)
  BY <1>1, <1>2, <1>3, HeardMore DEF Queues
<1> QED BY <1>1, <1>4, <1>5 DEF q

(* Every byte the loop is given leaves it at a place of the line.               *)
LEMMA ByteStepPlaced ==
    ASSUME LineInv, ByteStep, NEW b \in Nat, NEW s \in Nat, NEW a \in Int, Placed(b, s, a)
    PROVE  Placed(b, s, a)'
<1>1. sent' = sent /\ sent \in Seq(Messages)
  BY ByteInHand
<1>2. PICK n \in s..Len(sent) : At(n, b, s, a)
  BY DEF Placed
<1> SUFFICES \E m \in s..Len(sent') : At(m, b, s, a)'
  BY DEF Placed
<1>0. n \in 0..Len(sent) /\ n \in s..Len(sent')
  BY <1>1
<1>3. HeardOf(heard, b, Payloads, s, n)
  BY <1>2 DEF At
<1>4. CASE Between(n, a)
  <2>1. Within(n, 0, a)' /\ heard' = heard
    BY <1>0, <1>4, HeaderStep
  <2>2. HeardOf(heard', b, Payloads', s, n)
    BY <1>3, <2>1, HeardSteps
  <2>3. 0 \in Nat
    OBVIOUS
  <2>4. At(n, b, s, a)'
    BY <2>1, <2>2, <2>3 DEF At
  <2> QED BY <1>0, <2>4
<1>5. ASSUME NEW k \in Nat, Within(n, k, a) PROVE \E m \in s..Len(sent') : At(m, b, s, a)'
  <2>1. k \in 0..Len(Inside(Payloads[n + 1])) /\ Inside(Payloads[n + 1]) \in Seq(Bytes) /\ n < Len(sent)
    <3>1. n < Len(sent) /\ k \in 0..Len(Inside(Payloads[n + 1])) /\ Pending = Ahead(Payloads, k, n)
      BY <1>0, <1>5, WithinFacts
    <3> QED BY <1>0, <3>1, NextByte
  <2>2. k < Len(Inside(Payloads[n + 1])) \/ k = Len(Inside(Payloads[n + 1]))
    <3> DEFINE x == Inside(Payloads[n + 1])
    <3>1. k \in 0..Len(x) /\ x \in Seq(Bytes)
      BY <2>1
    <3> HIDE DEF x
    <3>2. k < Len(x) \/ k = Len(x)
      BY <3>1
    <3> QED BY <3>2 DEF x
  <2>3. CASE k < Len(Inside(Payloads[n + 1]))
    <3>1. Within(n, k + 1, a)' /\ heard' = heard
      BY <1>0, <1>5, <2>3, DataStep
    <3>2. HeardOf(heard', b, Payloads', s, n) /\ k + 1 \in Nat
      BY <1>3, <3>1, HeardSteps
    <3>3. At(n, b, s, a)'
      BY <3>1, <3>2 DEF At
    <3> QED BY <1>0, <3>3
  <2>4. CASE k = Len(Inside(Payloads[n + 1]))
    <3>1. /\ Between(n + 1, a)' /\ n + 1 \in 0..Len(sent)
          /\ heard' = heard \/ heard' = Append(heard, Payloads[n + 1])
      BY <1>0, <1>5, <2>4, EndStep
    <3>2. HeardOf(heard', b, Payloads', s, n + 1)
      BY <1>3, <2>1, <3>1, HeardSteps
    <3>3. At(n + 1, b, s, a)'
      BY <3>1, <3>2 DEF At
    <3>4. n + 1 \in s..Len(sent')
      BY <1>0, <1>1, <3>1
    <3> QED BY <3>3, <3>4
  <2> QED BY <2>2, <2>3, <2>4
<1> QED BY <1>2, <1>4, <1>5 DEF At

-----------------------------------------------------------------------------
(* A frame more on the line.                                                  *)
LEMMA AheadAppend ==
    ASSUME NEW q \in Queues, NEW x \in Seq(Bytes), NEW n \in 0..Len(q)
    PROVE  /\ Stream(Rest(Append(q, x), n)) = Stream(Rest(q, n)) \o build(x)
           /\ n < Len(q) => /\ Append(q, x)[n + 1] = q[n + 1]
                            /\ \A k \in 0..Len(Inside(q[n + 1])) :
                                  Ahead(Append(q, x), k, n) = Ahead(q, k, n) \o build(x)
<1>1. \A m \in 0..Len(q) : /\ Rest(q, m) \in Queues /\ Stream(Rest(q, m)) \in Seq(Bytes)
                           /\ Stream(Rest(Append(q, x), m)) = Stream(Rest(q, m)) \o build(x)
  <2> SUFFICES ASSUME NEW m \in 0..Len(q)
               PROVE  /\ Rest(q, m) \in Queues /\ Stream(Rest(q, m)) \in Seq(Bytes)
                      /\ Stream(Rest(Append(q, x), m)) = Stream(Rest(q, m)) \o build(x)
    OBVIOUS
  <2>1. Rest(q, m) \in Queues /\ Rest(Append(q, x), m) = Append(Rest(q, m), x)
    <3>1. q \in Seq(Seq(Bytes)) /\ x \in Seq(Bytes)
      BY DEF Queues
    <3>2. Rest(q, m) \in Seq(Seq(Bytes)) /\ Rest(Append(q, x), m) = Append(Rest(q, m), x)
      BY <3>1, RestAppend
    <3> QED BY <3>2 DEF Queues
  <2> DEFINE r == Rest(q, m)
  <2>2. r \in Queues
    BY <2>1
  <2> HIDE DEF r
  <2>3. Stream(Append(r, x)) = Stream(r) \o build(x) /\ Stream(r) \in Seq(Bytes)
    BY <2>2, StreamStep, StreamTyped
  <2> QED BY <2>1, <2>3 DEF r
<1>2. ASSUME n < Len(q)
      PROVE  /\ Append(q, x)[n + 1] = q[n + 1]
             /\ \A k \in 0..Len(Inside(q[n + 1])) :
                   Ahead(Append(q, x), k, n) = Ahead(q, k, n) \o build(x)
  <2>1. n + 1 \in 1..Len(q) /\ n + 1 \in 0..Len(q) /\ q[n + 1] \in Seq(Bytes)
    BY <1>2 DEF Queues
  <2>2. Append(q, x)[n + 1] = q[n + 1]
    BY <2>1, AppendFacts DEF Queues
  <2>3. ASSUME NEW k \in 0..Len(Inside(q[n + 1]))
        PROVE  Ahead(Append(q, x), k, n) = Ahead(q, k, n) \o build(x)
    <3> DEFINE i == Inside(q[n + 1]) r == Rest(i, k) t == Stream(Rest(q, n + 1)) b == build(x)
    <3>1. t \in Seq(Bytes) /\ Stream(Rest(Append(q, x), n + 1)) = t \o b
      BY <1>1, <2>1
    <3>2. i \in Seq(Bytes) /\ b \in Seq(Bytes) /\ <<END>> \in Seq(Bytes)
      BY <2>1, InsideFacts, BuildTyped, Flips
    <3>3. r \in Seq(Bytes)
      <4>1. k \in 0..Len(i)
        OBVIOUS
      <4> HIDE DEF i
      <4> QED BY <3>2, <4>1, RestFacts
    <3>4. /\ Ahead(q, k, n) = r \o (<<END>> \o t)
          /\ Ahead(Append(q, x), k, n) = r \o (<<END>> \o (t \o b))
      BY <2>2, <3>1 DEF Ahead
    <3> HIDE DEF r, t, b
    <3>5. <<END>> \o t \in Seq(Bytes)
      BY <3>1, <3>2
    <3>6. <<END>> \o (t \o b) = (<<END>> \o t) \o b
      BY ZenonT(40), <3>1, <3>2, ConcatBytes
    <3>7. r \o ((<<END>> \o t) \o b) = (r \o (<<END>> \o t)) \o b
      <4> DEFINE y == <<END>> \o t
      <4>1. r \in Seq(Bytes) /\ y \in Seq(Bytes) /\ b \in Seq(Bytes)
        BY <3>2, <3>3, <3>5
      <4> HIDE DEF y
      <4>2. r \o (y \o b) = (r \o y) \o b
        BY SMTT(40), <4>1, ConcatBytes
      <4> QED BY <4>2 DEF y
    <3> QED BY <3>4, <3>6, <3>7 DEF b
  <2> QED BY <2>2, <2>3
<1>3. n \in 0..Len(q)
  OBVIOUS
<1> QED BY <1>1, <1>2, <1>3

(* A frame is sent between two calls.                                         *)
LEMMA SendPlaced ==
    ASSUME LineInv, NEW m \in Messages, Send(m), NEW b \in Nat, NEW s \in Nat, NEW a \in Int,
           Placed(b, s, a)
    PROVE  Placed(b, s, a)'
<1> DEFINE q == Payloads x == Payload(m)
<1>1. /\ phase = "idle" /\ phase' = "idle" /\ op' = op /\ reader' = reader /\ heard' = heard
      /\ cuts' = cuts /\ inFrame' = inFrame /\ faults' = faults /\ sent' = Append(sent, m)
  BY DEF Send, asioVars, callVars
<1>2. op = "off" /\ ~inFrame /\ sent \in Seq(Messages) /\ heard \in Seq(Seq(Bytes))
  BY <1>1 DEF LineInv, CallInv, TypeOK
<1>3. line' = line \o build(x)
  BY OneEncoding DEF Send
<1>4. Pending = line /\ Pending' = line'
  BY <1>1, <1>2 DEF Pending
<1>5. q' = Append(q, x)
  BY <1>1, <1>2, PayloadsStep
<1>6. /\ q \in Queues /\ Len(q) = Len(sent) /\ Len(sent) \in Nat /\ x \in Seq(Bytes)
      /\ \A i \in 1..Len(sent) : q[i] \in Seq(Bytes)
  BY <1>2, PayloadsTyped, PayloadTyped
<1>7. Len(sent') = Len(sent) + 1
  BY <1>1, <1>2
<1> SUFFICES \E n \in s..Len(sent') : At(n, b, s, a)'
  BY DEF Placed
<1>8. PICK n \in s..Len(sent) : At(n, b, s, a)
  BY DEF Placed
<1>9. n \in s..Len(sent')
  BY <1>6, <1>7
<1>10. n \in 0..Len(q) /\ n \in s..Len(q)
  BY <1>6
<1>11. HeardOf(heard, b, q, s, n)
  BY <1>8 DEF At
<1>12. Between(n, a) \/ \E k \in Nat : Within(n, k, a)
  BY <1>8 DEF At
<1> HIDE DEF q, x
<1>13. HeardOf(heard', b, q', s, n)
  <2>1. HeardOf(heard, b, Append(q, x), s, n)
    BY <1>2, <1>6, <1>10, <1>11, HeardMore DEF Queues
  <2> QED BY <1>1, <1>5, <2>1
<1>14. CASE Between(n, a)
  <2>1. line = Stream(Rest(q, n)) /\ n <= Len(heard) + cuts + a
    BY <1>4, <1>14 DEF Between, q
  <2>2. Pending' = Stream(Rest(Append(q, x), n))
    BY <1>3, <1>4, <1>6, <1>10, <2>1, AheadAppend
  <2>3. Between(n, a)'
    BY <1>1, <1>2, <1>5, <2>1, <2>2 DEF Between, q
  <2> QED BY <1>9, <1>13, <2>3 DEF At, q
<1>15. ASSUME NEW k \in Nat, Within(n, k, a) PROVE At(n, b, s, a)'
  <2>1. /\ n < Len(sent) /\ k \in 0..Len(Inside(q[n + 1])) /\ line = Ahead(q, k, n)
        /\ reader # "library" /\ n + 1 <= Len(heard) + cuts + a
    BY <1>2, <1>4, <1>15 DEF Within, q
  <2>2. n < Len(q)
    BY <1>6, <2>1
  <2>3. /\ Append(q, x)[n + 1] = q[n + 1]
        /\ Ahead(Append(q, x), k, n) = Ahead(q, k, n) \o build(x)
    BY <1>6, <1>10, <2>1, <2>2, AheadAppend
  <2>4. Pending' = Ahead(q', k, n)
    BY <1>3, <1>4, <1>5, <2>1, <2>3
  <2>5. k \in 0..Len(Inside(q'[n + 1]))
    BY <1>5, <2>1, <2>3
  <2>6. n < Len(sent')
    BY <1>6, <1>7, <2>1
  <2>7. ~inFrame' /\ reader' # "library" /\ n + 1 <= Len(heard') + cuts' + a
    BY <1>1, <1>2, <2>1
  <2>8. Within(n, k, a)'
    BY <2>4, <2>5, <2>6, <2>7 DEF Within, q
  <2> QED BY <1>13, <2>8 DEF At, q
<1> QED BY <1>9, <1>12, <1>14, <1>15

(* A step that neither sends, disturbs the line nor takes a byte in hand: a byte  *)
(* that is fetched stays ahead of the loop, and a call that ends inside a frame   *)
(* is counted.                                                                *)
Aside ==
    /\ Pending' = Pending /\ sent' = sent /\ reader' = reader /\ heard' = heard /\ faults' = faults
    /\ \/ callVars' = callVars /\ cuts' = cuts
       \/ /\ inFrame' = FALSE
          /\ IF inFrame THEN reader # "library" /\ cuts' = cuts + 1 ELSE cuts' = cuts

(* Such a step leaves the reader where it was on the line.                    *)
LEMMA AsidePlaced ==
    ASSUME LineInv, Aside, NEW b \in Nat, NEW s \in Nat, NEW a \in Int, Placed(b, s, a)
    PROVE  Placed(b, s, a)'
<1> SUFFICES \E n \in s..Len(sent') : At(n, b, s, a)'
  BY DEF Placed
<1>1. PICK n \in s..Len(sent) : At(n, b, s, a)
  BY DEF Placed
<1>2. Payloads' = Payloads
  BY DEF Aside, Payloads, Payload, CommandPayload, ResponsePayload
<1>3. n \in s..Len(sent') /\ HeardOf(heard, b, Payloads, s, n)' /\ n \in Nat
  BY <1>1, <1>2 DEF At, Aside
<1>4. heard \in Seq(Seq(Bytes)) /\ cuts \in Nat /\ Len(heard) \in Nat
  BY BoundsAssumption DEF LineInv, CallInv, TypeOK
<1>5. Pending' = Pending /\ sent' = sent /\ reader' = reader /\ heard' = heard
  BY DEF Aside
<1>6. CASE Between(n, a)
  <2>1. CASE callVars' = callVars /\ cuts' = cuts
    <3>1. inFrame' = inFrame /\ escapeNext' = escapeNext /\ frame' = frame
      BY <2>1 DEF callVars
    <3>2. Between(n, a)'
      BY <1>2, <1>5, <1>6, <2>1, <3>1 DEF Between, NothingKept
    <3> QED BY <1>3, <3>2 DEF At
  <2>2. CASE inFrame' = FALSE /\ cuts' \in {cuts, cuts + 1}
    <3>1. n <= Len(heard) + cuts + a /\ Pending = Stream(Rest(Payloads, n))
      BY <1>6 DEF Between
    <3>2. n <= Len(heard') + cuts' + a
      BY <1>3, <1>4, <1>5, <2>2, <3>1
    <3>3. Between(n, a)'
      BY <1>2, <1>5, <2>2, <3>1, <3>2 DEF Between
    <3> QED BY <1>3, <3>3 DEF At
  <2> QED BY <2>1, <2>2 DEF Aside
<1>7. ASSUME NEW k \in Nat, Within(n, k, a) PROVE At(n, b, s, a)'
  <2> DEFINE d == Payloads[n + 1]
  <2>1. /\ n < Len(sent) /\ k \in 0..Len(Inside(d)) /\ Pending = Ahead(Payloads, k, n)
        /\ IF inFrame THEN Keeps(d, k) /\ n <= Len(heard) + cuts + a
                      ELSE reader # "library" /\ n + 1 <= Len(heard) + cuts + a
    BY <1>7 DEF Within
  <2>2. d' = d
    BY <1>2
  <2>3. CASE callVars' = callVars /\ cuts' = cuts
    <3>1. inFrame' = inFrame /\ escapeNext' = escapeNext /\ frame' = frame
      BY <2>3 DEF callVars
    <3>2. Keeps(d, k) => Keeps(d, k)'
      BY <1>5, <2>2, <3>1 DEF Keeps
    <3>3. Within(n, k, a)'
      BY <1>2, <1>5, <2>1, <2>3, <3>1, <3>2 DEF Within
    <3> QED BY <1>3, <3>3 DEF At
  <2>4. CASE /\ inFrame' = FALSE
             /\ IF inFrame THEN reader # "library" /\ cuts' = cuts + 1 ELSE cuts' = cuts
    <3>1. n + 1 <= Len(heard') + cuts' + a /\ reader' # "library"
      <4>1. CASE inFrame
        <5>1. n <= Len(heard) + cuts + a /\ cuts' = cuts + 1
          BY <2>1, <2>4, <4>1
        <5> QED BY <1>3, <1>4, <1>5, <2>4, <4>1, <5>1
      <4>2. CASE ~inFrame
        BY <1>5, <2>1, <2>4, <4>2
      <4> QED BY <4>1, <4>2
    <3>2. Within(n, k, a)'
      BY <1>2, <1>5, <2>1, <2>4, <3>1 DEF Within
    <3> QED BY <1>3, <3>2 DEF At
  <2> QED BY <2>3, <2>4 DEF Aside
<1> QED BY <1>1, <1>3, <1>6, <1>7 DEF At

-----------------------------------------------------------------------------
(* How a byte comes to the loop, and how a call begins and ends.               *)
LEMMA AsideSteps ==
    ASSUME LineInv,
           \/ Call \/ Fetch \/ TimedOut \/ DeadlinePassed \/ StartTimedRead \/ ReadFails \/ AsioStep
           \/ UNCHANGED vars
    PROVE  Aside
<1>1. line \in Seq(Bytes) /\ (phase = "idle" => ~inFrame)
  BY DEF LineInv, CallInv, TypeOK
<1>2. phase # "run" => op = "off"
  BY DEF LineInv
<1>3. phase = "run" => reader = "keyboard"
  BY DEF LineInv
<1>4. ASSUME ReturnWithoutFrame, reader # "library"
      PROVE  /\ inFrame' = FALSE /\ phase' = "idle"
             /\ IF inFrame THEN reader # "library" /\ cuts' = cuts + 1 ELSE cuts' = cuts
  BY <1>4 DEF ReturnWithoutFrame
<1>5. CASE Call
  BY <1>1, <1>2, <1>5 DEF Call, Aside, Pending, lineHistory
<1>6. CASE Fetch
  <2>1. line = <<Head(line)>> \o Tail(line)
    BY <1>1, <1>6, HeadTyped DEF Fetch
  <2>2. /\ phase = "reading" /\ phase' = "step" /\ byte' = Head(line) /\ line' = Tail(line)
        /\ UNCHANGED <<reader, callVars, op, sent, faults, heard, cuts>>
    BY <1>6 DEF Fetch, asioVars, lineHistory
  <2>3. Pending = line /\ Pending' = line
    BY <1>2, <2>1, <2>2 DEF Pending
  <2> QED BY <2>2, <2>3 DEF Aside
<1>7. CASE TimedOut
  <2>1. /\ phase = "reading" /\ reader # "library" /\ ReturnWithoutFrame
        /\ UNCHANGED <<reader, line, byte, op, sent, faults, heard>>
    BY <1>7 DEF TimedOut, asioVars, lineHistory
  <2> QED BY <1>2, <1>4, <2>1 DEF Aside, Pending
<1>8. CASE DeadlinePassed
  <2>1. /\ phase = "reading" /\ reader # "library" /\ ReturnWithoutFrame
        /\ UNCHANGED <<reader, line, byte, op, sent, faults, heard>>
    BY <1>8 DEF DeadlinePassed, lineHistory
  <2> QED BY <1>2, <1>4, <2>1 DEF Aside, Pending
<1>9. CASE StartTimedRead
  BY <1>2, <1>9 DEF StartTimedRead, Aside, Pending, lineHistory
<1>10. CASE ByteRead
  <2>1. line = <<Head(line)>> \o Tail(line)
    BY <1>1, <1>10, HeadTyped DEF ByteRead
  <2>2. /\ op = "pending" /\ op' = "read" /\ byte' = Head(line) /\ line' = Tail(line)
        /\ UNCHANGED <<reader, phase, callVars, sent, faults, heard, cuts>>
    BY <1>10 DEF ByteRead, lineHistory
  <2>3. Pending = line /\ Pending' = line
    BY <1>2, <2>1, <2>2 DEF Pending
  <2> QED BY <2>2, <2>3 DEF Aside
<1>11. CASE TimerExpires
  BY <1>11 DEF TimerExpires, Aside, Pending, lineHistory
<1>12. CASE TimerHandler
  BY <1>12 DEF TimerHandler, Aside, Pending, lineHistory
<1>13. CASE ReadHandler
  BY <1>13 DEF ReadHandler, Results, Aside, Pending, lineHistory
<1>14. CASE RunReturnsByte
  BY <1>14 DEF RunReturnsByte, Aside, Pending, lineHistory
<1>15. CASE RunReturnsNone
  <2>1. /\ phase = "run" /\ op \in {"gotNone", "gotError"} /\ op' = "off" /\ reader # "library" /\ ReturnWithoutFrame
        /\ UNCHANGED <<reader, line, byte, sent, faults, heard>>
    BY <1>3, <1>15 DEF RunReturnsNone, lineHistory
  <2> QED BY <1>4, <2>1 DEF Aside, Pending
<1>16. CASE ReadFails
  BY <1>16 DEF ReadFails, Aside, Pending, lineHistory
<1>17. CASE UNCHANGED vars
  BY <1>17 DEF vars, asioVars, lineHistory, Aside, Pending
<1> QED
  BY <1>5, <1>6, <1>7, <1>8, <1>9, <1>10, <1>11, <1>12, <1>13, <1>14, <1>15, <1>16, <1>17 DEF AsioStep

(* A faulty line stays one.                                                   *)
LEMMA FaultCounted == LineInv /\ LineFault => faults' # 0 /\ faults' # faults
  BY SMTT(30), BoundsAssumption DEF LineInv, CallInv, TypeOK, LineFault, Lose, Change, Add, Fault

(* No other step counts as a fault.                                           *)
LEMMA FaultsKept ==
    ASSUME LineInv, [Next]_vars, ~LineFault
    PROVE  faults' = faults
<1>1. ASSUME NEW m \in Messages, Send(m) PROVE faults' = faults
  BY <1>1 DEF Send
<1>2. CASE ByteStep
  BY <1>2, ByteInHand
<1>3. CASE \/ Call \/ Fetch \/ TimedOut \/ DeadlinePassed \/ StartTimedRead \/ ReadFails \/ AsioStep
           \/ UNCHANGED vars
  BY <1>3, AsideSteps DEF Aside
<1> QED BY <1>1, <1>2, <1>3 DEF Next, ReaderStep

(* io_service::run is entered for a read of the keyboard controller only.       *)
LEMMA RunStep ==
    ASSUME LineInv, [Next]_vars
    PROVE  /\ phase' # "run" => op' = "off"
           /\ phase' = "run" => /\ reader' = "keyboard"
                                /\ op' \in Operations
<1>1. /\ phase # "run" => op = "off"
      /\ phase = "run" => /\ reader = "keyboard"
                          /\ op \in Operations
  BY DEF LineInv
<1>2. reader' = reader
  BY SameReader
<1>3. ASSUME op' = op, phase' = phase \/ (phase # "run" /\ phase' # "run")
      PROVE  /\ phase' # "run" => op' = "off"
             /\ phase' = "run" => /\ reader' = "keyboard"
                                  /\ op' \in Operations
  BY <1>1, <1>2, <1>3
<1>4. CASE \/ \E m \in Messages : Send(m)
           \/ LineFault \/ Call \/ Fetch \/ TimedOut \/ DeadlinePassed \/ TimerExpires \/ UNCHANGED vars
  <2>1. op' = op /\ (phase' = phase \/ (phase # "run" /\ phase' # "run"))
    BY <1>4
       DEF Send, LineFault, Lose, Change, Add, Fault, Call, Fetch, TimedOut, DeadlinePassed,
           ReturnWithoutFrame, TimerExpires, asioVars, vars
  <2> QED BY <1>3, <2>1
<1>5. CASE ByteStep
  <2>1. op' = op /\ phase # "run" /\ phase' # "run"
    BY <1>5
       DEF ByteStep, Search, ToolUnescape, ToolEscape, ToolData, ToolEnd, HostData, HostAdjacent,
           HostEnd, AfterByte, InHand, Continue, Return, asioVars
  <2> QED BY <1>3, <2>1
<1>6. CASE StartTimedRead
  BY <1>2, <1>6 DEF StartTimedRead, Operations
<1>7. CASE ByteRead \/ ReadFails \/ TimerHandler \/ ReadHandler
  <2>1. phase' = phase /\ (op # "off" => op' \in Operations)
        /\ (op = "off" => op' = "off")
    BY <1>1, <1>7 DEF ByteRead, ReadFails, TimerHandler, ReadHandler, Results, Operations
  <2> QED BY <1>1, <1>2, <2>1
<1>8. CASE RunReturnsByte \/ RunReturnsNone
  BY <1>8 DEF RunReturnsByte, RunReturnsNone, ReturnWithoutFrame
<1> QED BY <1>4, <1>5, <1>6, <1>7, <1>8 DEF Next, ReaderStep, AsioStep

(* Every step keeps to the line.                                              *)
LEMMA LineInvStep == LineInv /\ DecodedFits' /\ [Next]_vars => LineInv'
<1> SUFFICES ASSUME LineInv, DecodedFits', [Next]_vars PROVE LineInv'
  OBVIOUS
<1>1. CallInv'
  BY CallInvStep DEF LineInv
<1>2. /\ phase' # "run" => op' = "off"
      /\ phase' = "run" => /\ reader' = "keyboard"
                           /\ op' \in Operations
  BY RunStep, Zenon
<1> QED BY <1>1, <1>2 DEF LineInv

(* Every step leaves the reader at a place of an undisturbed line.            *)
LEMMA PlacedStep ==
    ASSUME LineInv, [Next]_vars, faults' = faults,
           NEW b \in Nat, NEW s \in Nat, NEW a \in Int, Placed(b, s, a)
    PROVE  Placed(b, s, a)'
<1>1. ASSUME NEW m \in Messages, Send(m) PROVE Placed(b, s, a)'
  BY <1>1, SendPlaced
<1>2. ~LineFault
  BY FaultCounted
<1>3. CASE ByteStep
  BY <1>3, ByteStepPlaced
<1>4. CASE \/ Call \/ Fetch \/ TimedOut \/ DeadlinePassed \/ StartTimedRead \/ ReadFails \/ AsioStep
           \/ UNCHANGED vars
  BY <1>4, AsideSteps, AsidePlaced
<1> QED BY <1>1, <1>2, <1>3, <1>4 DEF Next, ReaderStep

LEMMA UndisturbedStep == LineInv /\ Undisturbed /\ [Next]_vars => Undisturbed'
<1> SUFFICES ASSUME LineInv, Undisturbed, [Next]_vars, faults' = 0 PROVE Placed(0, 0, 0)'
  BY DEF Undisturbed
<1>1. faults' = faults
  <2>1. CASE LineFault
    BY <2>1, FaultCounted
  <2>2. CASE ~LineFault
    BY <2>2, FaultsKept
  <2> QED BY <2>1, <2>2
<1>2. Placed(0, 0, 0)
  BY <1>1 DEF Undisturbed
<1> QED BY <1>1, <1>2, PlacedStep

(* The line at the start: nothing has been sent.                               *)
LEMMA LineInit == Init => LineInv /\ Undisturbed
<1> SUFFICES ASSUME Init PROVE LineInv /\ Undisturbed
  OBVIOUS
<1> USE DEF Init
<1>1. MAX_PAYLOAD \in Nat /\ MAX_FAULTS \in Nat /\ MAX_CUTS \in Nat
  BY LimitsAssumption, BoundsAssumption
<1>2. <<>> \in Seq(Bytes) /\ <<>> \in Seq(Seq(Bytes)) /\ <<>> \in Seq(Messages) /\ Len(<<>>) = 0 /\ 0 \in Bytes
  BY DEF Bytes
<1>3. CallInv
  <2>1. /\ line \in Seq(Bytes) /\ frame \in Seq(Bytes) /\ sent \in Seq(Messages)
        /\ heard \in Seq(Seq(Bytes)) /\ byte \in Bytes
    BY <1>2
  <2>2. Len(frame) <= MAX_PAYLOAD + 2
    BY <1>1, <1>2
  <2>3. faults \in 0..MAX_FAULTS /\ cuts \in 0..MAX_CUTS /\ taken \in Nat /\ handed \in Nat
    BY <1>1
  <2> QED BY <2>1, <2>2, <2>3 DEF CallInv, TypeOK, DecodedFits, Phases
<1>4. LineInv
  BY <1>3 DEF LineInv
<1>5. Undisturbed
  <2>1. Len(Payloads) = 0 /\ Payloads \in Queues
    BY <1>2, PayloadsTyped
  <2>2. Payloads = <<>>
    BY <2>1 DEF Queues
  <2>3. Rest(Payloads, 0) = <<>>
    BY <2>2, <2>1, NothingLeft
  <2>4. Stream(Rest(Payloads, 0)) = <<>>
    BY <2>3, StreamTyped
  <2>5. Pending = <<>>
    BY DEF Pending
  <2>6. Between(0, 0)
    BY <1>2, <2>4, <2>5 DEF Between
  <2>7. HeardOf(heard, 0, Payloads, 0, 0)
    BY <1>2, NothingToPlace
  <2>8. 0 \in 0..Len(sent)
    BY <1>2
  <2> QED BY <2>6, <2>7, <2>8 DEF Undisturbed, Placed, At
<1> QED BY <1>4, <1>5

-----------------------------------------------------------------------------
(* A payload is understood as the message it was made of, and as nothing else.  *)
LEMMA MessageUnderstood == \A m \in Messages : Understood(Payload(m)) = {m}
<1> SUFFICES ASSUME NEW m \in Messages PROVE Understood(Payload(m)) = {m}
  OBVIOUS
<1> DEFINE d == Payload(m)
<1>1. Floats(d, m, Size)
  BY PayloadFloats
<1>2. m \in [1..Size -> Codes]
  BY MessagesAssumption DEF Messages, Size
<1>3. Size \in {2, 4} /\ Size = IF reader = "tool" THEN 2 ELSE 4
  BY DEF Size
<1> HIDE DEF d
<1>4. Len(d) >= 4 * Size
  BY <1>1, <1>3 DEF Floats
<1>5. ASSUME NEW k \in 1..Size
      PROVE  (IF reader = "tool" THEN AvrInt(FloatAt(d, k)) ELSE HostInt(FloatAt(d, k))) = m[k]
  <2>1. FloatAt(d, k) = FloatBytes(m[k]) /\ m[k] \in Codes
    BY <1>1, <1>2 DEF Floats
  <2>2. AvrInt(FloatBytes(m[k])) = m[k] /\ HostInt(FloatBytes(m[k])) = m[k]
    BY <2>1, FloatRoundTrip
  <2> QED BY <2>1, <2>2
<1>6. Values(d, Size) = m
  <2>1. Values(d, Size) = [k \in 1..Size |-> m[k]]
    BY <1>5 DEF Values
  <2>2. m = [k \in 1..Size |-> m[k]]
    BY <1>2
  <2> QED BY <2>1, <2>2
<1>7. Understood(d) = {m}
  BY <1>3, <1>4, <1>6 DEF Understood
<1> QED BY <1>7 DEF d

(* What is heard on an undisturbed line.                                      *)
LEMMA HeardUndisturbed ==
    ASSUME LineInv, Undisturbed, faults = 0
    PROVE  \E n \in 0..Len(sent), place \in [1..Len(heard) -> 1..Len(sent)] :
              /\ At(n, 0, 0, 0)
              /\ \A i, j \in 1..Len(heard) : i < j => place[i] < place[j]
              /\ \A i \in 1..Len(heard) :
                    /\ heard[i] = Payload(sent[place[i]]) /\ sent[place[i]] \in Messages
                    /\ place[i] \in 1..Len(sent)
<1>1. PICK n \in 0..Len(sent) : At(n, 0, 0, 0)
  BY DEF Undisturbed, Placed
<1>2. PICK place \in [1..Len(heard) -> 1..n] :
          /\ \A i, j \in 1..Len(heard) : i < j => place[i] < place[j]
          /\ \A i \in 1..Len(heard) : heard[i] = Payloads[place[i]]
  <2>1. 0 + 1 = 1
    OBVIOUS
  <2> QED BY <1>1, <2>1 DEF At, HeardOf
<1>3. sent \in Seq(Messages) /\ Len(sent) \in Nat
  BY DEF LineInv, CallInv, TypeOK
<1>4. \A i \in 1..Len(sent) : Payloads[i] = Payload(sent[i]) /\ sent[i] \in Messages
  BY <1>3, PayloadsTyped
<1>5. \A i \in 1..Len(heard) : place[i] \in 1..Len(sent)
  BY <1>3
<1>6. place \in [1..Len(heard) -> 1..Len(sent)]
  BY <1>2, <1>5
<1>7. \A i \in 1..Len(heard) : heard[i] = Payload(sent[place[i]]) /\ sent[place[i]] \in Messages
  BY <1>2, <1>4, <1>5
<1> QED BY <1>1, <1>2, <1>5, <1>6, <1>7

(* A reader with a place has heard payloads of the frames before it, in order.*)
LEMMA HeardInOrder == LineInv /\ Undisturbed => InOrder
<1> SUFFICES ASSUME LineInv, Undisturbed, faults = 0
             PROVE  \E place \in [DOMAIN heard -> DOMAIN sent] :
                       /\ \A i, j \in DOMAIN heard : i < j => place[i] < place[j]
                       /\ \A i \in DOMAIN heard : heard[i] = Payload(sent[place[i]])
  BY DEF InOrder
<1>1. DOMAIN heard = 1..Len(heard) /\ DOMAIN sent = 1..Len(sent)
  BY DEF LineInv, CallInv, TypeOK
<1> QED BY <1>1, HeardUndisturbed

(* They are understood as what was sent.                                      *)
LEMMA HeardWasSent == LineInv /\ Undisturbed /\ faults = 0 => OnlySent
<1> SUFFICES ASSUME LineInv, Undisturbed, faults = 0, NEW m \in UnderstoodMessages
             PROVE  m \in ToSet(sent)
  BY DEF OnlySent
<1>1. DOMAIN heard = 1..Len(heard) /\ DOMAIN sent = 1..Len(sent)
  BY DEF LineInv, CallInv, TypeOK
<1>2. PICK i \in 1..Len(heard) : m \in Understood(heard[i])
  BY <1>1 DEF UnderstoodMessages
<1>3. PICK p \in 1..Len(sent) : heard[i] = Payload(sent[p]) /\ sent[p] \in Messages
  BY HeardUndisturbed
<1>4. m = sent[p]
  BY <1>2, <1>3, MessageUnderstood
<1> QED BY <1>1, <1>4 DEF ToSet

(* While a frame is not over, bytes of it are ahead.                            *)
LEMMA FrameAhead ==
    ASSUME sent \in Seq(Messages), NEW n \in 0..Len(sent), n < Len(sent),
           NEW k \in 0..Len(Inside(Payloads[n + 1]))
    PROVE  Ahead(Payloads, k, n) # <<>> /\ Stream(Rest(Payloads, n)) # <<>>
<1> DEFINE q == Payloads x == Inside(q[n + 1])
<1>1. /\ q \in Queues /\ Len(q) = Len(sent) /\ Len(sent) \in Nat
      /\ \A i \in 1..Len(sent) : q[i] \in Seq(Bytes) /\ q[i] # <<>> /\ Len(q[i]) <= 16
  BY PayloadsTyped
<1>2. k \in 0..Len(x)
  OBVIOUS
<1> HIDE DEF q
<1>3. /\ n \in 0..Len(q) /\ n < Len(q) /\ q[n + 1] \in Seq(Bytes) /\ q[n + 1] # <<>>
      /\ Len(q[n + 1]) <= 16
  <2>1. n + 1 \in 1..Len(sent)
    BY <1>1
  <2> QED BY <1>1, <2>1
<1>4. x \in Seq(Bytes)
  BY <1>3, InsideFacts
<1>5. 0 \in 0..Len(x) /\ (k < Len(x) \/ k = Len(x))
  <2> HIDE DEF x
  <2> QED BY <1>2, <1>4
<1>6. \A b \in Bytes, y \in Seq(Bytes) : <<b>> \o y # <<>>
  <2> SUFFICES ASSUME NEW b \in Bytes, NEW y \in Seq(Bytes) PROVE <<b>> \o y # <<>>
    OBVIOUS
  <2>1. Len(<<b>> \o y) = 1 + Len(y) /\ Len(y) \in Nat
    OBVIOUS
  <2>2. Len(<<>>) = 0
    OBVIOUS
  <2> QED BY <2>1, <2>2
<1>7. Stream(Rest(q, n)) # <<>>
  <2>1. Stream(Rest(q, n)) = <<HEADER>> \o Ahead(q, 0, n) /\ Ahead(q, 0, n) \in Seq(Bytes)
    BY <1>1, <1>3, <1>5, AheadFacts
  <2> QED BY <1>6, <2>1, Flips
<1>8. /\ k < Len(x) => /\ x[k + 1] \in Bytes /\ k + 1 \in 0..Len(x)
                        /\ Ahead(q, k, n) = <<x[k + 1]>> \o Ahead(q, k + 1, n)
      /\ k = Len(x) => Ahead(q, k, n) = <<END>> \o Stream(Rest(q, n + 1))
      /\ Stream(Rest(q, n + 1)) \in Seq(Bytes)
  BY <1>1, <1>2, <1>3, AheadFacts
<1>9. ASSUME k < Len(x) PROVE Ahead(q, k, n) # <<>>
  <2>1. Ahead(q, k + 1, n) \in Seq(Bytes)
    BY <1>1, <1>3, <1>8, <1>9, AheadFacts
  <2> HIDE DEF x
  <2> QED BY <1>6, <1>8, <1>9, <2>1
<1>10. ASSUME k = Len(x) PROVE Ahead(q, k, n) # <<>>
  <2> HIDE DEF x
  <2> QED BY <1>6, <1>8, <1>10, Flips
<1> QED BY <1>5, <1>7, <1>9, <1>10 DEF q

(* All of the line has passed: so have all frames.                             *)
LEMMA AllPassed ==
    ASSUME LineInv, NEW n \in 0..Len(sent), NEW a \in Int,
           Between(n, a) \/ (\E k \in Nat : Within(n, k, a)),
           line = <<>>, phase \in {"idle", "reading"}
    PROVE  Len(sent) <= Len(heard) + cuts + a
<1>1. Pending = <<>> /\ sent \in Seq(Messages) /\ Len(sent) \in Nat
  BY DEF Pending, LineInv, CallInv, TypeOK
<1>2. CASE Between(n, a)
  <2>1. Stream(Rest(Payloads, n)) = <<>> /\ n <= Len(heard) + cuts + a
    BY <1>1, <1>2 DEF Between
  <2>2. ASSUME n < Len(sent) PROVE FALSE
    <3>1. 0 \in 0..Len(Inside(Payloads[n + 1]))
      <4>1. Payloads[n + 1] \in Seq(Bytes)
        BY <1>1, <2>2, PayloadsTyped
      <4> DEFINE x == Inside(Payloads[n + 1])
      <4>2. x \in Seq(Bytes)
        BY <4>1, InsideFacts
      <4> HIDE DEF x
      <4>3. 0 \in 0..Len(x)
        BY <4>2
      <4> QED BY <4>3 DEF x
    <3> QED BY <1>1, <2>1, <2>2, <3>1, FrameAhead
  <2>3. n = Len(sent)
    BY <1>1, <2>2
  <2> QED BY <2>1, <2>3
<1>3. ASSUME NEW k \in Nat, Within(n, k, a) PROVE FALSE
  <2>1. n < Len(sent) /\ k \in 0..Len(Inside(Payloads[n + 1])) /\ Ahead(Payloads, k, n) = <<>>
    BY <1>1, <1>3 DEF Within
  <2> QED BY <1>1, <2>1, FrameAhead
<1> QED BY <1>2, <1>3

(* How many numbers there are up to one.                                      *)
LEMMA Numbered == \A N \in Nat : Cardinality(1..N) = N
<1>1. ASSUME NEW N \in Int, NEW a \in Int
      PROVE  Cardinality(a..N) = IF a > N THEN 0 ELSE N - a + 1
  BY FS_Interval, Zenon
<1>2. ASSUME NEW N \in Nat PROVE Cardinality(1..N) = N
  <2>1. Cardinality(1..N) = IF 1 > N THEN 0 ELSE N - 1 + 1
    BY <1>1
  <2> QED BY <2>1
<1> QED BY <1>2

(* Where the line is empty, every frame before its end was heard or cut.      *)
LEMMA NothingLost == LineInv /\ Undisturbed /\ faults = 0 => LossBounded
<1> SUFFICES ASSUME LineInv, Undisturbed, faults = 0, line = <<>>, phase \in {"idle", "reading"}
             PROVE  Len(sent) <= Cardinality({i \in DOMAIN heard :
                                                 Understood(heard[i]) \cap ToSet(sent) # {}})
                                    + 2 * faults + cuts
  BY DEF LossBounded
<1>1. DOMAIN heard = 1..Len(heard) /\ DOMAIN sent = 1..Len(sent) /\ Len(heard) \in Nat
  BY DEF LineInv, CallInv, TypeOK
<1>2. \A i \in 1..Len(heard) :
          \E p \in 1..Len(sent) : heard[i] = Payload(sent[p]) /\ sent[p] \in Messages
  BY HeardUndisturbed
<1>3. ASSUME NEW i \in 1..Len(heard) PROVE Understood(heard[i]) \cap ToSet(sent) # {}
  <2>1. PICK p \in 1..Len(sent) : heard[i] = Payload(sent[p]) /\ sent[p] \in Messages
    BY <1>2
  <2>2. Understood(heard[i]) = {sent[p]}
    BY <2>1, MessageUnderstood
  <2>3. sent[p] \in ToSet(sent)
    BY <1>1 DEF ToSet
  <2> QED BY <2>2, <2>3
<1>4. {i \in DOMAIN heard : Understood(heard[i]) \cap ToSet(sent) # {}} = 1..Len(heard)
  BY <1>1, <1>3
<1>5. Cardinality(1..Len(heard)) = Len(heard)
  BY <1>1, Numbered
<1>6. PICK n \in 0..Len(sent) : Between(n, 0) \/ \E k \in Nat : Within(n, k, 0)
  BY DEF Undisturbed, Placed, At
<1>7. Len(sent) <= Len(heard) + cuts + 0
  BY <1>6, AllPassed
<1>8. cuts \in Nat
  BY BoundsAssumption DEF LineInv, CallInv, TypeOK
<1> DEFINE S == {i \in DOMAIN heard : Understood(heard[i]) \cap ToSet(sent) # {}}
<1>9. Cardinality(S) = Len(heard)
  BY <1>4, <1>5
<1>10. faults = 0
  OBVIOUS
<1> HIDE DEF S
<1>11. 2 * faults = 0
  BY <1>10
<1>12. Len(sent) <= Cardinality(S) + 2 * faults + cuts
  BY <1>1, <1>7, <1>8, <1>9, <1>11
<1> QED BY <1>12 DEF S

-----------------------------------------------------------------------------
(* The line after its last fault, from a moment on at which s messages had been   *)
(* sent and c calls cut.                                                      *)

(* What has been sent since lies on the line behind what was there.             *)
Behind(s) == \E junk \in Seq(Bytes) : Pending = junk \o Stream(Rest(Payloads, s))

(* The first frame sent since is read as the rest of another one: its header was   *)
(* taken for an escaped byte.                                                 *)
Astray(s) ==
    /\ reader = "tool" /\ inFrame /\ s < Len(sent)
    /\ \E k \in 0..Len(Inside(Payloads[s + 1])) :
          /\ Pending = Ahead(Payloads, k, s)
          /\ escapeNext = Unescapes(Inside(Payloads[s + 1]))[k].escapeNext

(* Once b payloads had been heard the reader had its place; one frame sent since    *)
(* may be lost besides the ones cut since.                                    *)
Found(b, s, c) == Placed(b, s, s + 1 - c - b)

Recovering(h, s, c) ==
    /\ reader # "library"
    /\ h \in 0..Len(heard) /\ s \in 0..Len(sent) /\ c \in 0..cuts
    /\ Behind(s) \/ Astray(s) \/ \E b \in h..Len(heard) : Found(b, s, c)

(* The reader has its place from now on: nothing that it heard is to be placed.   *)
LEMMA FoundNow ==
    ASSUME heard' \in Seq(Seq(Bytes)), NEW b \in Nat, b = Len(heard'), NEW s \in Nat, NEW c \in Nat,
           NEW n \in Nat, n \in s..Len(sent'),
           \/ Between(n, s + 1 - c - b)'
           \/ \E k \in Nat : Within(n, k, s + 1 - c - b)'
    PROVE  Found(b, s, c)'
<1>1. HeardOf(heard, b, Payloads, s, n)'
  BY NothingToPlace
<1>2. At(n, b, s, s + 1 - c - b)'
  BY <1>1 DEF At
<1> QED BY <1>2 DEF Found, Placed

(* What the header of the first frame sent since does to a call that may hold any  *)
(* bytes: it opens the frame, ends a call, or counts as an escaped byte.         *)
LEMMA HeaderFound ==
    ASSUME LineInv, LineInv', ByteStep, reader # "library", NEW s \in Nat, s \in 0..Len(sent),
           NEW c \in Nat, c <= cuts, Pending = Stream(Rest(Payloads, s)),
           NEW b \in Nat, b = Len(heard')
    PROVE  Astray(s)' \/ Found(b, s, c)'
<1> DEFINE a == s + 1 - c - b q == Payloads x == Inside(q[s + 1])
<1>1. /\ Pending' = line /\ q' = q /\ sent' = sent /\ reader' = reader /\ cuts' = cuts /\ cuts \in Nat
      /\ heard' \in Seq(Seq(Bytes)) /\ inFrame' \in BOOLEAN /\ Len(sent) \in Nat
  <2>1. heard' \in Seq(Seq(Bytes)) /\ inFrame' \in BOOLEAN
    BY DEF LineInv, CallInv, TypeOK
  <2>2. Len(sent) \in Nat
    BY DEF LineInv, CallInv, TypeOK
  <2> QED BY <2>1, <2>2, ByteInHand
<1>2. /\ s < Len(sent) /\ byte = HEADER /\ byte = END /\ line = Ahead(q, 0, s)
      /\ x \in Seq(Bytes) /\ 0 \in 0..Len(x)
  BY FirstByte
<1>3. a \in Int /\ s <= Len(heard') + cuts' + a /\ s + 1 <= Len(heard') + cuts' + a
  BY <1>1
<1>4. ASSUME Within(s, 0, a)' PROVE Found(b, s, c)'
  <2>1. s \in s..Len(sent') /\ 0 \in Nat
    BY <1>1
  <2> QED BY <1>1, <1>4, <2>1, FoundNow
<1> HIDE DEF q
<1>5. ASSUME inFrame' = FALSE PROVE Found(b, s, c)'
  <2>1. /\ s < Len(sent') /\ (0 \in 0..Len(x))' /\ Pending' = Ahead(q, 0, s)' /\ ~inFrame'
        /\ reader' # "library" /\ s + 1 <= Len(heard') + cuts' + a
    BY <1>1, <1>2, <1>3, <1>5
  <2>2. Within(s, 0, a)'
    BY <2>1 DEF Within, q
  <2> QED BY <1>4, <2>2
<1>6. ASSUME inFrame', frame' = <<>>, reader = "tool" => escapeNext' = FALSE PROVE Found(b, s, c)'
  <2>1. Within(s, 0, a)'
    BY <1>3, <1>6, Opened
  <2> QED BY <1>4, <2>1
<1>7. ASSUME reader = "tool", inFrame', escapeNext' = FALSE PROVE Astray(s)'
  <2>1. Unescapes(x)[0].escapeNext = FALSE
    <3> HIDE DEF x
    <3>1. Unescapes(x)[0] = NothingRead
      BY <1>2, UnescapesLoop
    <3> QED BY <3>1 DEF NothingRead
  <2>2. x' = x
    BY <1>1
  <2>3. /\ reader' = "tool" /\ inFrame' /\ s < Len(sent') /\ (0 \in 0..Len(x))'
        /\ Pending' = Ahead(q, 0, s)' /\ escapeNext' = Unescapes(x)[0].escapeNext
    BY <1>1, <1>2, <1>7, <2>1
  <2>4. escapeNext' = (Unescapes(x)[0].escapeNext)'
    BY <2>2, <2>3
  <2> QED BY <2>3, <2>4 DEF Astray, q
<1>8. CASE Search
  <2>1. inFrame' = TRUE /\ frame' = <<>> /\ escapeNext' = FALSE
    BY <1>2, <1>8 DEF Search, Restart
  <2> QED BY <1>6, <2>1
<1>9. CASE ToolUnescape
  <2>1. reader = "tool" /\ (inFrame' = FALSE \/ (inFrame' /\ escapeNext' = FALSE))
    BY <1>9 DEF ToolUnescape, Keep
  <2> QED BY <1>5, <1>7, <2>1
<1>10. CASE ToolEnd
  <2>1. inFrame' = FALSE \/ (inFrame' /\ frame' = <<>> /\ escapeNext' = FALSE)
    BY <1>10 DEF ToolEnd, Restart
  <2> QED BY <1>5, <1>6, <2>1
<1>11. CASE HostAdjacent
  <2>1. inFrame' /\ frame' = <<>> /\ reader # "tool"
    BY <1>11 DEF HostAdjacent, callVars
  <2> QED BY <1>6, <2>1
<1>12. CASE HostEnd
  BY <1>5, <1>12 DEF HostEnd
<1>13. ~(ToolEscape \/ ToolData \/ HostData)
  <2>1. ESCAPE # END
    BY Flips
  <2> QED BY <1>2, <2>1 DEF ToolEscape, ToolData, HostData
<1> QED BY <1>8, <1>9, <1>10, <1>11, <1>12, <1>13 DEF ByteStep

(* A tool that has gone astray finds its place where the frame ends, or where it   *)
(* drops the frame for its length.                                            *)
LEMMA AstrayStep ==
    ASSUME LineInv, LineInv', ByteStep, NEW s \in Nat, s \in 0..Len(sent),
           NEW c \in Nat, c <= cuts, Astray(s), NEW b \in Nat, b = Len(heard')
    PROVE  Astray(s)' \/ Found(b, s, c)'
<1> DEFINE a == s + 1 - c - b q == Payloads x == Inside(q[s + 1])
<1>1. /\ Pending' = line /\ q' = q /\ sent' = sent /\ reader' = reader /\ cuts' = cuts /\ cuts \in Nat
      /\ heard' \in Seq(Seq(Bytes)) /\ inFrame' \in BOOLEAN /\ Len(sent) \in Nat
      /\ escapeNext \in BOOLEAN
  <2>1. heard' \in Seq(Seq(Bytes)) /\ inFrame' \in BOOLEAN
    BY DEF LineInv, CallInv, TypeOK
  <2>2. Len(sent) \in Nat
    BY DEF LineInv, CallInv, TypeOK
  <2> QED BY <2>1, <2>2, ByteInHand
<1>2. reader = "tool" /\ inFrame /\ s < Len(sent)
  BY DEF Astray
<1>3. PICK k \in 0..Len(x) : Pending = Ahead(q, k, s) /\ escapeNext = Unescapes(x)[k].escapeNext
  BY DEF Astray
<1>4. /\ x \in Seq(Bytes) /\ k \in Nat /\ q[s + 1] \in Seq(Bytes)
      /\ k < Len(x) => /\ byte = x[k + 1] /\ byte # HEADER /\ byte # END
                       /\ k + 1 \in 0..Len(x) /\ line = Ahead(q, k + 1, s)
      /\ k = Len(x) => byte = END /\ line = Stream(Rest(q, s + 1)) /\ s + 1 \in 0..Len(sent)
  BY <1>2, <1>3, NextByte
<1>5. a \in Int /\ s + 1 <= Len(heard') + cuts' + a
  BY <1>1
<1> HIDE DEF q
<1>6. x' = x
  BY <1>1
<1>7. CASE k < Len(x)
  <2>1. Unescapes(x)[k + 1].escapeNext = (~escapeNext /\ byte = ESCAPE)
    <3> HIDE DEF x
    <3>1. k + 1 \in 1..Len(x) /\ (k + 1) - 1 = k
      BY <1>4, <1>7
    <3>2. Unescapes(x)[k + 1] = Unescape(Unescapes(x)[(k + 1) - 1], x[k + 1])
      BY <1>4, <3>1, UnescapesLoop
    <3>3. Unescapes(x)[k + 1] = Unescape(Unescapes(x)[k], byte)
      BY <1>4, <1>7, <3>1, <3>2
    <3> DEFINE u == Unescapes(x)[k]
    <3>4. u.escapeNext = escapeNext
      BY <1>3
    <3> HIDE DEF u
    <3>5. Unescape(u, byte).escapeNext = (~u.escapeNext /\ byte = ESCAPE)
      BY DEF Unescape
    <3> QED BY <3>3, <3>4, <3>5 DEF u
  <2>2. \/ inFrame' = FALSE
        \/ inFrame' /\ escapeNext' = (~escapeNext /\ byte = ESCAPE)
    <3>1. CASE ToolUnescape
      BY <1>1, <1>2, <3>1 DEF ToolUnescape, Keep, Restart
    <3>2. CASE ToolEscape
      BY <1>1, <1>2, <3>2 DEF ToolEscape
    <3>3. CASE ToolData
      BY <1>1, <1>2, <3>3 DEF ToolData, Keep, Restart
    <3>4. ~(Search \/ ToolEnd \/ HostData \/ HostAdjacent \/ HostEnd)
      BY <1>2, <1>4, <1>7 DEF Search, ToolEnd, HostData, HostAdjacent, HostEnd
    <3> QED BY <3>1, <3>2, <3>3, <3>4 DEF ByteStep
  <2>3. s < Len(sent') /\ (k + 1 \in 0..Len(x))' /\ Pending' = Ahead(q, k + 1, s)'
    BY <1>1, <1>2, <1>4, <1>6, <1>7
  <2>4. CASE inFrame' = FALSE
    <3>1. ~inFrame' /\ reader' # "library" /\ s + 1 <= Len(heard') + cuts' + a
      BY <1>1, <1>2, <1>5, <2>4
    <3>2. Within(s, k + 1, a)'
      BY <2>3, <3>1 DEF Within, q
    <3>3. s \in s..Len(sent') /\ k + 1 \in Nat
      BY <1>1, <1>4
    <3> QED BY <1>1, <3>2, <3>3, FoundNow
  <2>5. CASE inFrame' /\ escapeNext' = (~escapeNext /\ byte = ESCAPE)
    <3>1. escapeNext' = (Unescapes(x)[k + 1].escapeNext)'
      BY <1>6, <2>1, <2>5
    <3>2. reader' = "tool" /\ inFrame'
      BY <1>1, <1>2, <2>5
    <3>3. Astray(s)'
      BY <2>3, <3>1, <3>2 DEF Astray, q
    <3> QED BY <3>3
  <2> QED BY <2>2, <2>4, <2>5
<1>8. CASE k = Len(x)
  <2>1. escapeNext = FALSE
    <3> DEFINE d == q[s + 1] e == d \o checksum(d)
    <3>1. Unescaped(Inside(d)) = [out |-> e, escapeNext |-> FALSE]
      BY <1>4, InsideFacts DEF q
    <3> HIDE DEF e
    <3>2. Unescaped(x).escapeNext = FALSE
      BY <3>1
    <3> HIDE DEF x
    <3> QED BY <1>3, <1>8, <3>2 DEF Unescaped
  <2>2. ToolEnd
    <3>1. ESCAPE # END
      BY Flips
    <3> QED BY <1>2, <1>4, <1>8, <2>1, <3>1
          DEF ByteStep, Search, ToolUnescape, ToolEscape, ToolData, HostData, HostAdjacent, HostEnd
  <2>3. frame' = <<>> /\ escapeNext' = FALSE
    BY <2>2 DEF ToolEnd, Restart
  <2>4. Pending' = Stream(Rest(q, s + 1))'
    BY <1>1, <1>4, <1>8
  <2>5. Between(s + 1, a)'
    BY <1>1, <1>2, <1>5, <2>3, <2>4 DEF Between, NothingKept, q
  <2>6. s + 1 \in s..Len(sent') /\ s + 1 \in Nat
    BY <1>1, <1>2
  <2> QED BY <1>1, <2>5, <2>6, FoundNow
<1>9. k < Len(x) \/ k = Len(x)
  <2> HIDE DEF x
  <2> QED BY <1>4
<1> QED BY <1>7, <1>8, <1>9

(* Whatever is before what was sent since is read byte by byte.                  *)
LEMMA BehindStep ==
    ASSUME LineInv, LineInv', ByteStep, reader # "library", NEW s \in Nat, s \in 0..Len(sent),
           NEW c \in Nat, c <= cuts, Behind(s), NEW b \in Nat, b = Len(heard')
    PROVE  Behind(s)' \/ Astray(s)' \/ Found(b, s, c)'
<1> DEFINE y == Stream(Rest(Payloads, s))
<1>1. PICK junk \in Seq(Bytes) : Pending = junk \o y
  BY DEF Behind
<1>2. /\ Pending = <<byte>> \o line /\ Pending' = line /\ Payloads' = Payloads /\ sent \in Seq(Messages)
      /\ byte \in Bytes /\ line \in Seq(Bytes)
  BY ByteInHand
<1>3. y \in Seq(Bytes)
  <2>1. Payloads \in Queues /\ Len(Payloads) = Len(sent)
    BY <1>2, PayloadsTyped
  <2>2. Rest(Payloads, s) \in Queues
    BY <2>1, RestFacts DEF Queues
  <2> QED BY <2>2, StreamTyped
<1>4. CASE junk = <<>>
  <2>1. Pending = y
    BY <1>1, <1>3, <1>4
  <2> QED BY <2>1, HeaderFound
<1>5. CASE junk # <<>>
  <2> DEFINE h == Head(junk) t == Tail(junk)
  <2>1. junk = <<h>> \o t /\ h \in Bytes /\ t \in Seq(Bytes)
    BY <1>5
  <2>2. y' = y
    BY <1>2
  <2> HIDE DEF h, t, y
  <2>3. <<h>> \in Seq(Bytes)
    BY <2>1
  <2>4. (<<h>> \o t) \o y = <<h>> \o (t \o y)
    BY <1>3, <2>1, <2>3, ConcatBytes
  <2>5. t \o y \in Seq(Bytes)
    BY <1>3, <2>1, ConcatFacts
  <2> DEFINE z == t \o y
  <2>6. <<byte>> \o line = <<h>> \o z /\ z \in Seq(Bytes)
    BY <1>1, <1>2, <2>1, <2>4, <2>5
  <2> HIDE DEF z
  <2>7. line = z
    BY <1>2, <2>1, <2>6, SameHead
  <2>8. Pending' = t \o y'
    BY <1>2, <2>2, <2>7 DEF z
  <2> QED BY <2>1, <2>8 DEF Behind, y
<1> QED BY <1>4, <1>5

(* Between calls nobody is astray, and a frame more comes after all the others.    *)
LEMMA SendRecovering ==
    ASSUME LineInv, NEW m \in Messages, Send(m), NEW s \in Nat, s \in 0..Len(sent), NEW c \in Nat
    PROVE  /\ Behind(s) => Behind(s)'
           /\ ~Astray(s)
           /\ \A b \in Nat : Found(b, s, c) => Found(b, s, c)'
<1> DEFINE x == Payload(m) q == Payloads y == Stream(Rest(q, s))
<1>1. /\ phase = "idle" /\ phase' = "idle" /\ op' = op /\ reader' = reader /\ sent' = Append(sent, m)
  BY DEF Send, asioVars
<1>2. op = "off" /\ ~inFrame /\ sent \in Seq(Messages)
  BY <1>1 DEF LineInv, CallInv, TypeOK
<1>3. line' = line \o build(x)
  BY OneEncoding DEF Send
<1>4. Pending = line /\ Pending' = line'
  BY <1>1, <1>2 DEF Pending
<1>5. q' = Append(q, x)
  BY <1>1, <1>2, PayloadsStep
<1>6. q \in Queues /\ Len(q) = Len(sent) /\ x \in Seq(Bytes)
  BY <1>2, PayloadsTyped, PayloadTyped
<1>7. y' = y \o build(x) /\ y \in Seq(Bytes) /\ build(x) \in Seq(Bytes)
  <2> HIDE DEF q, x
  <2>1. s \in 0..Len(q)
    BY <1>6
  <2>2. Stream(Rest(Append(q, x), s)) = y \o build(x)
    BY <1>6, <2>1, AheadAppend
  <2>3. Rest(q, s) \in Queues
    BY <1>6, <2>1, RestFacts DEF Queues
  <2> QED BY <1>5, <1>6, <2>2, <2>3, StreamTyped, BuildTyped
<1>8. ASSUME Behind(s) PROVE Behind(s)'
  <2>1. PICK junk \in Seq(Bytes) : Pending = junk \o y
    BY <1>8 DEF Behind
  <2> HIDE DEF y, x
  <2>2. (junk \o y) \o build(x) = junk \o (y \o build(x))
    BY <1>7, ConcatBytes
  <2>3. Pending' = junk \o y'
    BY <1>3, <1>4, <1>7, <2>1, <2>2
  <2> QED BY <2>3 DEF Behind, y
<1>9. ~Astray(s)
  BY <1>2 DEF Astray
<1>10. ASSUME NEW b \in Nat, Found(b, s, c) PROVE Found(b, s, c)'
  <2>1. s + 1 - c - b \in Int
    OBVIOUS
  <2> QED BY <1>10, <2>1, SendPlaced DEF Found
<1> QED BY <1>8, <1>9, <1>10

(* A call that ends drops a frame it has gone astray in.                        *)
LEMMA AsideRecovering ==
    ASSUME LineInv, LineInv', Aside, NEW s \in Nat, s \in 0..Len(sent), NEW c \in Nat, c <= cuts
    PROVE  /\ Behind(s) => Behind(s)'
           /\ Astray(s) => Astray(s)' \/ \A b \in Nat : b = Len(heard') => Found(b, s, c)'
           /\ \A b \in Nat : Found(b, s, c) => Found(b, s, c)'
<1>1. Payloads' = Payloads
  BY DEF Aside, Payloads, Payload, CommandPayload, ResponsePayload
<1>2. /\ Pending' = Pending /\ sent' = sent /\ reader' = reader /\ heard' = heard
      /\ cuts \in Nat /\ heard' \in Seq(Seq(Bytes)) /\ Len(sent) \in Nat
  BY BoundsAssumption DEF Aside, LineInv, CallInv, TypeOK
<1>3. Behind(s) => Behind(s)'
  BY <1>1, <1>2 DEF Behind
<1>4. ASSUME Astray(s), NEW b \in Nat, b = Len(heard') PROVE Astray(s)' \/ Found(b, s, c)'
  <2> DEFINE x == Inside(Payloads[s + 1]) a == s + 1 - c - b
  <2>1. PICK k \in 0..Len(x) : Pending = Ahead(Payloads, k, s) /\ escapeNext = Unescapes(x)[k].escapeNext
    BY <1>4 DEF Astray
  <2>2. reader = "tool" /\ inFrame /\ s < Len(sent)
    BY <1>4 DEF Astray
  <2>3. x' = x
    BY <1>1
  <2>4. s < Len(sent') /\ (k \in 0..Len(x))' /\ Pending' = Ahead(Payloads, k, s)'
    BY <1>1, <1>2, <2>1, <2>2, <2>3
  <2>5. CASE callVars' = callVars
    <3>1. inFrame' = inFrame /\ escapeNext' = escapeNext
      BY <2>5 DEF callVars
    <3>2. escapeNext' = (Unescapes(x)[k].escapeNext)' /\ reader' = "tool" /\ inFrame'
      BY <1>2, <2>1, <2>2, <2>3, <3>1
    <3> QED BY <2>4, <3>2 DEF Astray
  <2>6. CASE inFrame' = FALSE /\ cuts' = cuts + 1
    <3>1. ~inFrame' /\ reader' # "library" /\ s + 1 <= Len(heard') + cuts' + a
      BY <1>2, <1>4, <2>2, <2>6
    <3>2. Within(s, k, a)'
      BY <2>4, <3>1 DEF Within
    <3>3. s \in s..Len(sent') /\ k \in Nat
      <4>1. k \in Nat
        OBVIOUS
      <4> QED BY <1>2, <4>1
    <3> QED BY <1>2, <1>4, <3>2, <3>3, FoundNow
  <2> QED BY <2>2, <2>5, <2>6 DEF Aside
<1>5. ASSUME NEW b \in Nat, Found(b, s, c) PROVE Found(b, s, c)'
  <2>1. s + 1 - c - b \in Int
    OBVIOUS
  <2> QED BY <1>5, <2>1, AsidePlaced DEF Found
<1>6. ASSUME Astray(s), ~Astray(s)', NEW b \in Nat, b = Len(heard') PROVE Found(b, s, c)'
  BY <1>4, <1>6
<1> QED BY <1>3, <1>5, <1>6

(* Nothing is unheard, unsent or uncut.                                       *)
LEMMA Counts ==
    ASSUME LineInv, LineInv', [Next]_vars, ~LineFault
    PROVE  /\ reader' = reader /\ heard \in Seq(Seq(Bytes)) /\ heard' \in Seq(Seq(Bytes))
           /\ Len(heard) \in Nat /\ Len(heard') \in Nat /\ Len(heard) <= Len(heard')
           /\ Len(sent) \in Nat /\ Len(sent') \in Nat /\ Len(sent) <= Len(sent')
           /\ cuts \in Nat /\ cuts' \in Nat /\ cuts <= cuts'
<1>1. /\ heard \in Seq(Seq(Bytes)) /\ heard' \in Seq(Seq(Bytes))
      /\ sent \in Seq(Messages) /\ sent' \in Seq(Messages)' /\ cuts \in Nat /\ cuts' \in Nat
  BY BoundsAssumption DEF LineInv, CallInv, TypeOK
<1>2. Len(heard) \in Nat /\ Len(heard') \in Nat /\ Len(sent) \in Nat /\ Len(sent') \in Nat
  BY <1>1
<1>3. reader' = reader
  BY SameReader
<1>4. Len(heard) <= Len(heard') /\ Len(sent) <= Len(sent') /\ cuts <= cuts'
  <2>1. ASSUME NEW m \in Messages, Send(m) PROVE Len(heard) <= Len(heard') /\ Len(sent) <= Len(sent') /\ cuts <= cuts'
    <3>1. heard' = heard /\ cuts' = cuts /\ sent' = Append(sent, m)
      BY <2>1 DEF Send
    <3> QED BY <1>1, <1>2, <3>1
  <2>2. CASE ByteStep
    <3>1. cuts' = cuts /\ sent' = sent
      BY <2>2, ByteInHand
    <3>2. heard' = heard \/ \E p : heard' = Append(heard, p)
      BY <2>2 DEF ByteStep, Search, ToolUnescape, ToolEscape, ToolData, ToolEnd, HostData, HostAdjacent,
                  HostEnd, Continue, Return
    <3>3. ASSUME NEW p, heard' = Append(heard, p) PROVE Len(heard) <= Len(heard')
      <4>1. Len(heard') = Len(heard) + 1
        BY <1>1, <3>3
      <4> QED BY <1>2, <4>1
    <3>4. Len(heard) <= Len(heard')
      <4>1. CASE heard' = heard
        BY <1>2, <4>1
      <4> QED BY <3>2, <3>3, <4>1
    <3>5. Len(sent') = Len(sent)
      BY <3>1
    <3> QED BY <1>1, <1>2, <3>1, <3>4, <3>5
  <2>3. CASE \/ Call \/ Fetch \/ TimedOut \/ DeadlinePassed \/ StartTimedRead \/ ReadFails \/ AsioStep
             \/ UNCHANGED vars
    <3>1. Aside
      BY <2>3, AsideSteps
    <3> QED BY <1>1, <1>2, <3>1 DEF Aside
  <2> QED BY <2>1, <2>2, <2>3 DEF Next, ReaderStep
<1> QED BY <1>1, <1>2, <1>3, <1>4

(* Every step but a fault keeps to it.                                         *)
LEMMA RecoveringStep ==
    ASSUME LineInv, LineInv', [Next]_vars, faults' = faults, NEW h, NEW s, NEW c, Recovering(h, s, c)
    PROVE  Recovering(h, s, c)'
<1>1. ~LineFault
  BY FaultCounted
<1>2. /\ reader' = reader /\ heard' \in Seq(Seq(Bytes))
      /\ Len(heard) \in Nat /\ Len(heard') \in Nat /\ Len(heard) <= Len(heard')
      /\ Len(sent) \in Nat /\ Len(sent') \in Nat /\ Len(sent) <= Len(sent')
      /\ cuts \in Nat /\ cuts' \in Nat /\ cuts <= cuts'
  BY <1>1, Counts
<1>3. /\ reader # "library" /\ h \in 0..Len(heard) /\ s \in 0..Len(sent) /\ c \in 0..cuts
      /\ Behind(s) \/ Astray(s) \/ \E b \in h..Len(heard) : Found(b, s, c)
  BY DEF Recovering
<1>4. s \in Nat /\ c \in Nat /\ c <= cuts /\ h \in Nat
  BY <1>2, <1>3
<1>5. reader' # "library" /\ h \in 0..Len(heard') /\ s \in 0..Len(sent') /\ c \in 0..cuts'
  BY <1>2, <1>3
<1>6. PICK now \in Nat : now = Len(heard')
  BY <1>2
<1>7. now \in h..Len(heard') /\ \A b \in h..Len(heard) : b \in Nat /\ b \in h..Len(heard')
  <2>1. \A i, j, k \in Nat : i <= j /\ j <= k => k \in i..k /\ \A b \in i..j : b \in Nat /\ b \in i..k
    OBVIOUS
  <2>2. h <= Len(heard)
    BY <1>2, <1>3
  <2> QED BY <1>2, <1>4, <1>6, <2>1, <2>2
<1> SUFFICES Behind(s)' \/ Astray(s)' \/ \E b \in h..Len(heard') : Found(b, s, c)'
  BY <1>5 DEF Recovering
<1>8. ASSUME NEW m \in Messages, Send(m)
      PROVE  Behind(s)' \/ \E b \in h..Len(heard') : Found(b, s, c)'
  <2>1. Behind(s) => Behind(s)'
    BY <1>3, <1>4, <1>8, SendRecovering
  <2>2. ~Astray(s)
    BY <1>3, <1>4, <1>8, SendRecovering
  <2>3. \A b \in Nat : Found(b, s, c) => Found(b, s, c)'
    BY <1>3, <1>4, <1>8, SendRecovering
  <2> QED BY <1>3, <1>7, <2>1, <2>2, <2>3
<1>9. CASE ByteStep
  <2>1. CASE Behind(s)
    <3>1. Behind(s)' \/ Astray(s)' \/ Found(now, s, c)'
      BY <1>3, <1>4, <1>6, <1>9, <2>1, BehindStep
    <3> QED BY <1>7, <3>1
  <2>2. CASE Astray(s)
    <3>1. Astray(s)' \/ Found(now, s, c)'
      BY <1>3, <1>4, <1>6, <1>9, <2>2, AstrayStep
    <3> QED BY <1>7, <3>1
  <2>3. ASSUME NEW b \in h..Len(heard), Found(b, s, c) PROVE \E d \in h..Len(heard') : Found(d, s, c)'
    <3>1. b \in Nat /\ s + 1 - c - b \in Int
      BY <1>4, <1>7
    <3>2. Found(b, s, c)'
      BY <1>4, <1>9, <2>3, <3>1, ByteStepPlaced DEF Found
    <3> QED BY <1>7, <3>2
  <2> QED BY <1>3, <2>1, <2>2, <2>3
<1>10. CASE \/ Call \/ Fetch \/ TimedOut \/ DeadlinePassed \/ StartTimedRead \/ ReadFails \/ AsioStep
            \/ UNCHANGED vars
  <2>1. Aside
    BY <1>10, AsideSteps
  <2>2. Behind(s) => Behind(s)'
    BY <1>3, <1>4, <2>1, AsideRecovering
  <2>3. Astray(s) => Astray(s)' \/ Found(now, s, c)'
    BY <1>3, <1>4, <1>6, <2>1, AsideRecovering
  <2>4. \A b \in Nat : Found(b, s, c) => Found(b, s, c)'
    BY <1>3, <1>4, <2>1, AsideRecovering
  <2> QED BY <1>3, <1>7, <2>2, <2>3, <2>4
<1> QED BY <1>1, <1>8, <1>9, <1>10 DEF Next, ReaderStep

(* The moment: h payloads have been heard, s messages sent and c calls cut.    *)
(* The blocking call of the library is left out: nothing reads with it.        *)
Here(h, s, c) == reader # "library" /\ Len(heard) = h /\ Len(sent) = s /\ cuts = c

(* What the reader makes of the frames sent since the moment: from some point on    *)
(* it hears them unchanged and in order, and when the line is read to its end one   *)
(* of them is missing at most, besides the ones cut since.                       *)
Recovered(h, s, c) ==
    \E b \in h..Len(heard) :
        /\ \E place \in [(b + 1)..Len(heard) -> (s + 1)..Len(sent)] :
              /\ \A i, j \in (b + 1)..Len(heard) : i < j => place[i] < place[j]
              /\ \A i \in (b + 1)..Len(heard) : heard[i] = Payload(sent[place[i]])
        /\ line = <<>> /\ phase \in {"idle", "reading"} =>
              Len(sent) - s <= (Len(heard) - b) + 1 + (cuts - c)

LEMMA RecoveringRecovered ==
    ASSUME LineInv, NEW h, NEW s, NEW c, Recovering(h, s, c)
    PROVE  Recovered(h, s, c)
<1> DEFINE N == Len(heard) read == line = <<>> /\ phase \in {"idle", "reading"}
<1>1. /\ reader # "library" /\ h \in 0..N /\ s \in 0..Len(sent) /\ c \in 0..cuts
      /\ Behind(s) \/ Astray(s) \/ \E b \in h..N : Found(b, s, c)
  BY DEF Recovering
<1>2. /\ sent \in Seq(Messages) /\ Len(sent) \in Nat /\ cuts \in Nat
      /\ heard \in Seq(Seq(Bytes)) /\ N \in Nat
  BY BoundsAssumption DEF LineInv, CallInv, TypeOK
<1>3. /\ Payloads \in Queues /\ Len(Payloads) = Len(sent)
      /\ \A i \in 1..Len(sent) : /\ Payloads[i] = Payload(sent[i]) /\ Payloads[i] \in Seq(Bytes)
                                 /\ Payloads[i] # <<>> /\ Len(Payloads[i]) <= 16
  BY <1>2, PayloadsTyped
<1>4. read => Pending = <<>>
  BY DEF Pending, LineInv
<1>5. h \in Nat /\ s \in Nat /\ c \in Nat /\ N \in h..N
  BY <1>1, <1>2
<1>6. ASSUME NEW b \in h..N, NEW n \in s..Len(sent), HeardOf(heard, b, Payloads, s, n),
             read => Len(sent) - s <= (N - b) + 1 + (cuts - c)
      PROVE  Recovered(h, s, c)
  <2>1. PICK place \in [(b + 1)..N -> (s + 1)..n] :
            /\ \A i, j \in (b + 1)..N : i < j => place[i] < place[j]
            /\ \A i \in (b + 1)..N : heard[i] = Payloads[place[i]]
    BY <1>6 DEF HeardOf
  <2>2. \A i \in (b + 1)..N : place[i] \in 1..Len(sent) /\ place[i] \in (s + 1)..Len(sent)
    <3>1. \A i \in (b + 1)..N : place[i] \in (s + 1)..n
      OBVIOUS
    <3>2. \A j, k \in Nat : \A m \in j..k :
              \A i \in (j + 1)..m : i \in 1..k /\ i \in (j + 1)..k
      OBVIOUS
    <3> QED BY <1>2, <1>5, <3>1, <3>2
  <2>3. place \in [(b + 1)..N -> (s + 1)..Len(sent)]
    BY <2>1, <2>2
  <2>4. \A i \in (b + 1)..N : heard[i] = Payload(sent[place[i]])
    BY <1>3, <2>1, <2>2
  <2> QED BY <1>6, <2>1, <2>3, <2>4 DEF Recovered
<1>7. HeardOf(heard, N, Payloads, s, s)
  BY <1>2, <1>5, NothingToPlace
<1>8. s \in s..Len(sent)
  BY <1>1, <1>2
<1>9. CASE Behind(s)
  <2>1. ASSUME read PROVE Len(sent) - s <= (N - N) + 1 + (cuts - c)
    <3>1. PICK junk \in Seq(Bytes) : <<>> = junk \o Stream(Rest(Payloads, s))
      BY <1>4, <1>9, <2>1 DEF Behind
    <3>2. Stream(Rest(Payloads, s)) \in Seq(Bytes)
      <4>1. Rest(Payloads, s) \in Queues
        BY <1>1, <1>3, RestFacts DEF Queues
      <4> QED BY <4>1, StreamTyped
    <3>3. Stream(Rest(Payloads, s)) = <<>>
      <4> DEFINE y == Stream(Rest(Payloads, s))
      <4>1. Len(junk \o y) = Len(junk) + Len(y) /\ Len(junk) \in Nat /\ Len(y) \in Nat
        BY <3>2, ConcatFacts
      <4>2. Len(<<>>) = 0
        OBVIOUS
      <4>3. y \in Seq(Bytes) /\ <<>> = junk \o y
        BY <3>1, <3>2
      <4> HIDE DEF y
      <4>4. Len(y) = 0
        <5>1. Len(junk \o y) = 0
          BY <4>2, <4>3
        <5> QED BY <4>1, <5>1
      <4>5. y = <<>>
        BY <4>3, <4>4
      <4> QED BY <4>5 DEF y
    <3>4. ASSUME s < Len(sent) PROVE FALSE
      <4>1. 0 \in 0..Len(Inside(Payloads[s + 1]))
        <5>1. Payloads[s + 1] \in Seq(Bytes)
          <6>1. s + 1 \in 1..Len(sent)
            BY <1>1, <1>2, <3>4
          <6> QED BY <1>3, <6>1
        <5> DEFINE x == Inside(Payloads[s + 1])
        <5>2. x \in Seq(Bytes)
          BY <5>1, InsideFacts
        <5> HIDE DEF x
        <5>3. 0 \in 0..Len(x)
          BY <5>2
        <5> QED BY <5>3 DEF x
      <4> QED BY <1>1, <1>2, <3>3, <3>4, <4>1, FrameAhead
    <3>5. s = Len(sent)
      BY <1>1, <1>2, <3>4
    <3> QED BY <1>1, <1>2, <1>5, <3>5
  <2> QED BY <1>5, <1>6, <1>7, <1>8, <2>1
<1>10. CASE Astray(s)
  <2>1. ASSUME read PROVE FALSE
    <3>1. PICK k \in 0..Len(Inside(Payloads[s + 1])) : <<>> = Ahead(Payloads, k, s)
      BY <1>4, <1>10, <2>1 DEF Astray
    <3>2. s < Len(sent)
      BY <1>10 DEF Astray
    <3> QED BY <1>1, <1>2, <1>3, <3>1, <3>2, FrameAhead
  <2> QED BY <1>5, <1>6, <1>7, <1>8, <2>1
<1>11. ASSUME NEW b \in h..N, Found(b, s, c) PROVE Recovered(h, s, c)
  <2>1. PICK n \in s..Len(sent) : At(n, b, s, s + 1 - c - b)
    BY <1>11 DEF Found, Placed
  <2>2. s + 1 - c - b \in Int /\ n \in 0..Len(sent) /\ b \in Nat
    BY <1>1, <1>2, <1>5
  <2>3. ASSUME read PROVE Len(sent) - s <= (N - b) + 1 + (cuts - c)
    <3>1. Len(sent) <= N + cuts + (s + 1 - c - b)
      BY <2>1, <2>2, <2>3, AllPassed DEF At
    <3> QED BY <1>2, <1>5, <2>2, <3>1
  <2> QED BY <1>6, <2>1, <2>3 DEF At
<1> QED BY <1>1, <1>9, <1>10, <1>11

(* Nothing has been sent since now.                                            *)
LEMMA RecoveringNow ==
    ASSUME LineInv, NEW h, NEW s, NEW c, Here(h, s, c)
    PROVE  Recovering(h, s, c)
<1>1. /\ sent \in Seq(Messages) /\ Len(sent) \in Nat /\ cuts \in Nat /\ Len(heard) \in Nat
      /\ line \in Seq(Bytes) /\ byte \in Bytes
  BY BoundsAssumption DEF LineInv, CallInv, TypeOK
<1>2. Pending \in Seq(Bytes)
  BY <1>1 DEF Pending
<1>3. Stream(Rest(Payloads, Len(sent))) = <<>>
  BY <1>1, PayloadsTyped, NothingLeft, StreamTyped
<1>4. Pending = Pending \o <<>>
  BY <1>2
<1>5. Behind(s)
  BY <1>2, <1>3, <1>4 DEF Behind, Here
<1> QED BY <1>1, <1>5 DEF Recovering, Here

-----------------------------------------------------------------------------
(* Every step keeps all of it.                                                *)
LEMMA AllKept ==
    Spec => [](LineInv /\ Buffer /\ Undisturbed)
<1>1. Init => LineInv /\ Buffer /\ Undisturbed
  <2>1. LineInv => Buffer
    BY DEF LineInv, CallInv, TypeOK, Buffer
  <2> QED BY <2>1, LineInit
<1>2. LineInv /\ Buffer /\ Undisturbed /\ [Next]_vars => (LineInv /\ Buffer /\ Undisturbed)'
  <2>1. Buffer' => DecodedFits'
    BY DEF Buffer
  <2> QED BY <2>1, BufferStep, LineInvStep, UndisturbedStep
<1> QED BY <1>1, <1>2, PTL DEF Spec

(* The types of the state hold, on any line and with any reader.                *)
THEOREM LineTypes == Spec => []TypeOK
<1>1. LineInv => TypeOK
  BY DEF LineInv, CallInv
<1> QED BY <1>1, AllKept, PTL

(* What an undisturbed line delivers are the payloads that were sent, unchanged,  *)
(* in the order they were sent in and none of them twice, whichever of the four   *)
(* programs reads, however its calls are timed and wherever they are cut off.     *)
THEOREM DeliveredInOrder == Spec => []InOrder
<1> QED BY AllKept, HeardInOrder, PTL

(* On such a line nothing is understood that was not sent, and a message is lost   *)
(* only to a call that ends in the middle of its frame.                         *)
THEOREM DeliveredCompletely == Spec => [](faults = 0 => OnlySent /\ LossBounded)
<1>1. LineInv /\ Undisturbed => (faults = 0 => OnlySent /\ LossBounded)
  BY HeardWasSent, NothingLost
<1> QED BY <1>1, AllKept, PTL

(* Whatever faults a line has had, lost, changed or added bytes and any number of    *)
(* them, the programs' readers recover from it by themselves: take any state and   *)
(* suppose that no fault comes from then on.  Then one of the frames sent since is  *)
(* lost at most, besides those whose call ended inside them, and from some payload  *)
(* on the reader hears the messages sent since, unchanged, in order, none twice.    *)
THEOREM Recovery ==
    ASSUME NEW CONSTANT h, NEW CONSTANT s, NEW CONSTANT c
    PROVE  Spec => [](Here(h, s, c) /\ [][faults' = faults]_vars => []Recovered(h, s, c))
<1>1. LineInv /\ Here(h, s, c) => Recovering(h, s, c)
  BY RecoveringNow
<1>2. LineInv /\ LineInv' /\ Recovering(h, s, c) /\ [Next]_vars /\ [faults' = faults]_vars
          => Recovering(h, s, c)'
  <2> SUFFICES ASSUME LineInv, LineInv', Recovering(h, s, c), [Next]_vars, [faults' = faults]_vars
               PROVE  Recovering(h, s, c)'
    OBVIOUS
  <2>1. faults' = faults
    BY DEF vars, lineHistory
  <2> QED BY <2>1, RecoveringStep
<1>3. LineInv /\ Recovering(h, s, c) => Recovered(h, s, c)
  BY RecoveringRecovered
<1> QED BY <1>1, <1>2, <1>3, AllKept, PTL DEF Spec
=============================================================================

-------------------------------- MODULE HilLine --------------------------------
(* One direction of the serial line, byte by byte, and the four programs that  *)
(* read frames from it: readFrom of the firmware ("tool"), readFrameTimed of   *)
(* the keyboard controller ("keyboard"), SerialPort::readFrame of the radio    *)
(* bridge ("bridge"), and the blocking readFrame of the HIL library            *)
(* ("library").  The keyboard controller fetches a byte through a timer and a   *)
(* read operation of Boost.Asio, whose handlers io_service::run executes.      *)
(*                                                                           *)
(* The line loses, changes and adds bytes.  sent, heard, faults, added, cuts,    *)
(* taken and handed are history: no step of a reader depends on them.           *)
EXTENDS HilFrame, FiniteSets

CONSTANTS
    Readers,          \* the readers considered, of AllReaders
    Commands,         \* [device, command]: what the two Raspberry programs send
    Responses,        \* [device, type, value, value]: what the tool answers
    MAX_PAYLOAD,      \* MAX_PAYLOAD of HilFrameArduino
    BRIDGE_LIMIT,     \* the 256 bytes SerialPort::readFrame lets a frame have
    NoiseBytes,       \* the bytes a fault leaves in place of others
    MAX_FRAMES,       \* bound: frames sent
    MAX_FAULTS,       \* bound: faults on the line
    MAX_BURST,        \* bound: bytes one fault loses
    MAX_CUTS          \* bound: calls that end inside a frame and faults, together, after
                      \* which no call is made

AllReaders == {"tool", "keyboard", "bridge", "library"}

ASSUME ReadersAssumption == Readers \subseteq AllReaders
ASSUME MessagesAssumption ==
    Commands \subseteq [1..2 -> Codes] /\ Responses \subseteq [1..4 -> Codes]
(* There is room for an answer, which escapes may double.                     *)
ASSUME LimitsAssumption ==
    MAX_PAYLOAD \in Nat /\ MAX_PAYLOAD >= 16 /\ BRIDGE_LIMIT \in Nat /\ BRIDGE_LIMIT >= 36
ASSUME NoiseAssumption == NoiseBytes \subseteq Bytes
ASSUME BoundsAssumption ==
    MAX_FRAMES \in Nat /\ MAX_FAULTS \in Nat /\ MAX_BURST \in Nat /\ MAX_CUTS \in Nat

VARIABLES
    reader,           \* the program that reads
    line,             \* bytes under way and in the buffer of the port
    phase,            \* "idle": no call; "reading": the head of its loop;
                      \* "run": in io_service::run; "step": a byte is in hand
    byte,
    inFrame, escapeNext,
    frame,            \* what the call has kept of the frame
    timer, op,        \* the deadline timer and the read operation
    expired,          \* the deadline of the call has passed
    sent, heard,      \* messages sent; payloads the reader took for valid
    faults, added,    \* faults on the line; one of them added a byte
    cuts,             \* calls that ended inside a frame
    taken, handed     \* bytes read from the port and bytes the loop has seen

callVars    == <<inFrame, escapeNext, frame>>
asioVars    == <<timer, op, expired>>
lineHistory == <<sent, faults, added>>
byteHistory == <<taken, handed>>
vars == <<reader, line, phase, byte, callVars, asioVars, lineHistory, heard, cuts, byteHistory>>

(* The payload of a message: addFloat, value by value.                        *)
CommandPayload(m) == FloatBytes(m[1]) \o FloatBytes(m[2])

addFloat(d, n) == addBytes(d, FloatBytes(n), MAX_PAYLOAD)
ResponsePayload(m) == addFloat(addFloat(addFloat(addFloat(<<>>, m[1]), m[2]), m[3]), m[4])

Payload(m) == IF reader = "tool" THEN CommandPayload(m) ELSE ResponsePayload(m)

(* sendFrame and sendToolCommand towards the tool, writeTo from it.            *)
Encodings(m) ==
    IF reader = "tool"
      THEN {build(Payload(m)), BridgeBuild(Payload(m))}
      ELSE {ArduinoBuild(Payload(m), MAX_PAYLOAD)}

Messages == IF reader = "tool" THEN Commands ELSE Responses

-----------------------------------------------------------------------------
(* The line (external).  A reader may fetch any byte late, so it is enough that *)
(* frames and faults come between its calls.                                  *)

Send(m) ==
    /\ phase = "idle" /\ Len(sent) < MAX_FRAMES
    /\ \E encoded \in Encodings(m) : line' = line \o encoded
    /\ sent' = Append(sent, m)
    /\ UNCHANGED <<reader, phase, byte, callVars, asioVars, faults, added, heard, cuts, byteHistory>>

Fault(bytes) ==
    /\ phase = "idle" /\ faults < MAX_FAULTS
    /\ faults' = faults + 1
    /\ line' = bytes
    /\ UNCHANGED <<reader, phase, byte, callVars, asioVars, sent, heard, cuts, byteHistory>>

Lose(i, n) ==
    Fault(SubSeq(line, 1, i - 1) \o SubSeq(line, i + n, Len(line))) /\ UNCHANGED added
Change(i, b) == line[i] # b /\ Fault(ReplaceAt(line, i, b)) /\ UNCHANGED added
Add(i, b) == Fault(InsertAt(line, i, b)) /\ added' = TRUE

LineFault ==
    \/ \E i \in DOMAIN line, n \in 1..MAX_BURST : i + n <= Len(line) + 1 /\ Lose(i, n)
    \/ \E i \in DOMAIN line, b \in NoiseBytes : Change(i, b)
    \/ \E i \in 1..Len(line) + 1, b \in NoiseBytes : Add(i, b)

-----------------------------------------------------------------------------
(* A call, and where its bytes come from.                                     *)

Call ==
    /\ phase = "idle" /\ cuts + faults < MAX_CUTS
    /\ phase' = "reading"
    /\ inFrame' = FALSE /\ escapeNext' = FALSE /\ frame' = <<>>
    /\ expired' = FALSE
    /\ UNCHANGED <<reader, line, byte, timer, op, lineHistory, heard, cuts, byteHistory>>

(* The call returns without a frame: what it has of one is dropped.           *)
ReturnWithoutFrame ==
    /\ cuts' = IF inFrame THEN cuts + 1 ELSE cuts
    /\ phase' = "idle"
    /\ inFrame' = FALSE /\ escapeNext' = FALSE /\ frame' = <<>>

(* Stream::read; poll and read; Serial::readByte.                             *)
Fetch ==
    /\ phase = "reading" /\ reader # "keyboard" /\ line # <<>>
    /\ phase' = "step"
    /\ byte' = Head(line) /\ line' = Tail(line)
    /\ taken' = taken + 1 /\ handed' = handed + 1
    /\ UNCHANGED <<reader, callVars, asioVars, lineHistory, heard, cuts>>

(* The window of readFrom ends, or no byte comes for the time poll waits.      *)
TimedOut ==
    /\ phase = "reading" /\ reader \in {"tool", "bridge"}
    /\ ReturnWithoutFrame
    /\ UNCHANGED <<reader, line, byte, asioVars, lineHistory, heard, byteHistory>>

-----------------------------------------------------------------------------
(* readBytesTimed, for one byte.                                             *)

(* The deadline is looked at before each byte.                                *)
DeadlinePassed ==
    /\ phase = "reading" /\ reader = "keyboard"
    /\ expired' = TRUE
    /\ ReturnWithoutFrame
    /\ UNCHANGED <<reader, line, byte, timer, op, lineHistory, heard, byteHistory>>

StartTimedRead ==
    /\ phase = "reading" /\ reader = "keyboard" /\ ~expired
    /\ phase' = "run"
    /\ timer' = "armed" /\ op' = "pending"
    /\ UNCHANGED <<reader, line, byte, callVars, expired, lineHistory, heard, cuts, byteHistory>>

(* The operation ends and its handler is queued.                              *)
ByteRead ==
    /\ op = "pending" /\ line # <<>>
    /\ op' = "read"
    /\ byte' = Head(line) /\ line' = Tail(line)
    /\ taken' = taken + 1
    /\ UNCHANGED <<reader, phase, callVars, timer, expired, lineHistory, heard, cuts, handed>>

TimerExpires ==
    /\ timer = "armed"
    /\ timer' = "expired" /\ expired' = TRUE
    /\ UNCHANGED <<reader, line, phase, byte, callVars, op, lineHistory, heard, cuts, byteHistory>>

(* Fault injection: the timer's handler does not cancel the port.             *)
TimerHandlerLeavesRead ==
    /\ timer \in {"expired", "cancelled"}
    /\ timer' = "off"
    /\ UNCHANGED <<reader, line, phase, byte, callVars, op, expired, lineHistory, heard, cuts, byteHistory>>

(* The port fails under the operation, which ends with an error.              *)
ReadFails ==
    /\ op = "pending"
    /\ op' = "failed"
    /\ UNCHANGED <<reader, line, phase, byte, callVars, timer, expired, lineHistory, heard, cuts, byteHistory>>

(* cancel() of the port ends an operation that is still waiting.              *)
TimerHandler ==
    /\ timer \in {"expired", "cancelled"}
    /\ op' = IF timer = "expired" /\ op = "pending" THEN "aborted" ELSE op
    /\ timer' = "off"
    /\ UNCHANGED <<reader, line, phase, byte, callVars, expired, lineHistory, heard, cuts, byteHistory>>

(* read_ec and bytes_read, as the operation has ended.                        *)
Results == [read |-> "gotByte", aborted |-> "gotNone", failed |-> "gotError"]

(* Fault injection: a byte that comes with the deadline counts as none.        *)
LateByteDropped ==
    /\ op \in DOMAIN Results
    /\ op' = IF op = "read" /\ expired THEN "gotNone" ELSE Results[op]
    /\ timer' = IF timer = "armed" THEN "cancelled" ELSE timer
    /\ UNCHANGED <<reader, line, phase, byte, callVars, expired, lineHistory, heard, cuts, byteHistory>>

(* They are set; cancel() of the timer queues its handler.                    *)
ReadHandler ==
    /\ op \in DOMAIN Results
    /\ op' = Results[op]
    /\ timer' = IF timer = "armed" THEN "cancelled" ELSE timer
    /\ UNCHANGED <<reader, line, phase, byte, callVars, expired, lineHistory, heard, cuts, byteHistory>>

(* run returns when nothing is waiting and both handlers have run.             *)
RunReturnsByte ==
    /\ phase = "run" /\ timer = "off" /\ op = "gotByte"
    /\ phase' = "step" /\ op' = "off"
    /\ handed' = handed + 1
    /\ UNCHANGED <<reader, line, byte, callVars, timer, expired, lineHistory, heard, cuts, taken>>

RunReturnsNone ==
    /\ phase = "run" /\ timer = "off" /\ op \in {"gotNone", "gotError"}
    /\ op' = "off"
    /\ ReturnWithoutFrame
    /\ UNCHANGED <<reader, line, byte, timer, expired, lineHistory, heard, byteHistory>>

-----------------------------------------------------------------------------
(* What the loop does with the byte.                                         *)

Continue == phase' = "reading" /\ UNCHANGED heard
Return(payloads) ==
    /\ phase' = "idle"
    /\ heard' = IF payloads = {} THEN heard ELSE Append(heard, CHOOSE p \in payloads : TRUE)
Restart == frame' = <<>> /\ escapeNext' = FALSE
InHand == phase = "step"
AfterByte == UNCHANGED <<reader, line, byte, asioVars, lineHistory, cuts, byteHistory>>

(* Outside a frame everything up to a delimiter is skipped.                   *)
Search ==
    /\ InHand /\ ~inFrame
    /\ inFrame' = (byte = HEADER)
    /\ Restart /\ Continue /\ AfterByte

(* Fault injection: one byte more than decoded[] has room for.                *)
KeepOneMore(b) ==
    IF Len(frame) > MAX_PAYLOAD + 2
      THEN inFrame' = FALSE /\ Restart
      ELSE frame' = Append(frame, b) /\ escapeNext' = FALSE /\ UNCHANGED inFrame

(* readFrom.                                                                 *)
Keep(b) ==
    IF Len(frame) >= MAX_PAYLOAD + 2
      THEN inFrame' = FALSE /\ Restart
      ELSE frame' = Append(frame, b) /\ escapeNext' = FALSE /\ UNCHANGED inFrame

ToolUnescape ==
    /\ InHand /\ reader = "tool" /\ inFrame /\ escapeNext
    /\ Keep(Flip(byte))
    /\ Continue /\ AfterByte

ToolEscape ==
    /\ InHand /\ reader = "tool" /\ inFrame /\ ~escapeNext /\ byte = ESCAPE
    /\ escapeNext' = TRUE
    /\ Continue /\ AfterByte /\ UNCHANGED <<inFrame, frame>>

ToolData ==
    /\ InHand /\ reader = "tool" /\ inFrame /\ ~escapeNext /\ byte \notin {END, ESCAPE}
    /\ Keep(byte)
    /\ Continue /\ AfterByte

(* Fault injection: after a bad frame the search for a header starts again.    *)
ToolBadFrameSearches ==
    /\ InHand /\ reader = "tool" /\ inFrame /\ ~escapeNext /\ byte = END
    /\ Restart
    /\ inFrame' = FALSE
    /\ IF CheckedPayload(frame) = {} THEN Continue ELSE Return(CheckedPayload(frame))
    /\ AfterByte

(* A delimiter that closes no valid frame opens the next one.                 *)
ToolEnd ==
    /\ InHand /\ reader = "tool" /\ inFrame /\ ~escapeNext /\ byte = END
    /\ Restart
    /\ IF CheckedPayload(frame) = {}
         THEN Continue /\ UNCHANGED inFrame
         ELSE Return(CheckedPayload(frame)) /\ inFrame' = FALSE
    /\ AfterByte

(* The two Raspberry programs keep the frame as it comes.                     *)
HostData ==
    /\ InHand /\ reader # "tool" /\ inFrame /\ byte # END
    /\ IF reader = "bridge" /\ Len(frame) >= BRIDGE_LIMIT
         THEN inFrame' = FALSE /\ frame' = <<>>
         ELSE frame' = Append(frame, byte) /\ UNCHANGED inFrame
    /\ Continue /\ AfterByte /\ UNCHANGED escapeNext

Decoded ==
    IF reader = "bridge" THEN decodeFromBytes(frame) ELSE unbuild(<<HEADER>> \o frame \o <<END>>)

(* Adjacent delimiters: the second one opens the frame.                       *)
HostAdjacent ==
    /\ InHand /\ reader \in {"keyboard", "bridge"} /\ inFrame /\ byte = END /\ frame = <<>>
    /\ Continue /\ AfterByte /\ UNCHANGED callVars

(* A frame that is not empty ends the call, valid or not; in the library's     *)
(* blocking call an empty one does too.                                       *)
HostEnd ==
    /\ InHand /\ reader # "tool" /\ inFrame /\ byte = END
    /\ frame # <<>> \/ reader = "library"
    /\ Return(Decoded)
    /\ inFrame' = FALSE /\ frame' = <<>>
    /\ AfterByte /\ UNCHANGED escapeNext

-----------------------------------------------------------------------------
Init ==
    /\ reader \in Readers /\ line = <<>>
    /\ phase = "idle" /\ byte = 0
    /\ inFrame = FALSE /\ escapeNext = FALSE /\ frame = <<>>
    /\ timer = "off" /\ op = "off" /\ expired = FALSE
    /\ sent = <<>> /\ heard = <<>> /\ faults = 0 /\ added = FALSE /\ cuts = 0
    /\ taken = 0 /\ handed = 0

AsioStep ==
    \/ ByteRead \/ TimerExpires \/ TimerHandler \/ ReadHandler
    \/ RunReturnsByte \/ RunReturnsNone

ByteStep ==
    \/ Search \/ ToolUnescape \/ ToolEscape \/ ToolData \/ ToolEnd
    \/ HostData \/ HostAdjacent \/ HostEnd

ReaderStep ==
    \/ Call \/ Fetch \/ TimedOut \/ DeadlinePassed \/ StartTimedRead
    \/ ReadFails \/ AsioStep \/ ByteStep

Next == (\E m \in Messages : Send(m)) \/ LineFault \/ ReaderStep

Spec == Init /\ [][Next]_vars

(* The reading program runs, its timer expires and its handlers are called.    *)
FairSpec == Spec /\ WF_vars(AsioStep)

-----------------------------------------------------------------------------
Phases == {"idle", "reading", "run", "step"}
Operations == {"pending", "read", "aborted", "failed", "gotByte", "gotNone", "gotError"}

(* decoded[] of readFrom has MAX_PAYLOAD + 2 bytes.                           *)
DecodedFits == reader = "tool" => Len(frame) <= MAX_PAYLOAD + 2

TypeOK ==
    /\ reader \in Readers /\ line \in Seq(Bytes)
    /\ phase \in Phases /\ byte \in Bytes
    /\ inFrame \in BOOLEAN /\ escapeNext \in BOOLEAN
    /\ frame \in Seq(Bytes) /\ DecodedFits
    /\ timer \in {"off", "armed", "expired", "cancelled"}
    /\ op \in {"off"} \cup Operations
    /\ expired \in BOOLEAN
    /\ sent \in Seq(Messages) /\ heard \in Seq(Seq(Bytes))
    /\ faults \in 0..MAX_FAULTS /\ added \in BOOLEAN /\ cuts \in 0..MAX_CUTS
    /\ taken \in Nat /\ handed \in Nat

(* What the reader understands: the tool the device and the command, the        *)
(* Raspberry programs the four values of an answer.  Payloads too short and      *)
(* values that are no codes are refused or reported as unknown.                *)
Values(d, n) ==
    [k \in 1..n |-> IF reader = "tool" THEN AvrInt(FloatAt(d, k)) ELSE HostInt(FloatAt(d, k))]

Understood(d) ==
    LET n == IF reader = "tool" THEN 2 ELSE 4
    IN  IF Len(d) >= 4 * n THEN {Values(d, n)} ELSE {}

(* Commands for a tool of the line; acknowledgements and sensor reports.        *)
Meaningful(m) ==
    IF reader = "tool"
      THEN m[1] \in {c[1] : c \in Commands} /\ m[2] \in 1..3
      ELSE \/ m[2] = 1 /\ m[3] \in 1..3 /\ m[4] \in 0..4
           \/ m[2] = 2 /\ m[3] \in {0, 1} /\ m[4] \in {0, 1}

UnderstoodMessages == UNION {Understood(heard[i]) : i \in DOMAIN heard}

(* A damaged line may cost commands and answers and makes up none: what is      *)
(* understood as a command or an answer of the protocol was sent, though        *)
(* Fletcher-16 takes 0x00 for 0xFF and overlooks a zero where the sum is zero.   *)
(* An answer with a zero added inside is the exception: a report of a limit may *)
(* be read as one of no limit, because the bytes before it add up to 255.        *)
OnlySent ==
    reader = "tool" \/ ~added =>
        \A m \in UnderstoodMessages : Meaningful(m) => m \in ToSet(sent)

(* An undisturbed line delivers what was sent, in the order it was sent in and   *)
(* nothing twice.                                                             *)
InOrder ==
    faults = 0 =>
        \E place \in [DOMAIN heard -> DOMAIN sent] :
            /\ \A i, j \in DOMAIN heard : i < j => place[i] < place[j]
            /\ \A i \in DOMAIN heard : heard[i] = Payload(sent[place[i]])

(* One fault costs two frames at most and a call that ends inside a frame one:  *)
(* the readers the programs use find their place again whatever delimiters      *)
(* were lost or added, and an undisturbed line delivers everything.            *)
LossBounded ==
    line = <<>> /\ phase \in {"idle", "reading"} /\ reader # "library" =>
        Len(sent) <= Cardinality({i \in DOMAIN heard : Understood(heard[i]) \cap ToSet(sent) # {}})
                        + 2 * faults + cuts

(* A timed read takes no byte that it does not deliver, and unless the port     *)
(* fails it ends without one only after its own deadline, in whatever order the  *)
(* timer's handler and the operation's are queued.                             *)
TimedReadExact ==
    /\ phase \in {"idle", "reading"} => taken = handed
    /\ op \in {"aborted", "gotNone"} => expired

(* io_service::run returns: one of the two handlers always ends the other wait. *)
TimedReadReturns == phase = "run" ~> phase # "run"
=============================================================================

# ROC V2: TLA+ models, checks and proofs

ROC V2 is a rover with a motorised tool. This directory holds TLA+ models of its
control software, the TLC configurations that check them on small instances, and
proofs for TLAPS of the theorems that hold for every value of the constants.

## 1. The system

| Part | Source | State it keeps | What it does |
|---|---|---|---|
| Tool controller | `src/Tool_firmware/Test/Tool_firmware/Tool_firmware.ino` | `toolState`, `faultCode`, two relay outputs, two sensor flags written by interrupts, times from `millis()` | `loop()` waits up to 100 ms for a frame, executes and answers it, then runs `updateTool()` |
| Simple tool firmware | `src/Tool_firmware/Simple_firmware/simple_firmware` | the relay outputs and what its serial buffer holds | answers, then moves with a blocking loop |
| HIL frames | `HilFrameArduino.h`, `hil_frame.cpp`, `frame.cpp`, with the readers in `serial_port.cpp`, `hil_serial.cpp` and `serial.cpp` | the bytes of a frame, the place in it, a timer and a read operation | delimiters, escapes and a Fletcher checksum over RS485 |
| RC radio bridge | `src/Raspberry/RC_Tool_Radio_Bridge` | its options, `last_switch_position`, `baseline_captured`, the time of the last request, `g_running` | reads its arguments, opens its port and socket, sends UP once, reads RC_CHANNELS from a UDP socket, sends UP or DOWN when the switch changes, waits for one answer |
| Keyboard controller | `src/Raspberry/Tool_Raspbarry_base` | the serial port, its options and its asynchronous reads, the attempt it is at | sends a command from a menu, up to `max_attempts` times |
| Keyboard program of the interrupt-driven tool | `src/Raspberry/Examples/Tool_control` | the same, and the frame it looks at | as above, without a pause between attempts and with two commands more |
| Parking brake | `src/PixHawk_Scripts/scripts/ROC_brakes_rc5_global_auto.lua` | two relays | every 20 ms applies or releases both brakes from arming, RC5, mode, RC1 and RC2 |
| RTK injector, start-up scripts, parameters, examples, test sketches | elsewhere under `src/` | none, or data | not modelled, see section 8 |

The bridge or one of the two keyboard programs is the master of the RS485 line, the
tool answers. The brake script runs in the autopilot and shares nothing with the tool
but the radio.

What is hard here: the interrupts of the tool fall between any two reads of its
loop; the loop blocks while it answers, and only the loop looks at limits and
timeouts; `millis()` wraps; commands come at any moment and in any order; answers
come late and are not matched with commands; a command is sent again to a tool that
was only late; a damaged line moves the delimiters of the frames; a timer and a read
end each other; the autopilot restarts; the brake
script decides from values read at different moments. `PROJECT.json` lists these
hazards at the lines where they bite, with the properties aimed at each.

## 2. Modules

| Module | Models |
|---|---|
| `ToolController` | the interrupt-driven firmware, one action per step of `setup()`, `loop()`, `processCommandFrame()`, `startUpTool()`/`startDownTool()` and `updateTool()`, an action per interrupt and one for time |
| `ControllerService` | what it promises the program that commands it; `ToolController` implements it, `ToolConsole` uses it |
| `ToolControllerProofs` | its theorems, the refinement among them |
| `RadioBridge` | `main()` of the bridge, `classifyTwoPositionSwitch`, `sendToolCommand`, `readAndPrintToolResponse`, `readFrame`, `receiveMessage`, with the radio, the autopilot, the tool and the line around it |
| `RadioBridgeProofs` | its theorems |
| `BrakeScript` | `update()` of the brake script, one action per read and per relay write |
| `BrakeScriptProofs` | its theorems |
| `SimpleTool` | the blocking firmware: `setup()`, `loop()`, `processCommandFrame()`, `moveUpSimple()`/`moveDownSimple()` and `activate*RelaySafely()` |
| `ToolService` | what it promises the masters; `SimpleTool` implements it, `KeyboardController` uses it |
| `SimpleToolProofs` | its theorems |
| `HilFrame` | the HIL frame: the three encoders, the three decoders, the checksum and the floats of a payload |
| `HilFrameProofs` | theorems about the codec |
| `HilLine` | one direction of the serial line byte by byte, and four readers: `readFrom` of the firmware, `readFrameTimed` with the handlers of `readBytesTimed`, `SerialPort::readFrame` of the bridge, and the blocking `HilSerial::readFrame` |
| `HilLineProofs` | its theorems |
| `KeyboardController` | `main()`, `Serial::open`, `transactWithRetries` and `printResponse`, against the tool of `ToolService` |
| `KeyboardControllerProofs` | its theorems |
| `ToolConsole` | `main()`, `transactWithRetries` and `printResponse` of the keyboard program of the interrupt-driven tool, against the tool of `ControllerService` |
| `ToolConsoleProofs` | its theorems |
| `MCToolController`, `MCRadioBridge`, `MCBrakeScript`, `MCSimpleTool`, `MCHilLine`, `MCKeyboardController`, `MCToolConsole` | the values of the constants for TLC |

`HilLine` EXTENDS `HilFrame` and shows what a byte-level line does to whole frames:
they arrive as they were sent, are lost, or are taken for a frame without meaning.
`RadioBridge` and `KeyboardController` build on that with lines that lose and damage
whole frames and make frames of noise, and on `ToolService`, which `SimpleTool` implements: `KeyboardController`
through an INSTANCE, `RadioBridge` as a bounded queue that is answered in order.
`ToolConsole` stands on `ControllerService`, which `ToolController` implements, in the
same way. That the tool of each keyboard model takes no step its service does not allow
is a theorem of both (`ToolIsService`).

### ToolController

`phase` says where `setup()` or `loop()` stands. The variables have the names of
the sketch where TLA+ allows: `toolState`, `faultCode`, `stateStart` for
`stateStartMillis`, `movementStart` for `movementStartMillis`, `activeISR[s]` for
the two volatile flags, `relay[d]` for the two outputs. `startUpTool` and
`startDownTool` are the same code with the roles of the two sensors exchanged, so
their steps take a direction `d`. `hasSensorConflict` is two steps where its
outcome matters, because `&&` reads LL after HL, and an interrupt may fall between.

Time passes where the code waits: in `readFrom`, in `delay` and the transmission
of an answer, and in the calibration. Everything else takes microseconds, less
than a tick. That the debug prints on the USB port never fill their buffer long
enough to matter is part of this assumption. `clk` is `millis()` modulo `W`.
`restFor`, `onFor` and `overFor` record real time for the properties; no action
reads them. `movementTimeoutMs` is assigned the same 5000 in both directions and
is the constant `MOVEMENT_TIMEOUT`.

`filteredCurrentA` is whether it exceeds the limit. The calls that measure the
current are commented out in the sketch, so it is only ever assigned zero;
`stalled` says whether the motor is jammed for the whole of a movement. A read of
a relay output gives what was written to it, so the two failure returns of
`activateUpRelaySafely` and its twin cannot be reached and are left out; the check
at the head of `updateTool` stays, and `RelaysMatchState` shows that it never finds
both relays on. The two sensor reads within `getToolPublicStatus`, and the two in
`sendToolStatus`, are one step each: no property compares them.

`ControllerService` is smaller: a command is `held` until its one `answer`, and nothing
else happens meanwhile; `granted` is a direction answered OK and not yet driven,
`driven` the directions of the motor. The refinement mapping reads `held` from `cmd`
while the frame is looked at, `answer` from `reply` while it goes out, `granted` from
the PREPARE states and `driven` from the relays. The service says what a master may
conclude from an answer: OK to a stop is a tool that stands, MOVING a tool that moves
or is about to, FAULT a tool in fault.

### RadioBridge

`phase` says where `main()` stands. `SetFlag`, `SetValue` and `RejectArgument` are
`parseArguments`, argument by argument; an argument is an option and the number its
value denotes, if it denotes one and the option accepts it. `config` keeps the
options that are looked at again, `OpenSerial` and `OpenEndpoint` follow, and every
failure ends in "stopped". `--help` and a signal before its handler is installed do
as well.

A command goes out from `startup`, `edge` or `status`; each has its waiting phase,
and `After` says where `main()` goes when `sendToolCommand` has returned, whatever
it returned: `main()` ignores the result. The switch is classified by the code's
three branches, then inverted when `InvertSwitch` says so.

A datagram is a sequence of messages. `parseDatagram` keeps the first that passes its
check. `crcExtraForMessage` knows the messages 65 and 76 and answers 0 for the others,
whose frames therefore fail and are skipped; behind a COMMAND_LONG an RC_CHANNELS is
not seen. `upsets` bounds what goes wrong: a request that is lost, a value that is
hidden, a restart of the autopilot. A request that cannot be sent counts as made, as
in the code, which ignores the result.

The tool is a queue of commands it has not answered, with a bounded buffer, and the
answers not yet read. A command may be missed, by a full buffer or on the line, and an
answer lost. An answer is the command it is for: what it says, or that it is damaged, is
only printed. The process that had the port before may have left a command or an answer;
`openPort` flushes the answer.

`EndWait` is the return of `readAndPrintToolResponse`: with the frame that came first
(`TakeAnswer`), after silence (`AnswerTimeout`), or with noise (`NoiseEndsWait`), since
`SerialPort::readFrame` returns any bytes between two delimiters and the caller gives up
when they are no HIL frame. Noise comes when an answer is already there, or before it;
`noises` counts these returns and bounds them. `givenUp` says that a wait has ended
without its answer, `called` which movement the start-up or the last change calls for and
`fate` what became of its command: due, missed by the tool, sent, taken by the tool last
("obeyed"), or one of the two things `ChangeCommandedOnce` excludes, sent twice or undone
by an older command the tool takes after it. All four are history.

### HilFrame and HilLine

The three encoders escape the same bytes and add the same checksum; their decoders
differ, and are three definitions: `unescapedCopy` keeps a last escape as data,
`decodeFromBytes` refuses it, and `readFrom` unescapes while it reads. `Flip` is the
exclusive or with 0x20. The floats of a payload are whole numbers; `HostInt` and
`AvrInt` are the conversions to `int` of 32 bits and of 16, and tell the codes of the
protocol from all the rest.

`Call` is a call of one of the four readers; it returns to "idle". `Send` and the
faults of the line come between calls: since a reader may fetch any byte late, a byte
that arrives during a call is the same as one that was there before. `Search`, the
`Tool` and the `Host` actions are what the loops do with a byte, and `TimedOut`,
`DeadlinePassed` and `RunReturnsNone` the ways to return without a frame.

`StartTimedRead` arms the timer and starts the read; then `ByteRead` and
`TimerExpires` happen in any order, and each queues a handler. `TimerHandler` cancels
the port, which aborts a read that is still waiting but not one whose byte has been
read; `ReadHandler` cancels the timer, which does not undo an expiry. `ReadFails` is a
port that fails under the operation: the call returns without a frame, as after the
deadline. `run` returns when both handlers have run. `taken` counts the bytes that left the port and `handed`
those that reached the loop.

### KeyboardController

`StartUp` is the arguments, `Serial::open` and its five options, each of which the
port may refuse. `SendCommand` is a frame that reaches the tool or does not, for
whatever reason; `SendFails` a write that is cut short, at which the whole transaction
ends. An attempt ends with an answer taken (`TakeAnswer`: any valid one), with a
damaged one, in the middle of one, or without one; the last three lead to the next
attempt. A wait may end without an answer although one is there, because noise can
close a frame before it. `origin` and `grantedFor` say which command of the operator
a frame in the tool comes from; they are history, as are `tries`, `starts` and
`givenUp`.

### ToolConsole

The program differs from the one of `KeyboardController` in its commands, STOP and
RESET_FAULT among them, and in that it does not pause between attempts. `ReadFrame` returns the first frame of
the line, valid or not, and `printResponse` looks at it in a step of its own;
`ReadNoise` is a frame made of noise, `ReadIsCut` a deadline in the middle of an answer.
The start-up is one step here, since `KeyboardController` has it option by option and
the two `serial.cpp` are the same file. The lines of both directions are queues that
lose and damage frames. `givenUp` says that an attempt of this command ended without
its answer, `doubt` that one of an earlier command did; both are history.

Both keyboard models begin with an empty line and a tool that has nothing to do.
`Serial::open` does not flush the port as the bridge does, so what an earlier program has
left there would be one more late answer, in `doubt` from the start.

### BrakeScript

Between any two reads of `update()`, the vehicle and the radio may change. `held`
is a history variable: the facts that have been true since the update began. The
properties about a lock speak of a lock that held for a whole update, since
nothing an update reads can be promised of a vehicle that changes under it.

### SimpleTool and ToolService

`phase` says where `setup()` or `loop()` stands and `remaining` how much is left of
the present `delay`. `moveUpSimple` and `moveDownSimple` are the same code with the
roles of the directions exchanged, so are their two `activate` functions: the
direction is `cmd`. A movement is rounds of one check (`KeepMoving` or
`StopMovement`) and one delay. `FOREIGN` stands for a frame for another device or
one too short. A frame lost on the line, in the tool's own transmission or at the
end of a receive window needs no action: it does not arrive. `limit` and `jammed`
change at any moment, as does the supply: `PowerCycle` forgets everything.

`pinMode` is the Arduino core's: on an AVR it makes the pin an output that drives
what its latch holds, LOW after a reset, and LOW is the active level here. Reading
an output gives what was written, so the failure returns of `activate*RelaySafely`
are left out, as in `ToolController`. `onFor`, `limitFor`, `stallFor` and
`lastAnswer` are history.

`ToolService` is a queue: frames are held in order; each is answered once, while the
tool is at rest; each OK grants one movement, which begins before anything else is
answered. The refinement mapping reads the queue from the serial buffer, with the
command being answered before it. What the mapping leaves out is the instant in
`setup()` when the outputs are driven, which has a run of its own.

## 3. What the runs check

| Run | Constants | What it shows |
|---|---|---|
| `tool_safety` | W=5, timeout 2, dead time 2, receive window 1, reply 1 tick; every command | eight properties of the tool, below |
| `tool_liveness` | W=4, all waits 1; UP, STOP and an ignored frame | a motor that is on stops; with both limits active the relays stay off; the firmware implements `ControllerService` |
| `tool_fault_report` | as `tool_safety` | violated: `CMD_STOP` leaves a fault without clearing its code |
| `tool_jam` | timeout 5, W=8 | violated: nothing but the timeout stops a jammed motor |
| `bridge` | eight command lines; the default band 1420..1580, values 1420 and 1580; RC_CHANNELS behind a message that is skipped or one that is not; one datagram, a tool that holds two commands, one upset, one frame of noise | six properties of the bridge |
| `bridge_hysteresis` | no arguments; values 1200, 1450, 1550, 1800 | violated: a value inside the band changes the position |
| `hil_line` | four readers; three messages, one fault of up to two bytes, two calls cut short or one and the fault, a port that may fail | six properties of the line and its readers |
| `keyboard` | two attempts, a tool that holds one frame more than it answers, two commands | four properties of the keyboard controller |
| `tool_console` | two attempts, two commands out of five | three properties of the keyboard program of the interrupt-driven tool |
| `simple_tool` | W=8, timeout 5, check period 2, other delays 1; a buffer of two frames; every frame | six properties of the simple firmware |
| `simple_tool_setup` | as `simple_tool` | violated: `setup()` drives both relay outputs for an instant |
| `brake` | the script's constants, each channel at its edges and without signal | four properties of the script |

The type invariants of `ToolController`, `RadioBridge`, `KeyboardController`,
`ToolConsole`, `SimpleTool` and `BrakeScript` are proved for all values of the constants
(section 4) and are no properties of the runs; the one of `HilLine`, whose bound on
`decoded[]` the code has to keep, is both.

**Tool.** `RelaysMatchState`: a relay is on exactly in the MOVING state of its
direction. `OnTimeBounded`: the motor runs at most the timeout and one loop,
through wraps of `millis()` and a flood of commands. `OvertravelBounded`: it is off
within one loop of the interrupt that flagged its limit. `SensorViewCurrent`: a
flag differs from its input only while an interrupt is due or after an edge lost
in `setup()`. `AckTellsState`: an answer tells the state the tool is in.
`DeadTimeRespected`: a relay closes after a rest of the dead time.
`FaultLatched`: only STOP and RESET_FAULT leave a fault. `AcceptedMovementKept`:
an accepted movement begins unless stopped. `MovementEnds` and
`ConflictDisablesTool` are the liveness properties. `ServiceKept`: the firmware
implements `ControllerService`, with the sensors changing between any two steps.

**Bridge.** `OutOfBandDecides`: outside the band the position depends on the value
alone. `AnswersMatchUntilGivenUp`: until a wait has ended without its answer, in silence or
with noise, each answer is that of the command just sent; after that the program gives no
such guarantee, and `BacklogBounded` says how far behind it may be: one more than the
tool's buffer however many waits time out, and one more for each that noise has ended.
`ChangeCommandedOnce`: the command of a change is not forgotten, nor sent twice, and when
it has reached the tool it is the movement the tool carries out last, behind what an
earlier change, a late wait or an earlier process has left there; a command that is lost
is not repeated, and of the tool then nothing is said. `SwitchObeyed`: a switch
left above the band is obeyed in the end, through an upset, unless the program ends or
its options keep it from asking for the stream. `ShutdownCompletes`: after a signal the
program ends, wherever it was.

**Line.** `OnlySent`: what is understood as a command or an answer of the protocol was
sent. `InOrder`: an undisturbed line delivers what was sent in the order it was sent in
and nothing twice. `LossBounded`: a fault costs at most two frames and a call cut short one, after
which the reader has found its place again. `TimedReadExact`: a timed read loses no
byte and is cut short only by its deadline, in either order of the handlers.
`TimedReadReturns`: `run` comes back. `TypeOK` holds `decoded[]` within its bounds.

**Keyboard.** `PortReady`: commands are sent only through a port with all its options
set. `ExecutionsWithinAttempts`: a command moves the tool at most as often as it was
sent, and it is sent at most `max_attempts` times; that it may move it more than once
is how the program retries. `AnswersOwed`: the answers a later command may take for its
own are at most the attempts given up. `TransactionEnds`: every command returns to the
menu.

**Console.** `StopConfirmed`: an operator who reads that his STOP was executed has a tool
that stands and is not about to move, however often the STOP was sent and whatever he
commanded before; `FaultConfirmed`: who reads of a fault has a tool in fault. Both hold
unless an earlier command was given up, when the answer may be an old one.
`TransactionEnds`: as above.

**Simple tool.** `RelayFollowsCommand`: after `setup()` a relay is on only inside the
movement of an answered command. `OnTimeBounded`, `OvertravelBounded` and
`StallBounded`: a movement ends within a check period of its timeout, and within one
of reaching the limit or of a jam, though the first current check is skipped and the
limit was last read before the answer. `ServiceKept`: it implements `ToolService`.
`ListensAgain`: nothing but a failing supply keeps it from `readFrom`.

**Brake.** `BrakesTogether`, `LockedIsBraked` and `RulesFollowed` are safety;
`LockHolds` says that a vehicle that stays locked ends up braked for good.

### Bounds, and why they are enough

One tick is about 100 ms. The code compares times only with the constants, so what
matters is their order and that `W` exceeds a timeout and a loop, as 2^32 ms does;
W=5 makes the counter wrap during most movements. The dead time of two ticks lets a
start be refused and repeated while it runs. In the simple firmware a timeout of 5 and a check period of 2 give
movements of up to four checks whose last is late by the most that can be. The channel values of the bridge are
the two limits of the band, at which the comparisons decide; `bridge_hysteresis` takes
values inside it, and the theorems `OutOfBand` and `InBandFlips` all of them. The command lines set what changes the program's
course, and one of each kind that ends it. A tool that holds two commands lets a second
one queue behind a late answer, and a full buffer drop a third. One upset is enough for
the stream to be lost after the baseline, a request to fail, or a value to be hidden. One
frame of noise leaves an answer for the next command, and the next one's for the one after
it; `AnswersMatch` and `Bounded` are proved for any number.
The messages of `hil_line` are chosen for their bytes: the identifier 254, whose float
holds 0x7E, and an answer whose checksum ends in 0x7D, so that delimiters are escaped and
escapes are split by faults. The noise is the delimiter and the two bytes the
checksum confuses. `MAX_PAYLOAD` 16 is the payload of an answer, so a frame with one
byte too many overflows, and `BRIDGE_LIMIT` 36 stands for 256: it is more
than the longest frame, as 256 is, and less than two that have run together. Three frames let a reader that has lost its place lose two
and hear the third. A call that ends inside a frame is followed by one that reads the rest
of it, which may end inside the next; after a fault the first call that is cut is the last
(`MAX_CUTS` counts both), and what calls after that do is `Recovery` (section 4). In `keyboard`, two commands of two attempts let the answer of the
first come during the second, and a tool with one waiting frame be full. In
`tool_console` they let a repeated STOP, a movement before it and a late answer meet.
The brake script
compares each channel with one or two constants, and the values are those
constants and their neighbours. The proofs need none of these bounds.

### Fairness

`ToolController`: the processor runs the loop (weak fairness of `LoopStep`), pending
interrupts are served, and `Tick` is strongly fair: `millis()` advances whatever the
loop does, so a wait that is entered again and again is not cut short for ever by a
frame. The masters and the sensors have no fairness.
`RadioBridge`: the process is scheduled, two seconds pass, and an autopilot that was
asked for the stream publishes it where it can be parsed. `AnswerTimeout` is fair as part of the process:
it assumes that the line falls silent for the timeout sooner or later, which
`readFrame`, whose timeout restarts at every byte, does need. The tool, the
switch and the noise have no fairness. `SimpleTool`: the processor runs and time passes; nothing is
assumed of the masters, the sensors or the motor. `HilLine`: the timer of a read expires
and `run` calls its handlers; the line has no fairness. `KeyboardController` and
`ToolConsole`: the program runs and the deadline of a wait comes; the operator, the
line, its noise and the tool have none.
`BrakeScript`: the scripting thread calls `update()` again.

## 4. What is proved

All proofs are checked by `tlapm`, with no assumption but the named ones on the
constants. The liveness theorems have a premise on the scheduling besides, named in
the module and explained at the end of this section.

`ToolControllerProofs` proves `TypeOK`, `RelaysMatchState`, `OnTimeBounded`,
`OvertravelBounded`, `DeadTimeRespected`, `SensorViewCurrent`, `AckTellsState`,
`FaultLatched` and `AcceptedMovementKept` from
`TimingAssumption` and `InputsAssumption`, for every width of the clock, every timing and every set of
frames. None of them is inductive alone. `ToolInv` adds what links the clock, the
records and the place in the loop: while a movement runs, `Elapsed(movementStart)`
is the time the motor has been on, and that time is at most the timeout less one
plus `LoopAge`, the time since `updateTool` last looked (`MovementClock`); the same
for the flagged limit (`OvertravelClock`); and while a movement is prepared the motor
has rested at least as long as the preparation lasts (`RestClock`). The last uses
that every way into PREPARE switches the relays off first. `AckTellsState` needs that a
tool in fault has a code to report (`FaultHasCode`), `FaultLatched` and
`AcceptedMovementKept` that no start command is looked at further in a fault
(`NoFaultWhileStarting`). `W` must exceed the
timeout and one loop, or the difference modulo `W` would forget a wrap.
`ServiceImplemented` is the refinement: every action is a step of `ControllerService`
or a stutter. It rests on `RelaysMatchState`, by which the state machine alone tells
`granted` and `driven`; on `StatusTrue`, that a status under construction stays true of
the tool until it is sent, since nothing but the loop moves the state machine; and on
`NoFaultWhileStarting`, since a start in a fault is refused and nothing else.

`RadioBridgeProofs` proves `TypeOK`, `OutOfBandDecides`, `ChangeCommandedOnce`,
`AnswersMatchUntilGivenUp` and `BacklogBounded` for every set of command lines, any losses
and any amount of noise.
`Checked` says that what `parseArguments` has accepted is what the loop runs with, so
that the hysteresis is not negative; with it `SwitchInv` is inductive, by
`ClassifyOutOfBand` for every threshold and hysteresis. `InStep` says that, until a wait
has ended without its answer, the line holds nothing but the command sent last or its answer, `NotFlushed`
marks where an earlier process's answer may still be there; `Backlog` that the line holds one
more than the tool's buffer only while an answer is awaited: a wait that ends in silence has
found the input empty, so no more is left than the tool holds, and one that ends with an
answer has taken it; noise alone ends a wait with both full, and `noises` counts it.
`OrderInv` adds to `ChangeCommandedOnce` where a command is still due (`Due`): before the
start-up's is sent, and in `edge`, where it is the one `lastPosition` calls for. The rest is
about the order in the tool's buffer: the command joins it behind all others, nothing but
STATUS follows it until the next change (`SentLast`), and whoever takes the head takes either
an older movement or, when no other waits, this one (`TakenInOrder`). `InBandFlips` is the fact
behind `bridge_hysteresis`: inside the band the inverted classification always returns
the other position, for every threshold and hysteresis, and without the inversion it
returns the same one. `AlwaysInverted`: no arguments clear the inversion.
`ShutsDown` is `ShutdownCompletes`: once `running` is false, `StepsToStop` counts the steps to
the end from every phase, seven at most, and no step of another actor adds to them.

`HilFrameProofs` proves of every payload of every length that the decoders give back
what the encoders were given (`FrameRoundTrip`) and that the three encoders write the
same bytes (`EncodersAgree`); of every place in a payload that the checksum notices a
changed byte, 0x00 for 0xFF and the reverse excepted (`ChecksumDetects`); and of every
code of the protocol that it survives its float on both sides (`FloatRoundTrip`). The
loops of the codec are recursive functions of how far they have come, so these are
inductions over numbers. The induction is stated of the set of numbers at which a fact
holds (`SetInduction`, from the least element of a set of naturals), since the library's
form, of an operator, is beyond the provers. `Unescape` takes each escaped byte
back while it is fed the next, and the difference of two checksums that differ in one
place is carried to the end, multiplied in the high sum by the number of bytes after it.
`DamageDetected` carries this through the escaping: a byte inside the frame that the line
changes is a byte of the payload or of the checksum, also when it is the second of an
escaped pair, and in both cases the frame is refused by all three decoders unless 0x00
and 0xFF were exchanged. A change that makes or removes an escape moves the bytes behind
it, where a 16-bit checksum promises nothing for every payload, and is not included.

`HilLineProofs` proves `TimedReadExact` for every set of messages, every noise, every
bound and a port that may fail. `AsioInv` says where the byte in hand is: `taken` is one more than `handed`
exactly between the end of the operation and the return of `run`, and an operation is
aborted only behind an expired timer. `DecoderWithinBounds` is that `readFrom` never
writes beyond `decoded[]`, for every `MAX_PAYLOAD`; with it `LineInv` gives `TypeOK`.
`InOrder` and, while nothing disturbs the line, `OnlySent` and `LossBounded`
(`DeliveredInOrder`, `DeliveredCompletely`) follow from `Undisturbed`: at every step the
bytes not yet read are the rest of a frame followed by whole frames, what the reader
keeps is what it should have made of the part it has read, and what was heard is what
was sent before that frame, without those lost to a call that ended inside theirs.
Each byte then goes by the place it has in its frame: the delimiter that opens it, the
escaped payload, the delimiter that closes it, where `FrameRoundTrip` says what it is
taken for.

`Recovery` is what remains of this on a line that was disturbed. It takes any moment of
any behaviour, with whatever the faults have left on the line and in the reader, and
supposes only that none comes from then on: then at most one frame sent since is lost,
besides those whose call ended inside them, and the reader hears the rest as it was sent.
Its invariant is `Recovering`, one of three: the reader is still among the bytes that were
there (`Behind`); it reads the first new frame as the rest of another, because an escape
from before took its header (`Astray`, the firmware's reader only); or it has found
its place (`Found`), which is `Placed`, the invariant of the undisturbed line, counted from
this moment. The two delimiters between frames are why one frame is enough: the closing
one of the frame that is lost ends whatever came before it. The blocking reader of the
library is left out, rightly: it never recovers (section 5).

`RunNeverStuck` and `TimedReadEnds` are about `run()`: there is always an operation or a
handler that can end it, and it ends. `TimerLeft + ReadLeft`, at most four, falls with every
step of Asio; `AsioInv` supplies that a read still pending has a timer that is yet to end it.

`KeyboardControllerProofs` proves `TypeOK`, `PortReady`, `ExecutionsWithinAttempts` and
`AnswersOwed`, for every `max_attempts` and every buffer of the tool, with
`AnswersMatch`: until an attempt is given up, a waiting answer is the one to the
command just sent, and `ToolIsService`. `Linked` ties the histories to the tool's queue, `SetSoFar` the
options set to the place in `Serial::open`, `TriesInv` the frames sent to the attempt;
the rest counts how often a command occurs in the queue, by lemmas on the
cardinality of the places of an entry when the queue grows at its end or loses its head.
`CommandBounded` is a measure of the transaction: `StepsLeft` falls with every step
of `transactWithRetries`, is left alone by the tool and the line, and is
positive exactly during a transaction, so a command takes at most three steps for each
attempt and one more. It needs that an answer is awaited only in an attempt that was
allowed (`AttemptAllowed`).

`ToolConsoleProofs` proves `TypeOK`, `StopConfirmed`, `FaultConfirmed` and
`ToolIsService` for every `max_attempts`, any number of commands, any losses and any
tool that keeps its service. `ConsoleInv` adds `OwnOnly`: without doubt all frames on
their way are of the present command and every answer on its way is true of the tool,
which stays so because the commands that could make it untrue are not on their way; and
`OneAtATime`: before the first attempt is given up, at most the frame awaited is under
way, which is why entering the next command then finds the line empty. `CommandBounded`
is the same measure as in the other keyboard program; here noise counts as a step that
brings the end nearer, since it uses up the attempt.

`BrakeScriptProofs` proves `TypeOK`, `BrakesTogether`, `LockedIsBraked` and
`RulesFollowed` for every center, deadband, threshold and relay polarity.
`LockInv` says that a lock that has held since the update began would have been
seen by the reads already made; `ReadsSoFar` carries what an undisturbed update has
established from one read to the next.

`SimpleToolProofs` proves `TypeOK`, `RelayFollowsCommand`, the three bounds (together and
each) and the refinement `ServiceKept`, for every timing, buffer and clock wider than a timeout and
a check period. `CommandPart` ties the command in hand to its result and to the
answer sent, `RelayPart` the outputs to the phase. `TimePart` makes the bounds
inductive: the time on plus what is left of the delay is below the bound, since
a new delay begins only when the check has found the timeout not reached, the limit
inactive and, after the first round, no jam. `ServiceStep` maps each action
to a step of `ToolService` or a stutter.

Liveness. `TimedReadReturns` and `ShutdownCompletes` are proved, because the number of
steps they take is bounded by a number that does not depend on the constants: each rank is a case of its own, and the
temporal prover combines them. `CommandGoesOn` is that case for an arbitrary rank of a
command: whatever is left of it becomes less. With `CommandBounded` this is
`TransactionEnds` for every `max_attempts`, but the last inference is an induction over
a temporal formula, which cannot be stated here; `TransactionEnds` itself stays with TLC.
ENABLED is beyond the provers, so these theorems do not start from weak fairness but from
what it amounts to: `HandlersCalled`, `Scheduled` and `Transacts` say that a program which
is for ever in a phase in which it can take a step takes one again and again. TLC has found
each of them to follow from the `FairSpec` of its module, on the instances of section 3.

Model-checked only: the other liveness properties, whose rank depends on the clock, the
buffers or several actors that are fair together; and `OnlySent` and `LossBounded` of
`HilLine` when the line is disturbed. Neither of the two holds for every constant: enough
faults make a frame that was never sent pass a checksum of 16 bits, and one
burst that is long enough takes more frames than `LossBounded` allows. `hil_line` shows how
far one fault goes with messages chosen for the worst of their bytes; what holds in
general is `DamageDetected`, of the one frame, and `Recovery`, of those after it.

## 5. Where the code and its documents disagree

* `bridge_hysteresis`: the stored position is the inverted one and is compared as if
  it were the raw one, so in the default configuration noise inside the band sends a
  command per message; the README of the bridge says that the band avoids false
  transitions.
* `tool_fault_report`: STOP leaves TOOL_FAULT with the code still set; the README
  says a fault is reported as STATUS_FAULT and cleared by RESET_FAULT.
* `simple_tool_setup`: the comments of the firmware and its README want one relay
  inactive before the other is active; `setup()` makes both pins outputs, at the
  active level, before it writes the inactive one. The interrupt-driven firmware does
  the same; its model begins after those lines.
* `tool_jam`: the README relies on the current sensor against jamming; the calls that
  read it are commented out.

What the models show besides:

* The switch of the bridge is inverted by default, where its README and its usage text
  say that low is DOWN, and no option turns the inversion off: this is the theorem
  `AlwaysInverted`.
* A zero byte added inside an answer is overlooked by the checksum where the bytes
  before it add up to 0 modulo 255; a report of an active limit may then be read as one
  of an inactive limit. `OnlySent` leaves added bytes out for answers for that reason.
* The blocking `HilSerial::readFrame` (`hil_serial.cpp:39`) returns the empty frame between
  adjacent delimiters, and after one lost delimiter it is out of step for good.
  `LossBounded` leaves it out; no program calls it.
* `frame.cpp:93` keeps a last escape "so checksum fails". When what was lost is the
  escaped high byte 0x7D of the checksum itself, the byte kept is that byte, and the
  frame passes, rightly as it happens.
* A command of the bridge that does not reach the tool, or whose answer does not come, is
  never repeated, and `last_switch_position` has been updated before it was sent: the tool
  stays in the other position until the switch moves again.
* Noise between two delimiters ends a wait of the bridge at once, with "invalid HIL frame".
  The answer stays behind, and from then on every command takes the answer of an earlier one,
  one more behind for each such frame, until a command or an answer is lost or the port is
  opened again: the input is flushed only there. This is `noises` in `BacklogBounded`.
* The answer of an attempt that was given up is taken by a later command as its own, by
  the two keyboard programs and by the bridge; none compares the command it echoes. The
  keyboard program of the interrupt-driven tool may so print OK for a STOP that never
  arrived; `doubt` in `StopConfirmed` is this case.
* `--request-rc-rate-hz` with zero or less makes the bridge ask the autopilot every two
  seconds to stop the stream it needs.
* A SIGTERM between the installation of its handler and the first command does not keep
  the bridge from sending UP.

## 6. Running it

    tlc -workers 2 -config MCToolController.cfg MCToolController.tla
    tlapm ToolControllerProofs.tla

and so on for the other pairs in `PROJECT.json`. The largest run, `tool_safety`,
has 7.6 million states and takes about two minutes. The definitions marked
"Fault injection" are plausible bugs, one for each property; `PROJECT.json`
says which definition each one replaces.

## 7. Plan

Done: the two firmwares and the services they implement, the bridge, the brake script,
the frames, the line and its readers, the two keyboard programs. What is left is a
composition:

* `ToolLink`: `RadioBridge` and `SimpleTool` over one lossy line, composed: for how
   long the switch and the tool may disagree, and that the bridge's view of the tool
   is `ToolService`.

## 8. Not modelled

The ADC and float arithmetic of the current sensor (the sketch never calls it); the CRC
of MAVLink messages and the layout of their payloads (a message passes its check or
does not); what termios and the socket calls do in the kernel; log output and the texts
for the operator; `poll` and `read` of the bridge's port failing with an error, which
`readFrame` answers by returning or by repeating without end. Noise that looks like a
complete, valid frame is not modelled above the byte level; `hil_line` shows that one fault does not produce one with a meaning.
In `frame.cpp`, `serial.cpp` and `HilFrameArduino.h` the members that no program calls
(payloads of doubles and integers, getters of the options, reads of several bytes) are
left out.

The files of the HIL library in `src/Raspberry/Examples/Tool_control/src` are those of
the keyboard controller once more, byte for byte, and so are the copies of
`HilFrameArduino.h` beside the sketches: what is modelled holds of them.
`Examples/hil_communication_standalone` is an earlier version
of the library. `udp.cpp` and `hil_udp.cpp` are linked but used by no program of their
directory. The bench sketches under `Tool_firmware/` and `PixHawk_Scripts/scripts/old`
are earlier versions of what is modelled. `rtcm_injector.py` forwards bytes and keeps a
sequence number only; the sniffers, the systemd unit and the start script are I/O.
Parameter files and logs are data.

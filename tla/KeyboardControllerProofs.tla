----------------------- MODULE KeyboardControllerProofs -----------------------
(* Proofs about KeyboardController, for every max_attempts, buffer of the tool  *)
(* and number of commands.                                                    *)
EXTENDS KeyboardController, SequenceTheorems, FiniteSetTheorems, TLAPS

(* What the proofs use of the assumptions on the constants.                   *)
LEMMA Parameters ==
    /\ MAX_ATTEMPTS \in Int /\ BUFFER \in Nat /\ MAX_TRANSACTIONS \in Nat
    /\ \A n \in Nat : n <= MAX_TRANSACTIONS => n \in 0..MAX_TRANSACTIONS
    /\ \A t \in Transactions : t \in Nat /\ t >= 1 /\ t <= MAX_TRANSACTIONS
    /\ \A n \in 0..MAX_TRANSACTIONS : n # 0 => n \in Transactions
<1>1. MAX_ATTEMPTS \in Int
  BY AttemptsAssumption
<1>2. BUFFER \in Nat
  BY HeldFramesAssumption
<1>3. MAX_TRANSACTIONS \in Nat
  BY TransactionsAssumption
<1> QED BY <1>1, <1>2, <1>3 DEF Transactions

(* A sequence that loses its head.                                            *)
LEMMA Shrinks ==
    ASSUME NEW S, NEW s \in Seq(S), s # <<>>
    PROVE  /\ Head(s) \in S /\ Tail(s) \in Seq(S) /\ Head(s) = s[1]
           /\ Len(Tail(s)) = Len(s) - 1 /\ Len(s) \in Nat /\ Len(s) > 0
           /\ \A i \in 1..Len(Tail(s)) : Tail(s)[i] = s[i + 1]
  BY EmptySeq, HeadTailProperties

(* A sequence that grows by an element.                                       *)
LEMMA Grows ==
    ASSUME NEW S, NEW s \in Seq(S), NEW e \in S
    PROVE  /\ Append(s, e) \in Seq(S) /\ Len(Append(s, e)) = Len(s) + 1 /\ Len(s) \in Nat
           /\ \A i \in 1..Len(s) : Append(s, e)[i] = s[i]
           /\ Append(s, e)[Len(s) + 1] = e
  OBVIOUS

(* Where an element stands in a sequence is a finite set.                     *)
LEMMA EntriesFinite ==
    ASSUME NEW S, NEW s \in Seq(S), NEW t
    PROVE  IsFiniteSet(Entries(s, t)) /\ Cardinality(Entries(s, t)) \in Nat
<1>1. Entries(s, t) \subseteq 1..Len(s) /\ Len(s) \in Nat
  BY DEF Entries
<1>2. IsFiniteSet(Entries(s, t))
  <2>1. IsFiniteSet(1..Len(s))
    BY <1>1, FS_Interval
  <2> QED BY <1>1, <2>1, FS_Subset
<1> QED BY <1>2, FS_CardinalityType

(* An element appended is counted once, and nothing else changes.             *)
LEMMA EntriesGrow ==
    ASSUME NEW S, NEW s \in Seq(S), NEW e \in S, NEW t
    PROVE  Cardinality(Entries(Append(s, e), t))
               = Cardinality(Entries(s, t)) + IF e = t THEN 1 ELSE 0
<1>1. Len(s) + 1 \notin Entries(s, t) /\ IsFiniteSet(Entries(s, t))
  <2>1. DOMAIN s = 1..Len(s) /\ Len(s) \in Nat
    OBVIOUS
  <2>2. Len(s) + 1 \notin DOMAIN s
    BY <2>1
  <2> QED BY <2>2, EntriesFinite DEF Entries
<1>2. DOMAIN Append(s, e) = (1..Len(s)) \cup {Len(s) + 1} /\ DOMAIN s = 1..Len(s)
  BY Grows
<1>3. CASE e = t
  <2>1. Entries(Append(s, e), t) = Entries(s, t) \cup {Len(s) + 1}
    BY <1>2, <1>3, Grows DEF Entries
  <2> QED BY <1>1, <1>3, <2>1, FS_AddElement
<1>4. CASE e # t
  <2>1. Entries(Append(s, e), t) = Entries(s, t)
    BY <1>2, <1>4, Grows DEF Entries
  <2> QED BY <1>4, <2>1, EntriesFinite
<1> QED BY <1>3, <1>4

(* A head taken away is counted no more.                                      *)
LEMMA EntriesShrink ==
    ASSUME NEW S, NEW s \in Seq(S), NEW t, s # <<>>
    PROVE  Cardinality(Entries(Tail(s), t)) + (IF Head(s) = t THEN 1 ELSE 0)
               <= Cardinality(Entries(s, t))
<1> DEFINE from == Entries(Tail(s), t)
           to   == Entries(s, t) \ {1}
           f    == [i \in from |-> i + 1]
<1>1. \A i \in from : i \in Nat /\ i >= 1 /\ i + 1 \in to
  BY Shrinks DEF Entries
<1>2. f \in Injection(from, to)
  BY <1>1 DEF Injection, IsInjective
<1>3. IsFiniteSet(Entries(s, t)) /\ Cardinality(Entries(s, t)) \in Nat
  BY EntriesFinite
<1>4. IsFiniteSet(to)
      /\ Cardinality(to) = IF 1 \in Entries(s, t) THEN Cardinality(Entries(s, t)) - 1
                                                  ELSE Cardinality(Entries(s, t))
  BY <1>3, FS_RemoveElement
<1>5. Cardinality(from) <= Cardinality(to)
  BY <1>2, <1>4, FS_Injection
<1>6. 1 \in Entries(s, t) <=> Head(s) = t
  BY Shrinks DEF Entries
<1>7. Cardinality(from) \in Nat
  BY Shrinks, EntriesFinite
<1> QED BY <1>3, <1>4, <1>5, <1>6, <1>7

-----------------------------------------------------------------------------
(* The histories go with what they are the history of.                        *)
Linked ==
    /\ Len(origin) = Len(pending)
    /\ granted # "NONE" <=> grantedFor # 0
    /\ phase \in Transacting => transaction \in Transactions /\ command \in Codes

Typed == TypeOK /\ Linked

(* What the actions of the program and of the tool do, as they are used below. *)
LEMMA Steps ==
    ASSUME [Next]_vars
    PROVE  \/ StartUp \/ (\E c \in Codes : EnterCommand(c)) \/ Quit \/ TransactionStep
           \/ ToolAnswers \/ ToolStarts \/ ToolStops \/ ToolResets \/ UNCHANGED vars
  BY DEF Next

(* An answer of the tool.                                                     *)
LEMMA AnswerFacts ==
    ASSUME Typed, ToolAnswers
    PROVE  /\ pending # <<>> /\ pending' = Tail(pending) /\ Head(pending) \in Codes
           /\ pending' \in Seq(Codes) /\ Len(pending') = Len(pending) - 1 /\ Len(pending) \in Nat
           /\ origin # <<>> /\ origin' = Tail(origin) /\ Head(origin) \in Transactions
           /\ origin' \in Seq(Transactions) /\ Len(origin') = Len(origin) - 1
           /\ granted = "NONE" /\ grantedFor = 0 /\ granted' \in {"UP", "DOWN", "NONE"}
           /\ grantedFor' = IF granted' = "NONE" THEN 0 ELSE Head(origin)
           /\ UNCHANGED <<motion, phase, portVars, requestVars, tries, starts, givenUp>>
           /\ \/ \E a \in {Head(pending), "CORRUPT"} : fromTool' = Append(fromTool, a)
              \/ fromTool' = fromTool
<1>1. PICK r \in {"OK", "REJECTED_AT_TOP", "REJECTED_AT_BOTTOM", "STATUS"} : Tool!Answer(r)
  BY DEF ToolAnswers
<1>2. /\ pending # <<>> /\ pending' = Tail(pending) /\ granted = "NONE" /\ motion' = motion
      /\ granted' = IF r = "OK" THEN Head(pending) ELSE "NONE"
      /\ r \in Tool!ResultsOf(Head(pending))
  BY <1>1 DEF Tool!Answer, Tool!AtRest
<1>3. pending \in Seq(Codes) /\ origin \in Seq(Transactions) /\ Len(origin) = Len(pending)
  BY DEF Typed, TypeOK, Linked
<1>4. /\ Head(pending) \in Codes /\ pending' \in Seq(Codes)
      /\ Len(pending') = Len(pending) - 1 /\ Len(pending) \in Nat /\ Len(pending) > 0
  BY <1>2, <1>3, Shrinks
<1>5. origin # <<>>
  BY <1>3, <1>4
<1>6. origin' = Tail(origin) /\ Head(origin) \in Transactions
      /\ origin' \in Seq(Transactions) /\ Len(origin') = Len(origin) - 1
  BY <1>3, <1>5, Shrinks DEF ToolAnswers
<1>7. granted' \in {"UP", "DOWN", "NONE"}
  BY <1>2 DEF Tool!ResultsOf, Tool!Directions, Tool!RejectedAt
<1>8. grantedFor = 0
  BY <1>2 DEF Typed, Linked
<1>9. /\ grantedFor' = IF granted' = "NONE" THEN 0 ELSE Head(origin)
      /\ UNCHANGED <<phase, portVars, requestVars, tries, starts, givenUp>>
      /\ \/ \E a \in {Head(pending), "CORRUPT"} : fromTool' = Append(fromTool, a)
         \/ fromTool' = fromTool
  BY DEF ToolAnswers
<1> QED BY <1>2, <1>4, <1>5, <1>6, <1>7, <1>8, <1>9

(* A frame sent.                                                              *)
LEMMA SendFacts ==
    ASSUME Typed, SendCommand
    PROVE  /\ phase = "attempt" /\ phase' = "await" /\ attempt <= MAX_ATTEMPTS
           /\ transaction \in Transactions /\ command \in Codes
           /\ tries' = [tries EXCEPT ![transaction] = @ + 1]
           /\ UNCHANGED <<portVars, requestVars, fromTool, granted, motion, grantedFor, starts, givenUp>>
           /\ \/ /\ pending' = Append(pending, command) /\ origin' = Append(origin, transaction)
                 /\ Len(pending) <= BUFFER
              \/ UNCHANGED <<pending, origin>>
<1>1. phase \in Transacting
  BY DEF SendCommand, Transacting
<1>2. transaction \in Transactions /\ command \in Codes
  BY <1>1 DEF Typed, Linked
<1> QED BY <1>2 DEF SendCommand, AttemptLeft, Tool!Accept, toolVars

(* The other steps of the program leave the tool alone.                       *)
LEMMA ProgramStep ==
    ASSUME StartUp \/ (\E c \in Codes : EnterCommand(c)) \/ Quit \/ (TransactionStep /\ ~SendCommand)
    PROVE  UNCHANGED <<toolVars, originVars, tries, starts>>
  BY DEF StartUp, BadArguments, GoodArguments, OpenPort, OpenFails, setBaudrate, setByteSize,
         setParity, setNumStopBits, setFlowControl, SetOption, OptionRefused, Elsewhere,
         EnterCommand, Quit, TransactionStep, NoAttemptLeft, SendFails, TakeAnswer, InvalidAnswer,
         NoAnswer, AnswerCut, NextAttempt, AttemptOver

(* Every initial state has the types.                                         *)
LEMMA TypedInit == Init => Typed
<1> SUFFICES ASSUME Init PROVE Typed
  OBVIOUS
<1>1. pending = <<>> /\ granted = "NONE" /\ motion = "NONE" /\ origin = <<>> /\ fromTool = <<>>
  BY DEF Init, Tool!ServiceInit
<1>2. /\ <<>> \in Seq(Codes) /\ <<>> \in Seq(Codes \cup {"CORRUPT"}) /\ <<>> \in Seq(Transactions)
      /\ Len(<<>>) = 0
  OBVIOUS
<1>3. Len(pending) <= BUFFER + 1 /\ 0 \in 0..MAX_TRANSACTIONS
  BY <1>1, <1>2, Parameters
<1>4. TypeOK
  BY <1>1, <1>2, <1>3 DEF Init, TypeOK, Phases
<1>5. Linked
  BY <1>1 DEF Init, Linked, Transacting
<1> QED BY <1>4, <1>5 DEF Typed

(* A step that leaves the tool alone and keeps the types of the rest.         *)
LEMMA SameTool ==
    ASSUME Typed, UNCHANGED <<toolVars, originVars, tries, starts>>,
           phase' \in Phases, portOpen' \in BOOLEAN, configured' \in SUBSET Options,
           command' \in Codes \cup {"NONE"}, attempt' \in Nat,
           transaction' \in 0..MAX_TRANSACTIONS, fromTool' \in Seq(Codes \cup {"CORRUPT"}),
           givenUp' \in Nat,
           phase' \in Transacting => transaction' \in Transactions /\ command' \in Codes
    PROVE  Typed'
<1>1. TypeOK'
  BY DEF Typed, TypeOK, toolVars, originVars
<1>2. Linked'
  BY DEF Typed, Linked, toolVars, originVars
<1> QED BY <1>1, <1>2 DEF Typed

(* Every step keeps the types.                                                *)
LEMMA TypedStep == Typed /\ [Next]_vars => Typed'
<1> SUFFICES ASSUME Typed, [Next]_vars PROVE Typed'
  OBVIOUS
<1>0. TypeOK /\ Linked
  BY DEF Typed
<1>1. CASE StartUp
  <2>1. UNCHANGED <<toolVars, originVars, tries, starts, requestVars, fromTool, givenUp>>
    BY <1>1
       DEF StartUp, BadArguments, GoodArguments, OpenPort, OpenFails, setBaudrate, setByteSize,
           setParity, setNumStopBits, setFlowControl, SetOption, OptionRefused, Elsewhere
  <2>2. /\ phase' \in Phases \ Transacting /\ portOpen' \in BOOLEAN
        /\ configured' \in SUBSET Options
    BY <1>0, <1>1
       DEF StartUp, BadArguments, GoodArguments, OpenPort, OpenFails, setBaudrate, setByteSize,
           setParity, setNumStopBits, setFlowControl, SetOption, OptionRefused, ClosePort, Elsewhere,
           Phases, Setting, Transacting, Options, TypeOK, portVars
  <2> QED BY <1>0, <2>1, <2>2, SameTool DEF TypeOK, requestVars
<1>2. ASSUME NEW c \in Codes, EnterCommand(c) PROVE Typed'
  <2>1. transaction' = transaction + 1 /\ transaction < MAX_TRANSACTIONS
        /\ transaction \in 0..MAX_TRANSACTIONS
    BY <1>0, <1>2 DEF EnterCommand, TypeOK
  <2>2. transaction' \in 0..MAX_TRANSACTIONS /\ transaction' \in Transactions
    BY <2>1, Parameters DEF Transactions
  <2>3. phase' = "attempt" /\ command' = c /\ attempt' = 1
        /\ UNCHANGED <<portVars, fromTool, toolVars, originVars, tries, starts, givenUp>>
    BY <1>2 DEF EnterCommand
  <2> QED BY <1>0, <2>2, <2>3, SameTool DEF TypeOK, Phases, Transacting, portVars
<1>3. CASE Quit
  BY <1>0, <1>3, SameTool
     DEF Quit, ClosePort, Elsewhere, TypeOK, Phases, Transacting, portVars, requestVars
<1>4. CASE NoAttemptLeft \/ SendFails
  BY <1>0, <1>4, SameTool
     DEF NoAttemptLeft, SendFails, BackToMenu, TypeOK, Phases, Transacting, portVars
<1>5. CASE TakeAnswer
  <2>1. fromTool' \in Seq(Codes \cup {"CORRUPT"})
    BY <1>0, <1>5, Shrinks DEF TakeAnswer, TypeOK
  <2> QED BY <1>0, <1>5, <2>1, SameTool
             DEF TakeAnswer, BackToMenu, TypeOK, Phases, Transacting, portVars, originVars
<1>6. CASE InvalidAnswer \/ AnswerCut
  <2>1. fromTool' \in Seq(Codes \cup {"CORRUPT"})
    <3>1. fromTool # <<>> /\ fromTool' = Tail(fromTool) /\ fromTool \in Seq(Codes \cup {"CORRUPT"})
      BY <1>0, <1>6 DEF InvalidAnswer, AnswerCut, TypeOK
    <3> QED BY <3>1, Shrinks
  <2>2. phase \in Transacting
    BY <1>6 DEF InvalidAnswer, AnswerCut, Transacting
  <2>3. /\ phase' = "retry" /\ givenUp' = givenUp
        /\ UNCHANGED <<portVars, requestVars, toolVars, originVars, tries, starts>>
    BY <1>6 DEF InvalidAnswer, AnswerCut, AttemptOver
  <2> QED BY <1>0, <2>1, <2>2, <2>3, SameTool
             DEF TypeOK, Linked, Phases, Transacting, portVars, requestVars
<1>7. CASE NoAnswer
  <2>1. /\ phase = "await" /\ phase' = "retry" /\ givenUp' = givenUp + 1 /\ fromTool' = fromTool
        /\ UNCHANGED <<portVars, requestVars, toolVars, originVars, tries, starts>>
    BY <1>7 DEF NoAnswer, AttemptOver
  <2> QED BY <1>0, <2>1, SameTool DEF TypeOK, Linked, Phases, Transacting, portVars, requestVars
<1>8. CASE NextAttempt
  <2>1. /\ phase = "retry" /\ phase' = "attempt" /\ attempt' = attempt + 1
        /\ UNCHANGED <<portVars, command, transaction, fromTool, toolVars, originVars, tries,
                       starts, givenUp>>
    BY <1>8 DEF NextAttempt
  <2> QED BY <1>0, <2>1, SameTool DEF TypeOK, Linked, Phases, Transacting, portVars
<1>9. CASE SendCommand
  <2>1. pending \in Seq(Codes) /\ origin \in Seq(Transactions) /\ Len(origin) = Len(pending)
        /\ tries \in [Transactions -> Nat] /\ Len(pending) <= BUFFER + 1
    BY <1>0 DEF TypeOK, Linked
  <2>2. /\ pending' \in Seq(Codes) /\ origin' \in Seq(Transactions)
        /\ Len(origin') = Len(pending') /\ Len(pending') <= BUFFER + 1
    <3>1. CASE UNCHANGED <<pending, origin>>
      BY <2>1, <3>1
    <3>2. CASE /\ pending' = Append(pending, command) /\ origin' = Append(origin, transaction)
               /\ Len(pending) <= BUFFER
      <4>1. command \in Codes /\ transaction \in Transactions
        BY <1>9, SendFacts
      <4>2. pending' \in Seq(Codes) /\ Len(pending') = Len(pending) + 1 /\ Len(pending) \in Nat
        BY <2>1, <3>2, <4>1, Grows
      <4>3. origin' \in Seq(Transactions) /\ Len(origin') = Len(origin) + 1
        BY <2>1, <3>2, <4>1, Grows
      <4> QED BY <2>1, <3>2, <4>2, <4>3, Parameters
    <3> QED BY <1>9, <3>1, <3>2, SendFacts
  <2>3. tries' \in [Transactions -> Nat]
    BY <1>9, <2>1, SendFacts
  <2>4. TypeOK'
    BY <1>0, <1>9, <2>2, <2>3, SendFacts DEF TypeOK, Phases, Transacting, portVars, requestVars
  <2>5. Linked'
    BY <1>0, <1>9, <2>2, SendFacts DEF Linked, requestVars
  <2> QED BY <2>4, <2>5 DEF Typed
<1>10. CASE ToolAnswers
  <2>1. fromTool' \in Seq(Codes \cup {"CORRUPT"})
    <3>1. fromTool \in Seq(Codes \cup {"CORRUPT"}) /\ Head(pending) \in Codes \cup {"CORRUPT"}
      BY <1>0, <1>10, AnswerFacts DEF TypeOK
    <3>2. ASSUME NEW a \in {Head(pending), "CORRUPT"}, fromTool' = Append(fromTool, a)
          PROVE  fromTool' \in Seq(Codes \cup {"CORRUPT"})
      BY <3>1, <3>2, Grows
    <3> QED BY <1>10, <3>1, <3>2, AnswerFacts
  <2>2. grantedFor' \in 0..MAX_TRANSACTIONS /\ (granted' # "NONE" <=> grantedFor' # 0)
    BY <1>10, AnswerFacts, Parameters
  <2>3. TypeOK'
    <3>1. Len(pending') <= BUFFER + 1
      BY <1>0, <1>10, AnswerFacts, Parameters DEF TypeOK
    <3> QED BY <1>0, <1>10, <2>1, <2>2, <3>1, AnswerFacts DEF TypeOK, portVars, requestVars
  <2>4. Linked'
    BY <1>0, <1>10, <2>2, AnswerFacts DEF Linked, requestVars
  <2> QED BY <2>3, <2>4 DEF Typed
<1>11. CASE ToolStarts
  <2>1. granted' = "NONE" /\ grantedFor' = 0 /\ motion' = granted
        /\ starts' = [starts EXCEPT ![grantedFor] = @ + 1]
        /\ UNCHANGED <<phase, portVars, requestVars, fromTool, origin, tries, givenUp, pending>>
    BY <1>11 DEF ToolStarts, Tool!Start
  <2>2. starts' \in [Transactions -> Nat]
    <3>1. grantedFor \in Transactions
      BY <1>0, <1>11, Parameters DEF TypeOK, Linked, ToolStarts, Tool!Start
    <3> QED BY <1>0, <2>1, <3>1 DEF TypeOK
  <2>3. TypeOK'
    BY SMTT(30), <1>0, <2>1, <2>2, Parameters DEF TypeOK, portVars, requestVars
  <2>4. Linked'
    BY <1>0, <2>1 DEF Linked, requestVars
  <2> QED BY <2>3, <2>4 DEF Typed
<1>12. CASE ToolStops
  <2>1. motion' = "NONE"
        /\ UNCHANGED <<phase, portVars, requestVars, fromTool, originVars, tries, starts, givenUp,
                       pending, granted>>
    BY <1>12 DEF ToolStops, Tool!Stop
  <2> QED BY <1>0, <2>1 DEF Typed, TypeOK, Linked, portVars, requestVars, originVars
<1>13. CASE ToolResets
  <2>1. /\ motion' = "NONE" /\ granted' = "NONE" /\ pending' = <<>> /\ origin' = <<>>
        /\ grantedFor' = 0
        /\ UNCHANGED <<phase, portVars, requestVars, fromTool, tries, starts, givenUp>>
    BY <1>13 DEF ToolResets, Tool!Reset
  <2>2. Len(<<>>) = 0 /\ <<>> \in Seq(Codes) /\ <<>> \in Seq(Transactions)
    OBVIOUS
  <2>3. TypeOK'
    BY <1>0, <2>1, <2>2, Parameters DEF TypeOK, portVars, requestVars
  <2>4. Linked'
    BY <1>0, <2>1 DEF Linked, requestVars
  <2> QED BY <2>3, <2>4 DEF Typed
<1>14. CASE UNCHANGED vars
  BY <1>0, <1>14 DEF vars, portVars, requestVars, toolVars, originVars, Typed, TypeOK, Linked
<1> QED
  BY <1>1, <1>2, <1>3, <1>4, <1>5, <1>6, <1>7, <1>8, <1>9, <1>10, <1>11, <1>12, <1>13, <1>14, Steps
     DEF TransactionStep

(* Every reachable state has the types, and the histories match what they are  *)
(* the history of.                                                            *)
THEOREM TypesAndHistories == Spec => []Typed
  BY TypedInit, TypedStep, PTL DEF Spec

(* Every reachable state has the types.                                       *)
THEOREM TypeCorrect == Spec => []TypeOK
<1>1. Typed => TypeOK
  BY DEF Typed
<1> QED BY <1>1, TypesAndHistories, PTL

-----------------------------------------------------------------------------
(* The port.                                                                 *)
(* What has been set on it at each step of open().                            *)
SetSoFar ==
    CASE phase = "setBaudrate"    -> {}
      [] phase = "setByteSize"    -> {"baudrate"}
      [] phase = "setParity"      -> {"baudrate", "byteSize"}
      [] phase = "setNumStopBits" -> {"baudrate", "byteSize", "parity"}
      [] phase = "setFlowControl" -> Options \ {"flowControl"}
      [] OTHER                    -> Options

PortInv ==
    /\ phase \in Setting \cup {"menu"} \cup Transacting => portOpen /\ configured = SetSoFar
    /\ phase \notin Setting \cup {"menu"} \cup Transacting => ~portOpen

(* Every step keeps what is known of the port.                                *)
LEMMA PortStep == PortInv /\ [Next]_vars => PortInv'
<1> SUFFICES ASSUME PortInv, [Next]_vars PROVE PortInv'
  OBVIOUS
<1> USE DEF PortInv, SetSoFar, Setting, Transacting
<1>1. ASSUME UNCHANGED <<phase, portVars>> PROVE PortInv'
  BY <1>1 DEF portVars
<1>2. ASSUME phase' = "exited", portOpen' = FALSE PROVE PortInv'
  BY <1>2
<1>3. CASE StartUp
  <2>1. CASE BadArguments \/ GoodArguments
    BY <2>1 DEF BadArguments, GoodArguments, portVars
  <2>2. CASE OpenPort
    BY <2>2 DEF OpenPort
  <2>3. CASE OpenFails \/ OptionRefused
    BY <1>2, <2>3 DEF OpenFails, OptionRefused, ClosePort
  <2>4. CASE setBaudrate
    BY <2>4 DEF setBaudrate, SetOption
  <2>5. CASE setByteSize
    BY <2>5 DEF setByteSize, SetOption
  <2>6. CASE setParity
    BY <2>6 DEF setParity, SetOption
  <2>7. CASE setNumStopBits
    BY <2>7 DEF setNumStopBits, SetOption, Options
  <2>8. CASE setFlowControl
    BY <2>8 DEF setFlowControl, SetOption, Options
  <2> QED BY <1>3, <2>1, <2>2, <2>3, <2>4, <2>5, <2>6, <2>7, <2>8 DEF StartUp
<1>4. CASE Quit
  BY <1>2, <1>4 DEF Quit, ClosePort
<1>5. ASSUME phase \in {"menu"} \cup Transacting, phase' \in {"menu"} \cup Transacting, UNCHANGED portVars
      PROVE  PortInv'
  BY <1>5 DEF portVars
<1>6. CASE \E c \in Codes : EnterCommand(c)
  BY <1>5, <1>6 DEF EnterCommand
<1>7. CASE TransactionStep
  BY <1>5, <1>7
     DEF TransactionStep, NoAttemptLeft, SendCommand, SendFails, TakeAnswer, InvalidAnswer,
         NoAnswer, AnswerCut, NextAttempt, AttemptOver, BackToMenu
<1> QED
  BY <1>1, <1>3, <1>4, <1>6, <1>7, Steps
     DEF ToolAnswers, ToolStarts, ToolStops, ToolResets, vars

(* In every reachable state the program speaks to the tool only through a port *)
(* all of whose options were set.                                             *)
THEOREM PortAlwaysReady == Spec => []PortReady
<1>1. Init => PortInv
  BY DEF Init, PortInv, Setting, Transacting
<1>2. PortInv => PortReady
  BY DEF PortInv, PortReady, SetSoFar, Setting, Transacting
<1> QED BY <1>1, <1>2, PortStep, PTL DEF Spec

-----------------------------------------------------------------------------
(* The answers.                                                              *)
Waiting == IF phase = "await" THEN 1 ELSE 0

(* Lengths of the queues, and of what is taken from them.                     *)
LEMMA Queues ==
    ASSUME Typed
    PROVE  /\ Len(pending) \in Nat /\ Len(fromTool) \in Nat /\ givenUp \in Nat
           /\ fromTool # <<>> => Len(Tail(fromTool)) = Len(fromTool) - 1
           /\ \A c \in Codes : Len(Append(pending, c)) = Len(pending) + 1
           /\ \A a \in Codes \cup {"CORRUPT"} : Len(Append(fromTool, a)) = Len(fromTool) + 1
<1>1. pending \in Seq(Codes) /\ fromTool \in Seq(Codes \cup {"CORRUPT"}) /\ givenUp \in Nat
  BY DEF Typed, TypeOK
<1>2. Len(pending) \in Nat /\ Len(fromTool) \in Nat
  BY <1>1
<1>3. fromTool # <<>> => Len(Tail(fromTool)) = Len(fromTool) - 1
  BY <1>1, Shrinks
<1>4. /\ \A c \in Codes : Len(Append(pending, c)) = Len(pending) + 1
      /\ \A a \in Codes \cup {"CORRUPT"} : Len(Append(fromTool, a)) = Len(fromTool) + 1
  BY <1>1, Grows
<1> QED BY <1>1, <1>2, <1>3, <1>4

(* Every step keeps the account of the answers.                               *)
LEMMA OwedStep == Typed /\ AnswersOwed /\ [Next]_vars => AnswersOwed'
<1> SUFFICES ASSUME Typed, AnswersOwed, [Next]_vars PROVE AnswersOwed'
  OBVIOUS
<1>1. Len(pending) + Len(fromTool) <= givenUp + Waiting
      /\ Len(pending) \in Nat /\ Len(fromTool) \in Nat /\ givenUp \in Nat
      /\ (phase = "await" => Waiting = 1) /\ (phase # "await" => Waiting = 0)
  BY Queues DEF AnswersOwed, Waiting
<1>2. SUFFICES Len(pending') + Len(fromTool') <= givenUp' + Waiting'
  BY DEF AnswersOwed, Waiting
<1>3. /\ phase' = "await" => Waiting' = 1
      /\ phase' # "await" => Waiting' = 0
  BY DEF Waiting
<1>4. ASSUME UNCHANGED <<pending, fromTool, givenUp>>, phase # "await" \/ phase' = "await"
      PROVE  Len(pending') + Len(fromTool') <= givenUp' + Waiting'
  BY <1>1, <1>3, <1>4
<1>5. CASE TakeAnswer \/ InvalidAnswer \/ AnswerCut
  <2>1. /\ phase = "await" /\ fromTool # <<>> /\ fromTool' = Tail(fromTool) /\ phase' # "await"
        /\ UNCHANGED <<pending, givenUp>>
    BY <1>5 DEF TakeAnswer, InvalidAnswer, AnswerCut, AttemptOver, BackToMenu, toolVars
  <2>2. Len(fromTool') = Len(fromTool) - 1
    BY <2>1, Queues
  <2> QED BY <1>1, <1>3, <2>1, <2>2
<1>6. CASE NoAnswer
  <2>1. /\ phase = "await" /\ phase' # "await" /\ givenUp' = givenUp + 1
        /\ UNCHANGED <<pending, fromTool>>
    BY <1>6 DEF NoAnswer, AttemptOver, toolVars
  <2> QED BY <1>1, <1>3, <2>1
<1>7. CASE SendCommand
  <2>1. /\ phase # "await" /\ phase' = "await" /\ UNCHANGED <<fromTool, givenUp>>
        /\ Len(pending') <= Len(pending) + 1 /\ Len(pending') \in Nat
    BY <1>1, <1>7, SendFacts, Queues
  <2> QED BY <1>1, <1>3, <2>1
<1>8. CASE ToolAnswers
  <2>1. /\ Len(pending') = Len(pending) - 1 /\ UNCHANGED <<phase, givenUp>>
        /\ Head(pending) \in Codes
        /\ \/ \E a \in {Head(pending), "CORRUPT"} : fromTool' = Append(fromTool, a)
           \/ fromTool' = fromTool
    BY <1>8, AnswerFacts
  <2>2. Len(fromTool') \in Nat /\ Len(fromTool') <= Len(fromTool) + 1
    BY <1>1, <2>1, Queues
  <2>3. Waiting' = Waiting
    BY <2>1 DEF Waiting
  <2> QED BY <1>1, <2>1, <2>2, <2>3
<1>9. CASE ToolResets
  <2>1. pending' = <<>> /\ UNCHANGED <<phase, fromTool, givenUp>> /\ Len(<<>>) = 0
    BY <1>9 DEF ToolResets, Tool!Reset
  <2>2. Waiting' = Waiting /\ Len(pending') = 0
    BY <2>1 DEF Waiting
  <2> QED BY <1>1, <2>1, <2>2
<1>10. CASE StartUp \/ (\E c \in Codes : EnterCommand(c)) \/ Quit
            \/ NoAttemptLeft \/ SendFails \/ NextAttempt
  <2>1. UNCHANGED <<pending, fromTool, givenUp>> /\ phase # "await"
    BY <1>10
       DEF StartUp, BadArguments, GoodArguments, OpenPort, OpenFails, setBaudrate, setByteSize,
           setParity, setNumStopBits, setFlowControl, SetOption, OptionRefused, Elsewhere, Setting,
           EnterCommand, Quit, NoAttemptLeft, SendFails, NextAttempt, toolVars
  <2> QED BY <1>4, <2>1
<1>11. CASE ToolStarts \/ ToolStops
  <2>1. UNCHANGED <<pending, fromTool, givenUp, phase>>
    BY <1>11 DEF ToolStarts, ToolStops, Tool!Start, Tool!Stop
  <2> QED BY <1>4, <2>1
<1>12. CASE UNCHANGED vars
  BY <1>4, <1>12 DEF vars, toolVars
<1> QED
  BY <1>5, <1>6, <1>7, <1>8, <1>9, <1>10, <1>11, <1>12, Steps DEF TransactionStep

(* Every initial state owes nothing.                                          *)
LEMMA OwedInit == Init => AnswersOwed
<1> SUFFICES ASSUME Init PROVE AnswersOwed
  OBVIOUS
<1>1. Len(pending) = 0 /\ Len(fromTool) = 0 /\ givenUp = 0
  BY DEF Init, Tool!ServiceInit
<1> QED BY <1>1 DEF AnswersOwed, Init

(* In every reachable state the answers that wait, or are still to come, are at *)
(* most as many as the attempts given up without one.                          *)
THEOREM Owed == Spec => []AnswersOwed
  BY OwedInit, OwedStep, TypesAndHistories, PTL DEF Spec

-----------------------------------------------------------------------------
(* The retries.                                                              *)
(* The loop counter counts the frames sent for the command.                   *)
TriesInv ==
    /\ \A t \in Transactions : t > transaction => tries[t] = 0
    /\ phase = "attempt" => attempt >= 1 /\ tries[transaction] <= attempt - 1
    /\ phase \in {"await", "retry"} => tries[transaction] <= attempt /\ attempt <= MAX_ATTEMPTS
    /\ \A t \in Transactions : tries[t] <= MAX_ATTEMPTS \/ tries[t] = 0

(* Every step keeps the count.                                                *)
LEMMA TriesStep == Typed /\ TriesInv /\ [Next]_vars => TriesInv'
<1> SUFFICES ASSUME Typed, TriesInv, [Next]_vars PROVE TriesInv'
  OBVIOUS
<1>0. /\ tries \in [Transactions -> Nat] /\ attempt \in Nat /\ transaction \in 0..MAX_TRANSACTIONS
      /\ phase \in Transacting => transaction \in Transactions
  BY DEF Typed, TypeOK, Linked
<1>1. ASSUME UNCHANGED <<tries, transaction>>, phase' \notin Transacting PROVE TriesInv'
  BY <1>1 DEF TriesInv, Transacting
<1>2. ASSUME UNCHANGED <<tries, transaction, attempt>>,
             phase' = phase \/ (phase = "await" /\ phase' = "retry")
      PROVE  TriesInv'
  BY <1>2 DEF TriesInv
<1>3. ASSUME NEW c \in Codes, EnterCommand(c) PROVE TriesInv'
  <2>1. /\ transaction' = transaction + 1 /\ attempt' = 1 /\ phase' = "attempt" /\ tries' = tries
        /\ transaction < MAX_TRANSACTIONS
    BY <1>3 DEF EnterCommand
  <2>2. transaction' \in Transactions /\ transaction' > transaction /\ tries[transaction'] = 0
    BY <1>0, <2>1, Parameters DEF TriesInv, Transactions
  <2>3. \A t \in Transactions : t > transaction' => tries'[t] = 0
    BY <1>0, <2>1, Parameters DEF TriesInv
  <2> QED BY <2>1, <2>2, <2>3 DEF TriesInv
<1>4. CASE SendCommand
  <2>1. /\ phase = "attempt" /\ phase' = "await" /\ attempt <= MAX_ATTEMPTS
        /\ transaction \in Transactions /\ UNCHANGED <<transaction, attempt>>
        /\ tries' = [tries EXCEPT ![transaction] = @ + 1]
    BY <1>4, SendFacts DEF requestVars
  <2>2. tries'[transaction] = tries[transaction] + 1 /\ tries[transaction] \in Nat
        /\ tries[transaction] <= attempt - 1
    BY <1>0, <2>1 DEF TriesInv
  <2>3. \A t \in Transactions : t # transaction => tries'[t] = tries[t]
    BY <1>0, <2>1
  <2>4. \A t \in Transactions : t > transaction => tries'[t] = 0
    BY <1>0, <2>1, <2>3, Parameters DEF TriesInv
  <2>5. tries'[transaction] <= attempt /\ tries'[transaction] <= MAX_ATTEMPTS
    BY <1>0, <2>1, <2>2, Parameters
  <2>6. \A t \in Transactions : tries'[t] <= MAX_ATTEMPTS \/ tries'[t] = 0
    BY <2>3, <2>5 DEF TriesInv
  <2> QED BY <2>1, <2>4, <2>5, <2>6 DEF TriesInv
<1>5. CASE NextAttempt
  <2>1. /\ phase = "retry" /\ phase' = "attempt" /\ attempt' = attempt + 1
        /\ UNCHANGED <<tries, transaction>>
    BY <1>5 DEF NextAttempt
  <2>2. tries[transaction] <= attempt /\ tries[transaction] \in Nat
    BY <1>0, <2>1 DEF TriesInv, Transacting
  <2>3. attempt' >= 1 /\ tries'[transaction'] <= attempt' - 1
    BY <1>0, <2>1, <2>2
  <2> QED BY <2>1, <2>3 DEF TriesInv
<1>6. CASE NoAttemptLeft \/ SendFails \/ TakeAnswer
  <2>1. UNCHANGED <<tries, transaction>> /\ phase' \notin Transacting
    BY <1>6 DEF NoAttemptLeft, SendFails, TakeAnswer, BackToMenu, Transacting
  <2> QED BY <1>1, <2>1
<1>7. CASE InvalidAnswer \/ NoAnswer \/ AnswerCut
  <2>1. UNCHANGED <<tries, transaction, attempt>> /\ phase = "await" /\ phase' = "retry"
    BY <1>7 DEF InvalidAnswer, NoAnswer, AnswerCut, AttemptOver, requestVars
  <2> QED BY <1>2, <2>1
<1>8. CASE StartUp \/ Quit
  <2>1. UNCHANGED <<tries, transaction>> /\ phase' \notin Transacting
    BY <1>8
       DEF StartUp, BadArguments, GoodArguments, OpenPort, OpenFails, setBaudrate, setByteSize,
           setParity, setNumStopBits, setFlowControl, SetOption, OptionRefused, ClosePort, Elsewhere,
           Quit, requestVars, Transacting
  <2> QED BY <1>1, <2>1
<1>9. CASE ToolAnswers \/ ToolStarts \/ ToolStops \/ ToolResets \/ UNCHANGED vars
  <2>1. UNCHANGED <<tries, transaction, attempt, phase>>
    BY <1>9 DEF ToolAnswers, ToolStarts, ToolStops, ToolResets, vars, requestVars
  <2> QED BY <1>2, <2>1
<1> QED
  BY <1>3, <1>4, <1>5, <1>6, <1>7, <1>8, <1>9, Steps DEF TransactionStep

(* Movements caused, and those still to be caused, for each command.          *)
Executions == \A t \in Transactions : starts[t] + Count(t) <= tries[t]

(* Every step keeps them within the frames sent.                              *)
LEMMA ExecutionsStep == Typed /\ Executions /\ [Next]_vars => Executions'
<1> SUFFICES ASSUME Typed, Executions, [Next]_vars, NEW t \in Transactions
             PROVE  starts'[t] + Count(t)' <= tries'[t]
  BY DEF Executions
<1> DEFINE held == Cardinality(Entries(origin, t))
           next == IF grantedFor = t THEN 1 ELSE 0
<1>0. /\ tries \in [Transactions -> Nat] /\ starts \in [Transactions -> Nat]
      /\ origin \in Seq(Transactions) /\ grantedFor \in 0..MAX_TRANSACTIONS
      /\ granted # "NONE" <=> grantedFor # 0
  BY DEF Typed, TypeOK, Linked
<1>1. held \in Nat /\ next \in {0, 1} /\ starts[t] \in Nat /\ tries[t] \in Nat
  BY <1>0, EntriesFinite
<1>2. starts[t] + (held + next) <= tries[t]
  BY DEF Executions, Count
<1>3. Count(t)' = held' + next'
  BY DEF Count
<1>4. ASSUME UNCHANGED <<originVars, tries, starts>> PROVE starts'[t] + Count(t)' <= tries'[t]
  BY <1>2, <1>3, <1>4 DEF originVars
<1>5. CASE SendCommand
  <2>1. /\ transaction \in Transactions /\ UNCHANGED <<grantedFor, starts>>
        /\ tries' = [tries EXCEPT ![transaction] = @ + 1]
        /\ origin' = Append(origin, transaction) \/ origin' = origin
    BY <1>5, SendFacts
  <2>2. held' = held \/ held' = held + (IF transaction = t THEN 1 ELSE 0)
    <3>1. CASE origin' = origin
      BY <3>1
    <3>2. CASE origin' = Append(origin, transaction)
      <4>1. Cardinality(Entries(Append(origin, transaction), t))
                = held + IF transaction = t THEN 1 ELSE 0
        BY <1>0, <2>1, EntriesGrow
      <4> QED BY <3>2, <4>1
    <3> QED BY <2>1, <3>1, <3>2
  <2>3. tries'[t] = tries[t] + (IF transaction = t THEN 1 ELSE 0)
    BY <1>0, <2>1
  <2>4. held' <= held + (IF transaction = t THEN 1 ELSE 0) /\ held' \in Nat
    BY <1>1, <2>2
  <2>5. next' = next /\ starts'[t] = starts[t]
    BY <2>1
  <2> QED BY <1>1, <1>2, <1>3, <2>3, <2>4, <2>5
<1>6. CASE ToolAnswers
  <2>1. /\ origin # <<>> /\ origin' = Tail(origin) /\ grantedFor = 0
        /\ grantedFor' \in {0, Head(origin)} /\ UNCHANGED <<tries, starts>>
    BY <1>6, AnswerFacts
  <2>2. held' + (IF Head(origin) = t THEN 1 ELSE 0) <= held
    BY <1>0, <2>1, EntriesShrink
  <2>3. t # 0
    BY Parameters
  <2>4. next = 0 /\ next' <= (IF Head(origin) = t THEN 1 ELSE 0) /\ next' \in {0, 1}
    BY <2>1, <2>3
  <2>5. held' \in Nat
    BY <1>0, <2>1, Shrinks, EntriesFinite
  <2> QED BY <1>1, <1>2, <1>3, <2>1, <2>2, <2>4, <2>5
<1>7. CASE ToolStarts
  <2>1. /\ starts' = [starts EXCEPT ![grantedFor] = @ + 1] /\ grantedFor' = 0
        /\ UNCHANGED <<origin, tries>>
    BY <1>7 DEF ToolStarts
  <2>2. starts'[t] = starts[t] + next /\ next' = 0 /\ held' = held
    BY <1>0, <2>1, Parameters
  <2> QED BY <1>1, <1>2, <1>3, <2>1, <2>2
<1>8. CASE ToolResets
  <2>1. origin' = <<>> /\ grantedFor' = 0 /\ UNCHANGED <<tries, starts>>
    BY <1>8 DEF ToolResets
  <2>2. held' = 0 /\ next' = 0
    <3>1. Entries(<<>>, t) = {}
      BY DEF Entries
    <3> QED BY <2>1, <3>1, FS_EmptySet, Parameters
  <2> QED BY <1>1, <1>2, <1>3, <2>1, <2>2
<1>9. CASE ToolStops
  BY <1>4, <1>9 DEF ToolStops
<1>10. CASE UNCHANGED vars
  BY <1>4, <1>10 DEF vars
<1> QED
  BY <1>4, <1>5, <1>6, <1>7, <1>8, <1>9, <1>10, Steps, ProgramStep

(* Every initial state is before the first command.                           *)
LEMMA RetriesInit == Init => TriesInv /\ Executions
<1> SUFFICES ASSUME Init PROVE TriesInv /\ Executions
  OBVIOUS
<1>1. TriesInv
  BY DEF Init, TriesInv
<1>2. ASSUME NEW t \in Transactions PROVE starts[t] + Count(t) <= tries[t]
  <2>1. Entries(origin, t) = {} /\ grantedFor # t
    BY Parameters DEF Init, Entries
  <2>2. Count(t) = 0
    BY <2>1, FS_EmptySet DEF Count
  <2> QED BY <2>2 DEF Init
<1> QED BY <1>1, <1>2 DEF Executions

(* A command repeated after a timeout moves the tool at most as often as it was *)
(* sent, and it is sent at most max_attempts times, for every max_attempts.     *)
THEOREM ExecutionsBounded == Spec => []ExecutionsWithinAttempts
<1>1. TriesInv /\ Executions => ExecutionsWithinAttempts
  BY DEF TriesInv, Executions, ExecutionsWithinAttempts
<1> QED BY <1>1, RetriesInit, TriesStep, ExecutionsStep, TypesAndHistories, PTL DEF Spec

-----------------------------------------------------------------------------
(* Whose answer is taken.                                                    *)
(* While no attempt has been given up, what is on its way belongs to the      *)
(* command just sent.                                                         *)
OwnAnswers ==
    givenUp = 0 /\ phase = "await" =>
        /\ \A i \in 1..Len(pending) : pending[i] = command
        /\ \A i \in 1..Len(fromTool) : fromTool[i] \in {command, "CORRUPT"}

(* Every step keeps it so.                                                    *)
LEMMA OwnStep == Typed /\ AnswersOwed /\ OwnAnswers /\ [Next]_vars => OwnAnswers'
<1> SUFFICES ASSUME Typed, AnswersOwed, OwnAnswers, [Next]_vars, givenUp' = 0, phase' = "await"
             PROVE  /\ \A i \in 1..Len(pending') : pending'[i] = command'
                    /\ \A i \in 1..Len(fromTool') : fromTool'[i] \in {command', "CORRUPT"}
  BY DEF OwnAnswers
<1>0. /\ pending \in Seq(Codes) /\ fromTool \in Seq(Codes \cup {"CORRUPT"}) /\ givenUp \in Nat
  BY DEF Typed, TypeOK
<1>1. ASSUME phase = "await", givenUp = 0
      PROVE  /\ \A i \in 1..Len(pending) : pending[i] = command
             /\ \A i \in 1..Len(fromTool) : fromTool[i] \in {command, "CORRUPT"}
  BY <1>1 DEF OwnAnswers
<1>2. CASE SendCommand
  <2>1. /\ phase = "attempt" /\ UNCHANGED <<fromTool, givenUp, command>> /\ command \in Codes
        /\ pending' = Append(pending, command) \/ pending' = pending
    BY <1>2, SendFacts DEF requestVars
  <2>2. Len(pending) = 0 /\ Len(fromTool) = 0
    BY <2>1, Queues DEF AnswersOwed
  <2>3. \A i \in 1..Len(pending') : pending'[i] = command'
    BY <1>0, <2>1, <2>2, Grows
  <2> QED BY <2>1, <2>2, <2>3
<1>3. CASE ToolAnswers
  <2>1. /\ pending # <<>> /\ pending' = Tail(pending) /\ Head(pending) \in Codes
        /\ UNCHANGED <<phase, command, givenUp>>
        /\ \/ \E a \in {Head(pending), "CORRUPT"} : fromTool' = Append(fromTool, a)
           \/ fromTool' = fromTool
    BY <1>3, AnswerFacts DEF requestVars
  <2>2. Head(pending) = command /\ \A i \in 1..Len(pending') : pending'[i] = command
    <3>1. /\ Head(pending) = pending[1] /\ Len(pending) > 0 /\ Len(pending) \in Nat
          /\ Len(pending') = Len(pending) - 1
          /\ \A i \in 1..Len(pending') : pending'[i] = pending[i + 1]
      BY <1>0, <2>1, Shrinks
    <3> QED BY <1>1, <2>1, <3>1
  <2>3. ASSUME NEW a \in {Head(pending), "CORRUPT"}, fromTool' = Append(fromTool, a)
        PROVE  \A i \in 1..Len(fromTool') : fromTool'[i] \in {command, "CORRUPT"}
    <3>1. a \in Codes \cup {"CORRUPT"}
      BY <2>1
    <3>2. /\ Len(fromTool') = Len(fromTool) + 1 /\ Len(fromTool) \in Nat
          /\ \A i \in 1..Len(fromTool) : fromTool'[i] = fromTool[i]
          /\ fromTool'[Len(fromTool) + 1] = a
      BY <1>0, <2>3, <3>1, Grows
    <3> QED BY <1>1, <2>1, <2>2, <3>2
  <2> QED BY <1>1, <2>1, <2>2, <2>3
<1>4. CASE ToolResets
  <2>1. pending' = <<>> /\ UNCHANGED <<phase, command, fromTool, givenUp>>
    BY <1>4 DEF ToolResets, Tool!Reset, requestVars
  <2>2. \A i \in 1..Len(pending') : pending'[i] = command'
    BY <2>1
  <2> QED BY <1>1, <2>1, <2>2
<1>5. CASE ToolStarts \/ ToolStops \/ UNCHANGED vars
  <2>1. UNCHANGED <<pending, fromTool, phase, command, givenUp>>
    BY <1>5 DEF ToolStarts, ToolStops, Tool!Start, Tool!Stop, vars, requestVars, toolVars
  <2> QED BY <1>1, <2>1
<1>6. CASE StartUp \/ (\E c \in Codes : EnterCommand(c)) \/ Quit \/ (TransactionStep /\ ~SendCommand)
  BY <1>6
     DEF StartUp, BadArguments, GoodArguments, OpenPort, OpenFails, setBaudrate, setByteSize,
         setParity, setNumStopBits, setFlowControl, SetOption, OptionRefused, ClosePort, EnterCommand,
         Quit, TransactionStep, NoAttemptLeft, SendFails, TakeAnswer, InvalidAnswer, NoAnswer,
         AnswerCut, NextAttempt, AttemptOver, BackToMenu
<1> QED BY <1>2, <1>3, <1>4, <1>5, <1>6, Steps

(* Until an attempt has been given up, no answer is taken for another command's. *)
THEOREM AnswersMatch == Spec => []AnswersMatchUntilGivenUp
<1>1. Init => OwnAnswers
  BY DEF Init, OwnAnswers
<1>2. Typed /\ OwnAnswers => AnswersMatchUntilGivenUp
  <2> SUFFICES ASSUME Typed, OwnAnswers, givenUp = 0, phase = "await", fromTool # <<>>
               PROVE  Head(fromTool) \in {command, "CORRUPT"}
    BY DEF AnswersMatchUntilGivenUp
  <2>1. fromTool \in Seq(Codes \cup {"CORRUPT"})
    BY DEF Typed, TypeOK
  <2>2. Head(fromTool) = fromTool[1] /\ Len(fromTool) \in Nat /\ Len(fromTool) > 0
    BY <2>1, Shrinks
  <2> QED BY <2>2 DEF OwnAnswers
<1> QED BY <1>1, <1>2, OwnStep, Owed, TypesAndHistories, PTL DEF Spec
-----------------------------------------------------------------------------
(* The tool of this model does nothing but what ToolService promises.          *)
LEMMA ToolServed ==
    ASSUME Typed, [Next]_vars
    PROVE  [Tool!ServiceNext]_(Tool!serviceVars)
<1>1. CASE UNCHANGED toolVars
  BY <1>1 DEF toolVars, Tool!serviceVars
<1>2. CASE SendCommand
  <2>1. CASE UNCHANGED toolVars
    BY <1>1, <2>1
  <2>2. CASE Tool!Accept(command)
    <3>1. command \in Codes
      BY <1>2 DEF Typed, Linked, SendCommand, Transacting
    <3> QED BY <2>2, <3>1 DEF Codes, Tool!ServiceNext
  <2> QED BY <1>2, <2>1, <2>2 DEF SendCommand
<1>3. CASE ToolAnswers
  <2>1. PICK r \in {"OK", "REJECTED_AT_TOP", "REJECTED_AT_BOTTOM", "STATUS"} : Tool!Answer(r)
    BY <1>3 DEF ToolAnswers
  <2>2. pending \in Seq(Codes) /\ pending # <<>> /\ r \in Tool!ResultsOf(Head(pending))
    BY <2>1 DEF Typed, TypeOK, Tool!Answer
  <2>3. Head(pending) \in Codes
    BY <2>2
  <2>4. Head(pending) \in Tool!Commands
    BY <2>3 DEF Codes, Tool!Commands
  <2> QED BY <2>1, <2>2, <2>4 DEF Tool!ServiceNext
<1>4. CASE ToolStarts \/ ToolStops \/ ToolResets
  BY <1>4 DEF ToolStarts, ToolStops, ToolResets, Tool!ServiceNext
<1>5. CASE StartUp \/ Quit
  BY <1>1, <1>5
     DEF StartUp, BadArguments, GoodArguments, OpenPort, OpenFails, setBaudrate, setByteSize, setParity,
         setNumStopBits, setFlowControl, SetOption, OptionRefused, Quit, ClosePort, Elsewhere
<1>6. CASE (\E c \in Codes : EnterCommand(c)) \/ (TransactionStep /\ ~SendCommand)
  BY <1>1, <1>6
     DEF EnterCommand, TransactionStep, NoAttemptLeft, SendFails, TakeAnswer, InvalidAnswer, NoAnswer,
         AnswerCut, NextAttempt, AttemptOver
<1>7. CASE UNCHANGED vars
  BY <1>1, <1>7 DEF vars
<1> QED BY <1>2, <1>3, <1>4, <1>5, <1>6, <1>7 DEF Next

(* What is proved of this program is proved of one that speaks to any tool that   *)
(* keeps ToolService, which SimpleTool is proved to do: this model gives its tool  *)
(* no step that the service does not allow.                                    *)
THEOREM ToolIsService == Spec => Tool!ServiceSpec
<1>1. Init => Tool!ServiceInit
  BY DEF Init
<1>2. Typed /\ [Next]_vars => [Tool!ServiceNext]_(Tool!serviceVars)
  BY ToolServed
<1> QED BY <1>1, <1>2, TypesAndHistories, PTL DEF Spec, Tool!ServiceSpec
-----------------------------------------------------------------------------
(* Every command of the operator comes to an end: a measure of what is left of    *)
(* its transaction.                                                          *)

AttemptsLeft == IF AttemptLeft THEN MAX_ATTEMPTS + 1 - attempt ELSE 0

(* At most so many steps of transactWithRetries are left of the command: three    *)
(* for each attempt, and the one that finds none left.                          *)
StepsLeft ==
    CASE phase = "attempt" -> 3 * AttemptsLeft + 1
      [] phase = "await"   -> 3 * AttemptsLeft
      [] phase = "retry"   -> 3 * AttemptsLeft - 1
      [] OTHER             -> 0

(* An answer is awaited, and the pause kept, only in an attempt that was allowed. *)
AttemptAllowed == phase \in {"await", "retry"} => AttemptLeft

(* The measure is a number that is positive exactly during a transaction.        *)
LEMMA Measured ==
    ASSUME TypeOK, AttemptAllowed
    PROVE  StepsLeft \in Nat /\ (StepsLeft > 0 <=> phase \in Transacting)
<1>1. AttemptsLeft \in Nat /\ (AttemptLeft => AttemptsLeft > 0)
  BY AttemptsAssumption DEF TypeOK, AttemptsLeft, AttemptLeft
<1>2. CASE phase \in {"await", "retry"}
  BY <1>1, <1>2 DEF AttemptAllowed, StepsLeft, Transacting
<1>3. CASE phase \notin {"await", "retry"}
  BY <1>1, <1>3 DEF StepsLeft, Transacting
<1> QED BY <1>2, <1>3

(* Every step of a transaction makes it smaller.                               *)
LEMMA StepShrinks ==
    ASSUME TypeOK, AttemptAllowed, TransactionStep
    PROVE  StepsLeft' < StepsLeft /\ AttemptAllowed' /\ phase \in Transacting
<1>0. attempt \in Nat /\ MAX_ATTEMPTS \in Int
  BY AttemptsAssumption DEF TypeOK
<1> USE DEF Transacting
<1>1. ASSUME phase \in Transacting, BackToMenu PROVE StepsLeft' < StepsLeft /\ AttemptAllowed'
  BY <1>1, Measured DEF BackToMenu, StepsLeft, AttemptAllowed
<1>2. CASE NextAttempt
  <2>1. phase = "retry" /\ phase' = "attempt" /\ attempt' = attempt + 1 /\ AttemptLeft
    BY <1>2 DEF NextAttempt, AttemptAllowed
  <2>2. AttemptsLeft' = AttemptsLeft - 1 /\ AttemptsLeft \in Nat
    BY <1>0, <2>1 DEF AttemptsLeft, AttemptLeft
  <2>3. StepsLeft' = 3 * (AttemptsLeft - 1) + 1 /\ StepsLeft = 3 * AttemptsLeft - 1
    BY <2>1, <2>2 DEF StepsLeft
  <2> QED BY <2>1, <2>2, <2>3 DEF AttemptAllowed
<1>3. CASE SendCommand
  <2>1. phase = "attempt" /\ phase' = "await" /\ AttemptLeft /\ attempt' = attempt
    BY <1>3 DEF SendCommand, requestVars
  <2>2. AttemptsLeft' = AttemptsLeft /\ AttemptsLeft \in Nat /\ AttemptLeft'
    BY <1>0, <2>1 DEF AttemptsLeft, AttemptLeft
  <2> QED BY <2>1, <2>2 DEF StepsLeft, AttemptAllowed
<1>4. ASSUME phase = "await", AttemptOver PROVE StepsLeft' < StepsLeft /\ AttemptAllowed'
  <2>1. phase' = "retry" /\ AttemptLeft /\ attempt' = attempt
    BY <1>4 DEF AttemptOver, AttemptAllowed, requestVars
  <2>2. AttemptsLeft' = AttemptsLeft /\ AttemptsLeft \in Nat /\ AttemptLeft'
    BY <1>0, <2>1 DEF AttemptsLeft, AttemptLeft
  <2> QED BY <1>4, <2>1, <2>2 DEF StepsLeft, AttemptAllowed
<1>5. CASE NoAttemptLeft \/ SendFails \/ TakeAnswer
  BY <1>1, <1>5 DEF NoAttemptLeft, SendFails, TakeAnswer
<1>6. CASE InvalidAnswer \/ NoAnswer \/ AnswerCut
  BY <1>4, <1>6 DEF InvalidAnswer, NoAnswer, AnswerCut
<1>7. phase \in Transacting
  BY DEF TransactionStep, NoAttemptLeft, SendCommand, SendFails, TakeAnswer, InvalidAnswer, NoAnswer,
         AnswerCut, NextAttempt
<1> QED BY <1>2, <1>3, <1>5, <1>6, <1>7 DEF TransactionStep

(* What the tool and the line do leaves it, and no other step is taken meanwhile. *)
LEMMA StepsKept ==
    ASSUME TypeOK, AttemptAllowed, [Next]_vars, ~TransactionStep
    PROVE  AttemptAllowed' /\ (phase \in Transacting => phase' = phase /\ StepsLeft' = StepsLeft)
<1>1. CASE ToolAnswers \/ ToolStarts \/ ToolStops \/ ToolResets \/ UNCHANGED vars
  <2>1. phase' = phase /\ attempt' = attempt
    BY <1>1 DEF ToolAnswers, ToolStarts, ToolStops, ToolResets, requestVars, vars
  <2> QED BY <2>1 DEF AttemptAllowed, AttemptLeft, StepsLeft, AttemptsLeft
<1>2. CASE StartUp \/ (\E c \in Codes : EnterCommand(c)) \/ Quit
  <2>1. phase \notin Transacting /\ phase' \notin {"await", "retry"}
    BY <1>2
       DEF StartUp, BadArguments, GoodArguments, OpenPort, OpenFails, setBaudrate, setByteSize,
           setParity, setNumStopBits, setFlowControl, SetOption, OptionRefused, ClosePort, EnterCommand,
           Quit, Transacting, Setting
  <2> QED BY <2>1 DEF AttemptAllowed
<1> QED BY <1>1, <1>2, Steps

(* It always is one.                                                         *)
LEMMA Allowed == Spec => [](TypeOK /\ AttemptAllowed)
<1>1. Init => AttemptAllowed
  BY DEF Init, AttemptAllowed
<1>2. TypeOK /\ AttemptAllowed /\ [Next]_vars => AttemptAllowed'
  BY StepShrinks, StepsKept
<1> QED BY <1>1, <1>2, TypeCorrect, PTL DEF Spec

(* A command takes at most three steps of the program for each attempt and one     *)
(* more, for every max_attempts, whatever the line and the tool do meanwhile:      *)
(* every step of the transaction brings its end nearer, and nothing that the tool  *)
(* does puts it off.                                                         *)
CommandSteps ==
    /\ TransactionStep => StepsLeft' < StepsLeft
    /\ ToolAnswers \/ ToolStarts \/ ToolStops \/ ToolResets => StepsLeft' = StepsLeft

THEOREM CommandBounded ==
    Spec => [][CommandSteps]_vars /\ [](StepsLeft \in Nat /\ (StepsLeft > 0 <=> phase \in Transacting))
<1>1. TypeOK /\ AttemptAllowed /\ [Next]_vars => [CommandSteps]_vars
  <2> SUFFICES ASSUME TypeOK, AttemptAllowed PROVE CommandSteps
    OBVIOUS
  <2>1. TransactionStep => StepsLeft' < StepsLeft
    BY StepShrinks
  <2>2. ASSUME ToolAnswers \/ ToolStarts \/ ToolStops \/ ToolResets PROVE StepsLeft' = StepsLeft
    <3>1. phase' = phase /\ attempt' = attempt
      BY <2>2 DEF ToolAnswers, ToolStarts, ToolStops, ToolResets, requestVars
    <3> QED BY <3>1 DEF StepsLeft, AttemptsLeft, AttemptLeft
  <2> QED BY <2>1, <2>2 DEF CommandSteps
<1>2. TypeOK /\ AttemptAllowed => StepsLeft \in Nat /\ (StepsLeft > 0 <=> phase \in Transacting)
  BY Measured
<1> QED BY <1>1, <1>2, Allowed, PTL DEF Spec

(* While a command is under way the program goes on with it: what FairSpec says     *)
(* of TransactionStep, which a transaction always allows.                        *)
Transacts == <>[](phase \in Transacting) => []<><<TransactionStep>>_vars

(* Then whatever is left of a command becomes less.  With CommandBounded every      *)
(* command so comes back to the menu.                                         *)
THEOREM CommandGoesOn ==
    ASSUME NEW CONSTANT n \in Nat
    PROVE  Spec /\ Transacts => (phase \in Transacting /\ StepsLeft = n ~> StepsLeft < n)
<1> DEFINE Left == phase \in Transacting /\ StepsLeft = n
           Less == StepsLeft < n
<1>1. TypeOK /\ AttemptAllowed /\ Left /\ [Next]_vars => Left' \/ Less'
  <2> SUFFICES ASSUME TypeOK, AttemptAllowed, Left, [Next]_vars PROVE Left' \/ Less'
    OBVIOUS
  <2>1. CASE TransactionStep
    BY <2>1, StepShrinks
  <2>2. CASE ~TransactionStep
    BY <2>2, StepsKept
  <2> QED BY <2>1, <2>2
<1>2. TypeOK /\ AttemptAllowed /\ Left /\ <<TransactionStep>>_vars => Less'
  BY StepShrinks
<1>3. Left => phase \in Transacting
  OBVIOUS
<1> HIDE DEF Left, Less
<1>4. Spec /\ Transacts => (Left ~> Less)
  BY <1>1, <1>2, <1>3, Allowed, PTL DEF Spec, Transacts
<1> QED BY <1>4 DEF Left, Less
=============================================================================

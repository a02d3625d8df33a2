-------------------------- MODULE BrakeScriptProofs --------------------------
(* Proofs about BrakeScript, for every center, deadband, threshold, relay       *)
(* polarity and set of channel values.                                         *)
EXTENDS BrakeScript, TLAPS

Reading == {"readRc5", "readMode", "readRc1", "readRc2"}
Writing == {"writeLeft", "writeRight"}
Locks   == {"disarmed", "locked"}

(* A fact that has held since update() began holds now.                       *)
HeldNow == held \subseteq TrueFacts

(* While update() is still reading, arming has been seen, and from readMode on  *)
(* RC5 too: neither lock can have held all along.                              *)
NotLocked ==
    /\ phase \in Reading => "disarmed" \notin held
    /\ phase \in Reading \ {"readRc5"} => "locked" \notin held

(* The left relay has been written when the right one is about to be.         *)
LeftWritten == phase = "writeRight" => relayOn["left"] = Level(brake)

LockedBrakes == phase \in Writing /\ held \cap Locks # {} => brake = TRUE

LockInv == TypeOK /\ HeldNow /\ NotLocked /\ LeftWritten /\ LockedBrakes
               /\ BrakesTogether /\ LockedIsBraked

-----------------------------------------------------------------------------
(* Every relay level is a Boolean, and the two levels differ.                 *)
LEMMA LevelFacts ==
    /\ \A e \in BOOLEAN : Level(e) \in BOOLEAN
    /\ \A e \in BOOLEAN : (Level(e) = Level(TRUE)) <=> e
  BY BrakeAssumption DEF Level

(* update() starts with the relays in any position and nothing held.          *)
LEMMA LockInvInit == Init => LockInv
  BY DEF Init, LockInv, TypeOK, Phases, Facts, HeldNow, NotLocked, LeftWritten, LockedBrakes,
         BrakesTogether, LockedIsBraked, Reading, Writing, Locks

(* Every step keeps the types.                                                *)
LEMMA TypeStep == TypeOK /\ [Next]_vars => TypeOK'
<1> SUFFICES ASSUME TypeOK, [Next]_vars PROVE TypeOK'
  OBVIOUS
<1> USE DEF TypeOK, Phases, Facts, inputs
<1>1. CASE InputsChange
  BY <1>1 DEF InputsChange
<1>2. CASE Update
  BY <1>2 DEF Update, SetBoth, TrueFacts
<1>3. CASE ReadRc5
  BY <1>3 DEF ReadRc5, SetBoth
<1>4. CASE ReadMode
  BY <1>4 DEF ReadMode, SetBoth
<1>5. CASE ReadRc1
  <2>1. channel_in_deadband(rc1) \in BOOLEAN
    BY DEF channel_in_deadband
  <2> QED BY <1>5, <2>1 DEF ReadRc1
<1>6. CASE ReadRc2
  <2>1. (rc1InDeadband /\ channel_in_deadband(rc2)) \in BOOLEAN
    OBVIOUS
  <2> QED BY <1>6, <2>1 DEF ReadRc2, SetBoth
<1>7. CASE WriteLeft
  BY <1>7, LevelFacts DEF WriteLeft, Brakes
<1>8. CASE WriteRight
  BY <1>8, LevelFacts DEF WriteRight, Brakes
<1>9. CASE UNCHANGED vars
  BY <1>9 DEF vars
<1> QED
  BY <1>1, <1>2, <1>3, <1>4, <1>5, <1>6, <1>7, <1>8, <1>9 DEF Next, ScriptStep

(* What has held stays current: an input that changes takes its fact away.    *)
LEMMA HeldStep == HeldNow /\ [Next]_vars => HeldNow'
<1> SUFFICES ASSUME HeldNow, [Next]_vars PROVE HeldNow'
  OBVIOUS
<1>1. CASE InputsChange
  BY <1>1 DEF InputsChange, HeldNow
<1>2. CASE Update
  BY <1>2 DEF Update, HeldNow, TrueFacts, inputs
<1>3. ASSUME UNCHANGED <<inputs, held>> PROVE HeldNow'
  BY <1>3 DEF HeldNow, TrueFacts, inputs
<1> QED
  BY <1>1, <1>2, <1>3
     DEF Next, ScriptStep, ReadRc5, ReadMode, ReadRc1, ReadRc2, WriteLeft, WriteRight, vars

(* Every step keeps what the locks need.                                      *)
LEMMA LockInvStep == LockInv /\ [Next]_vars => LockInv'
<1> SUFFICES ASSUME LockInv, [Next]_vars PROVE LockInv'
  OBVIOUS
<1>1. TypeOK' /\ HeldNow'
  BY TypeStep, HeldStep DEF LockInv
<1> DEFINE Rest == NotLocked /\ LeftWritten /\ LockedBrakes /\ BrakesTogether /\ LockedIsBraked
<1> SUFFICES Rest'
  BY <1>1 DEF LockInv
<1> USE DEF LockInv, NotLocked, LeftWritten, LockedBrakes, BrakesTogether, LockedIsBraked,
            Reading, Writing, Locks
<1>2. CASE InputsChange
  BY <1>2 DEF InputsChange, Applied
<1>3. CASE Update
  BY <1>3 DEF Update, SetBoth, TrueFacts
<1>4. CASE ReadRc5
  BY <1>4 DEF ReadRc5, SetBoth, HeldNow, TrueFacts
<1>5. CASE ReadMode
  BY <1>5 DEF ReadMode, SetBoth
<1>6. CASE ReadRc1
  BY <1>6 DEF ReadRc1
<1>7. CASE ReadRc2
  BY <1>7 DEF ReadRc2, SetBoth
<1>8. CASE WriteLeft
  BY <1>8 DEF WriteLeft, TypeOK, Brakes
<1>9. CASE WriteRight
  <2>1. /\ relayOn' = [relayOn EXCEPT !["right"] = Level(brake)]
        /\ phase = "writeRight" /\ phase' = "idle" /\ held' = held
    BY <1>9 DEF WriteRight
  <2>2. relayOn'["left"] = Level(brake) /\ relayOn'["right"] = Level(brake)
    BY <2>1 DEF TypeOK, Brakes
  <2>3. \A b \in Brakes : relayOn'[b] = Level(brake)
    BY <2>2 DEF Brakes
  <2> QED BY <2>1, <2>3 DEF Applied, Brakes
<1>10. CASE UNCHANGED vars
  BY <1>10 DEF vars, Applied
<1> QED
  BY <1>2, <1>3, <1>4, <1>5, <1>6, <1>7, <1>8, <1>9, <1>10 DEF Next, ScriptStep

(* Every reachable state has the types, both brakes move together, and a      *)
(* vehicle disarmed or locked for the whole of the last update is braked.       *)
THEOREM LockInvariant == Spec => []LockInv
  BY LockInvInit, LockInvStep, PTL DEF Spec

(* Every reachable state has the types.                                      *)
THEOREM TypeCorrect == Spec => []TypeOK
<1>1. LockInv => TypeOK
  BY DEF LockInv
<1> QED BY <1>1, LockInvariant, PTL

(* Between two updates both brakes are in the same position.                  *)
THEOREM Together == Spec => []BrakesTogether
<1>1. LockInv => BrakesTogether
  BY DEF LockInv
<1> QED BY <1>1, LockInvariant, PTL

(* Rules 1 and 2 hold whatever the other inputs did during the update.        *)
THEOREM LockedBraked == Spec => []LockedIsBraked
<1>1. LockInv => LockedIsBraked
  BY DEF LockInv
<1> QED BY <1>1, LockInvariant, PTL

-----------------------------------------------------------------------------
(* What the reads of an undisturbed update have established so far, and the   *)
(* decision they end in.                                                      *)
ReadsSoFar ==
    "unchanged" \in held =>
        /\ phase \in Reading => armed
        /\ phase \in Reading \ {"readRc5"} => switch_is_on(rc5)
        /\ phase \in {"readRc1", "readRc2"} => ~auto
        /\ phase = "readRc2" => (rc1InDeadband <=> channel_in_deadband(rc1))
        /\ phase \in Writing => (brake <=> MustBrake)

RulesInv == LockInv /\ ReadsSoFar /\ RulesFollowed

(* The deadband test of the script is the band of the rules.                  *)
LEMMA DeadbandIsBand ==
    ASSUME NEW p \in StickPwm
    PROVE  channel_in_deadband(p) <=>
               (p = NoSignal \/ (CENTER - DEADBAND <= p /\ p <= CENTER + DEADBAND))
  BY BrakeAssumption DEF channel_in_deadband, NoSignal

(* RC5 is on exactly when it has a signal of at least ENABLE_PWM.             *)
LEMMA SwitchIsThreshold ==
    ASSUME NEW p \in SwitchPwm
    PROVE  switch_is_on(p) <=> ~(p = NoSignal \/ p < ENABLE_PWM)
  BY BrakeAssumption DEF switch_is_on, NoSignal

(* Every step keeps what the reads of an undisturbed update have established. *)
LEMMA RulesInvStep == RulesInv /\ [Next]_vars => RulesInv'
<1> SUFFICES ASSUME RulesInv, [Next]_vars PROVE RulesInv'
  OBVIOUS
<1>1. LockInv' /\ TypeOK
  BY LockInvStep DEF RulesInv, LockInv
<1> DEFINE Rest == ReadsSoFar /\ RulesFollowed
<1> SUFFICES Rest'
  BY <1>1 DEF RulesInv
<1> USE DEF RulesInv, ReadsSoFar, RulesFollowed, Reading, Writing
<1>2. CASE InputsChange
  BY <1>2 DEF InputsChange
<1>3. CASE Update
  BY <1>3 DEF Update, SetBoth, MustBrake, inputs
<1>4. CASE ReadRc5
  <2>1. switch_is_on(rc5) <=> ~(rc5 = NoSignal \/ rc5 < ENABLE_PWM)
    BY <1>1, SwitchIsThreshold DEF TypeOK
  <2> QED BY <1>4, <2>1 DEF ReadRc5, SetBoth, MustBrake, inputs, switch_is_on
<1>5. CASE ReadMode
  <2>1. switch_is_on(rc5) <=> ~(rc5 = NoSignal \/ rc5 < ENABLE_PWM)
    BY <1>1, SwitchIsThreshold DEF TypeOK
  <2> QED BY <1>5, <2>1 DEF ReadMode, SetBoth, MustBrake, inputs, switch_is_on
<1>6. CASE ReadRc1
  BY <1>6 DEF ReadRc1, inputs, switch_is_on, channel_in_deadband
<1>7. CASE ReadRc2
  <2>1. switch_is_on(rc5) <=> ~(rc5 = NoSignal \/ rc5 < ENABLE_PWM)
    BY <1>1, SwitchIsThreshold DEF TypeOK
  <2>2. channel_in_deadband(rc1) <=>
            (rc1 = NoSignal \/ (CENTER - DEADBAND <= rc1 /\ rc1 <= CENTER + DEADBAND))
    BY <1>1, DeadbandIsBand DEF TypeOK
  <2>3. channel_in_deadband(rc2) <=>
            (rc2 = NoSignal \/ (CENTER - DEADBAND <= rc2 /\ rc2 <= CENTER + DEADBAND))
    BY <1>1, DeadbandIsBand DEF TypeOK
  <2>4. /\ phase' = "writeLeft" /\ UNCHANGED <<inputs, held>>
        /\ brake' = (rc1InDeadband /\ channel_in_deadband(rc2))
        /\ phase = "readRc2"
    BY <1>7 DEF ReadRc2, SetBoth
  <2>5. "unchanged" \in held => (brake' <=> MustBrake)
    BY <2>1, <2>2, <2>3, <2>4 DEF MustBrake
  <2>6. MustBrake' <=> MustBrake
    BY <2>4 DEF MustBrake, inputs
  <2> QED BY <2>4, <2>5, <2>6
<1>8. CASE WriteLeft
  BY <1>8 DEF WriteLeft, MustBrake, inputs
<1>9. CASE WriteRight
  <2>1. /\ relayOn' = [relayOn EXCEPT !["right"] = Level(brake)]
        /\ phase = "writeRight" /\ phase' = "idle" /\ UNCHANGED <<inputs, held, brake>>
    BY <1>9 DEF WriteRight
  <2>2. relayOn'["left"] = Level(brake) /\ relayOn'["right"] = Level(brake)
    BY <2>1, <1>1 DEF TypeOK, Brakes, LockInv, LeftWritten
  <2>3. \A b \in Brakes : Applied(b)' <=> brake
    BY <2>2, <1>1, LevelFacts DEF Brakes, Applied, TypeOK, Level
  <2>4. MustBrake' <=> MustBrake
    BY <2>1 DEF MustBrake, inputs
  <2> QED BY <2>1, <2>3, <2>4
<1>10. CASE UNCHANGED vars
  BY <1>10 DEF vars, inputs, Applied, MustBrake, switch_is_on, channel_in_deadband
<1> QED
  BY <1>2, <1>3, <1>4, <1>5, <1>6, <1>7, <1>8, <1>9, <1>10 DEF Next, ScriptStep

(* An update whose inputs stayed as they were leaves the brakes where the     *)
(* rules at the head of the script put them, for every threshold and deadband.  *)
THEOREM RulesHold == Spec => []RulesFollowed
<1>1. Init => RulesInv
  <2>1. Init => ReadsSoFar /\ RulesFollowed
    BY DEF Init, ReadsSoFar, RulesFollowed, Reading, Writing
  <2> QED BY <2>1, LockInvInit DEF RulesInv
<1>2. RulesInv => RulesFollowed
  BY DEF RulesInv
<1> QED BY <1>1, <1>2, RulesInvStep, PTL DEF Spec

=============================================================================

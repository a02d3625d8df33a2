----------------------------- MODULE BrakeScript -----------------------------
(* The automatic parking brake, PixHawk_Scripts/scripts/                       *)
(* ROC_brakes_rc5_global_auto.lua: update() runs every 20 ms in the scripting   *)
(* thread of the autopilot.  It reads arming, RC5, the mode, RC1 and RC2 one     *)
(* after the other and writes the relay of each brake, while the vehicle and     *)
(* the radio go on changing.                                                   *)
EXTENDS Integers

CONSTANTS
    CENTER, DEADBAND,     \* CENTER_RC1 = CENTER_RC2, DEADBAND_RC1 = DEADBAND_RC2
    ENABLE_PWM,
    BRAKE_ACTIVE_HIGH,    \* FALSE: relay off applies the brake
    SwitchPwm, StickPwm   \* values of RC5, and of RC1 and RC2

(* rc:get_pwm returns nil or false.                                           *)
NoSignal == -1

ASSUME BrakeAssumption ==
    /\ CENTER \in Int /\ DEADBAND \in Nat /\ ENABLE_PWM \in Nat
    /\ BRAKE_ACTIVE_HIGH \in BOOLEAN
    /\ SwitchPwm \subseteq Nat \cup {NoSignal} /\ StickPwm \subseteq Nat \cup {NoSignal}

VARIABLES
    armed, auto, rc5, rc1, rc2,   \* the vehicle and the radio
    relayOn,                      \* Relay3 and Relay4
    phase,                        \* where update() stands
    rc1InDeadband,                \* rc1_in_deadband
    brake,                        \* the argument of brake_relay
    held                          \* history: what has been true since update() began

inputs == <<armed, auto, rc5, rc1, rc2>>
vars == <<inputs, relayOn, phase, rc1InDeadband, brake, held>>

Brakes == {"left", "right"}
Phases == {"boot", "idle", "readRc5", "readMode", "readRc1", "readRc2", "writeLeft", "writeRight"}
Facts  == {"disarmed", "locked", "unchanged"}

(* brake_relay(relay, enable): the level that applies or releases the brake.  *)
Level(enable) == enable = BRAKE_ACTIVE_HIGH
Applied(b) == relayOn[b] = Level(TRUE)

(* switch_is_on and channel_in_deadband.                                      *)
switch_is_on(p) == p # NoSignal /\ p >= ENABLE_PWM

(* Fault injection: the deadband reaches to one side only.                    *)
DeadbandOneSided(p) == p = NoSignal \/ p - CENTER <= DEADBAND

channel_in_deadband(p) == p = NoSignal \/ (p - CENTER <= DEADBAND /\ CENTER - p <= DEADBAND)

TrueFacts == {f \in Facts :
    \/ f = "disarmed"  /\ ~armed
    \/ f = "locked"    /\ ~switch_is_on(rc5)
    \/ f = "unchanged"}

-----------------------------------------------------------------------------
(* The vehicle and the radio change (external).                              *)
InputsChange ==
    /\ armed' \in BOOLEAN /\ auto' \in BOOLEAN
    /\ rc5' \in SwitchPwm /\ rc1' \in StickPwm /\ rc2' \in StickPwm
    /\ inputs' # inputs
    /\ held' = (held \cap TrueFacts') \ {"unchanged"}
    /\ UNCHANGED <<relayOn, phase, rc1InDeadband, brake>>

(* apply_both_brakes, release_both_brakes and the two last calls of update(): *)
(* the left relay is written, then the right one.                              *)
SetBoth(enable) == brake' = enable /\ phase' = "writeLeft"

(* Fault injection: only a change of arming is acted upon.                    *)
UpdateTrustsArming ==
    /\ phase \in {"boot", "idle"}
    /\ held' = TrueFacts
    /\ phase' = "readRc5"
    /\ UNCHANGED <<inputs, relayOn, rc1InDeadband, brake>>

(* update() begins: rule 1, a disarmed vehicle is braked.                     *)
Update ==
    /\ phase \in {"boot", "idle"}
    /\ held' = TrueFacts
    /\ IF armed THEN phase' = "readRc5" /\ UNCHANGED brake ELSE SetBoth(TRUE)
    /\ UNCHANGED <<inputs, relayOn, rc1InDeadband>>

(* Rule 2: RC5 off or without signal locks the brakes.                        *)
ReadRc5 ==
    /\ phase = "readRc5"
    /\ IF switch_is_on(rc5) THEN phase' = "readMode" /\ UNCHANGED brake ELSE SetBoth(TRUE)
    /\ UNCHANGED <<inputs, relayOn, rc1InDeadband, held>>

ReadMode ==
    /\ phase = "readMode"
    /\ IF auto THEN SetBoth(FALSE) ELSE phase' = "readRc1" /\ UNCHANGED brake
    /\ UNCHANGED <<inputs, relayOn, rc1InDeadband, held>>

ReadRc1 ==
    /\ phase = "readRc1"
    /\ rc1InDeadband' = channel_in_deadband(rc1)
    /\ phase' = "readRc2"
    /\ UNCHANGED <<inputs, relayOn, brake, held>>

ReadRc2 ==
    /\ phase = "readRc2"
    /\ SetBoth(rc1InDeadband /\ channel_in_deadband(rc2))
    /\ UNCHANGED <<inputs, relayOn, rc1InDeadband, held>>

(* Fault injection: the right brake is left as it was.                        *)
WriteLeftOnly ==
    /\ phase = "writeLeft"
    /\ relayOn' = [relayOn EXCEPT !["left"] = Level(brake)]
    /\ phase' = "idle"
    /\ UNCHANGED <<inputs, rc1InDeadband, brake, held>>

WriteLeft ==
    /\ phase = "writeLeft"
    /\ relayOn' = [relayOn EXCEPT !["left"] = Level(brake)]
    /\ phase' = "writeRight"
    /\ UNCHANGED <<inputs, rc1InDeadband, brake, held>>

WriteRight ==
    /\ phase = "writeRight"
    /\ relayOn' = [relayOn EXCEPT !["right"] = Level(brake)]
    /\ phase' = "idle"
    /\ UNCHANGED <<inputs, rc1InDeadband, brake, held>>

Init ==
    /\ armed \in BOOLEAN /\ auto \in BOOLEAN
    /\ rc5 \in SwitchPwm /\ rc1 \in StickPwm /\ rc2 \in StickPwm
    /\ relayOn \in [Brakes -> BOOLEAN]
    /\ phase = "boot" /\ rc1InDeadband = FALSE /\ brake = TRUE
    /\ held = {}

ScriptStep ==
    Update \/ ReadRc5 \/ ReadMode \/ ReadRc1 \/ ReadRc2 \/ WriteLeft \/ WriteRight

Next == InputsChange \/ ScriptStep

Spec == Init /\ [][Next]_vars

(* The scripting thread calls update() again every UPDATE_MS.                 *)
FairSpec == Spec /\ WF_vars(ScriptStep)

-----------------------------------------------------------------------------
TypeOK ==
    /\ armed \in BOOLEAN /\ auto \in BOOLEAN
    /\ rc5 \in SwitchPwm /\ rc1 \in StickPwm /\ rc2 \in StickPwm
    /\ relayOn \in [Brakes -> BOOLEAN]
    /\ phase \in Phases
    /\ rc1InDeadband \in BOOLEAN /\ brake \in BOOLEAN /\ held \in SUBSET Facts

(* Between two updates both brakes are in the same position.                  *)
BrakesTogether == phase = "idle" => (Applied("left") <=> Applied("right"))

(* A vehicle that has been disarmed, or locked by RC5 (off or lost), for the  *)
(* whole of the last update has both brakes on, however the other inputs        *)
(* changed in between (rules 1 and 2 of the script).                            *)
LockedIsBraked ==
    phase = "idle" /\ held \cap {"disarmed", "locked"} # {} => \A b \in Brakes : Applied(b)

(* The rules at the head of the script, as one decision.                      *)
MustBrake ==
    \/ ~armed
    \/ rc5 = NoSignal \/ rc5 < ENABLE_PWM
    \/ /\ ~auto
       /\ \A p \in {rc1, rc2} : p = NoSignal \/ (CENTER - DEADBAND <= p /\ p <= CENTER + DEADBAND)

(* An update that saw its inputs unchanged leaves the brakes as the rules say. *)
RulesFollowed ==
    phase = "idle" /\ "unchanged" \in held => \A b \in Brakes : Applied(b) <=> MustBrake

(* A vehicle that stays disarmed ends up braked for good, and so does one     *)
(* whose RC5 stays off or lost.                                               *)
LockHolds ==
    (<>[](~armed) \/ <>[](~switch_is_on(rc5))) => <>[](\A b \in Brakes : Applied(b))

=============================================================================

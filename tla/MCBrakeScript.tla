---------------------------- MODULE MCBrakeScript ----------------------------
(* The constants of the script, with each channel at the edge of its decision:  *)
(* RC5 just below and at ENABLE_PWM, the sticks at and beyond each end of the   *)
(* deadband, and no signal.                                                    *)
EXTENDS BrakeScript

SwitchEdges == {NoSignal, 1699, 1700}
StickEdges  == {NoSignal, 1439, 1440, 1560, 1561}
=============================================================================

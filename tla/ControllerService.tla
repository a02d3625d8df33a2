--------------------------- MODULE ControllerService ---------------------------
(* What the interrupt-driven tool firmware promises the program that commands   *)
(* it: a command is held until it is answered, and nothing else happens between; *)
(* an answer is true of the tool, and stays true until it is out; a stop and a    *)
(* reset end whatever goes on; the tool is driven in one direction at a time,     *)
(* only after a start it has answered OK, and by no start while it moves or is    *)
(* in fault; a fault lasts until a stop or a reset.                             *)

VARIABLES
    held,             \* the command taken in and not answered
    answer,           \* the answer on its way out
    granted,          \* the direction answered OK and not yet driven
    driven,           \* the directions the motor is driven in
    faulty

serviceVars == <<held, answer, granted, driven, faulty>>

Directions == {"UP", "DOWN"}
Commands   == Directions \cup {"STOP", "RESET_FAULT", "STATUS_REQUEST", "UNKNOWN"}
Reports    == {"UNKNOWN", "AT_BOTTOM", "AT_TOP", "MOVING_UP", "MOVING_DOWN",
               "STOPPED_BETWEEN_LIMITS", "FAULT"}

RejectedAt(d) == IF d = "UP" THEN "REJECTED_AT_TOP" ELSE "REJECTED_AT_BOTTOM"
MovingIn(d)   == IF d = "UP" THEN "MOVING_UP" ELSE "MOVING_DOWN"

AnswerTo(c, r) == [cmd |-> c, result |-> r]
NoAnswer == AnswerTo("NONE", "NONE")

(* The tool attends to no frame.                                              *)
Free == held = "NONE" /\ answer = NoAnswer

Busy(d) == granted = d \/ d \in driven
AtRest  == \A d \in Directions : ~Busy(d)

(* Fault injection: what was granted is not taken back.                       *)
HaltMotorOnly == driven' = {} /\ UNCHANGED granted

Halt == granted' = "NONE" /\ driven' = {}

ServiceInit ==
    held = "NONE" /\ answer = NoAnswer /\ granted = "NONE" /\ driven = {} /\ faulty = FALSE

Take(c) ==
    /\ Free
    /\ held' = c
    /\ UNCHANGED <<answer, granted, driven, faulty>>

Reply(r) == held' = "NONE" /\ answer' = AnswerTo(held, r)

Stop ==
    /\ held \in {"STOP", "RESET_FAULT"}
    /\ Reply("OK")
    /\ Halt /\ faulty' = FALSE

(* Fault injection: a start clears the fault.                                 *)
GrantClearsFault ==
    /\ held \in Directions /\ AtRest
    /\ Reply("OK")
    /\ granted' = held /\ faulty' = FALSE
    /\ UNCHANGED driven

Grant ==
    /\ held \in Directions /\ ~faulty /\ AtRest
    /\ Reply("OK")
    /\ granted' = held
    /\ UNCHANGED <<driven, faulty>>

Refuse ==
    /\ \/ held \in Directions /\ faulty /\ Reply("REJECTED_FAULT")
       \/ held \in Directions /\ ~faulty /\ AtRest /\ Reply(RejectedAt(held))
       \/ held \in Directions /\ ~AtRest /\ Reply("ALREADY_MOVING")
       \/ held = "UNKNOWN" /\ Reply("INVALID_COMMAND")
    /\ UNCHANGED <<granted, driven, faulty>>

(* A start that finds the two sensors in contradiction is a fault.              *)
Condemn ==
    /\ held \in Directions /\ ~faulty
    /\ Reply("REJECTED_SENSOR_CONFLICT")
    /\ Halt /\ faulty' = TRUE

(* The status of a tool whose sensors contradict each other is UNKNOWN.         *)
Report ==
    /\ held = "STATUS_REQUEST"
    /\ \E s \in Reports :
        /\ Reply(s)
        /\ (s = "FAULT") = faulty
        /\ \A d \in Directions : s = MovingIn(d) => Busy(d)
        /\ ~AtRest => s \in {"UNKNOWN", "MOVING_UP", "MOVING_DOWN"}
    /\ UNCHANGED <<granted, driven, faulty>>

Deliver ==
    /\ answer # NoAnswer
    /\ answer' = NoAnswer
    /\ UNCHANGED <<held, granted, driven, faulty>>

(* What the tool does by itself, between frames.                              *)
Start ==
    /\ Free /\ granted # "NONE"
    /\ driven' = {granted} /\ granted' = "NONE"
    /\ UNCHANGED <<held, answer, faulty>>

Arrive ==
    /\ Free /\ driven # {}
    /\ driven' = {}
    /\ UNCHANGED <<held, answer, granted, faulty>>

Fail ==
    /\ Free
    /\ Halt /\ faulty' = TRUE
    /\ UNCHANGED <<held, answer>>

AnswerStep == Stop \/ Grant \/ Refuse \/ Condemn \/ Report

ServiceNext ==
    \/ \E c \in Commands : Take(c)
    \/ AnswerStep \/ Deliver
    \/ Start \/ Arrive \/ Fail

ServiceSpec == ServiceInit /\ [][ServiceNext]_serviceVars
=============================================================================

----------------------------- MODULE ToolService -----------------------------
(* What the blocking tool firmware promises the masters on its line: commands  *)
(* are held in the order they came, each is answered once, before the next one  *)
(* and while the tool is at rest; the tool moves once for each answer OK, in the *)
(* direction answered, and answers nothing until that movement is over.         *)
EXTENDS Integers, Sequences

CONSTANTS
    Frames,           \* the frames the masters on the line may send
    BUFFER            \* frames the tool holds beside the one it answers

VARIABLES
    pending,          \* frames taken in and not answered, oldest first
    lastAnswer,
    granted,          \* the direction answered OK and not yet started
    motion            \* the direction the tool is driven in

serviceVars == <<pending, lastAnswer, granted, motion>>

Directions == {"UP", "DOWN"}

(* "FOREIGN" stands for a frame for another device, or one too short.          *)
Commands == {"UP", "DOWN", "STATUS", "INVALID", "FOREIGN"}

RejectedAt(d) == IF d = "UP" THEN "REJECTED_AT_TOP" ELSE "REJECTED_AT_BOTTOM"

ResultsOf(c) ==
    CASE c \in Directions -> {"OK", RejectedAt(c)}
      [] c = "STATUS"     -> {"STATUS"}
      [] c = "INVALID"    -> {"INVALID_COMMAND"}
      [] OTHER            -> {}

AnswerTo(c, r) == [cmd |-> c, result |-> r]
NoAnswer == AnswerTo("NONE", "NONE")

AtRest == motion = "NONE" /\ granted = "NONE"

ServiceInit == pending = <<>> /\ lastAnswer = NoAnswer /\ granted = "NONE" /\ motion = "NONE"

Accept(c) ==
    /\ Len(pending) <= BUFFER
    /\ pending' = Append(pending, c)
    /\ UNCHANGED <<lastAnswer, granted, motion>>

Answer(r) ==
    /\ AtRest /\ pending # <<>>
    /\ r \in ResultsOf(Head(pending))
    /\ lastAnswer' = AnswerTo(Head(pending), r)
    /\ granted' = IF r = "OK" THEN Head(pending) ELSE "NONE"
    /\ pending' = Tail(pending)
    /\ UNCHANGED motion

Ignore ==
    /\ AtRest /\ pending # <<>>
    /\ Head(pending) = "FOREIGN"
    /\ pending' = Tail(pending)
    /\ UNCHANGED <<lastAnswer, granted, motion>>

Start ==
    /\ granted # "NONE"
    /\ motion' = granted
    /\ granted' = "NONE"
    /\ UNCHANGED <<pending, lastAnswer>>

Stop ==
    /\ motion # "NONE"
    /\ motion' = "NONE"
    /\ UNCHANGED <<pending, lastAnswer, granted>>

(* The supply fails: what was held and granted is forgotten.                  *)
Reset ==
    /\ pending' = <<>> /\ lastAnswer' = NoAnswer
    /\ granted' = "NONE" /\ motion' = "NONE"

ServiceNext ==
    \/ \E c \in Frames : Accept(c)
    \/ \E c \in Commands : \E r \in ResultsOf(c) : Answer(r)
    \/ Ignore \/ Start \/ Stop \/ Reset

ServiceSpec == ServiceInit /\ [][ServiceNext]_serviceVars
=============================================================================

-------------------------- MODULE MCToolController --------------------------
(* Small instances of ToolController.  One tick stands for 100 ms; the waits   *)
(* keep their order: the dead time and a reply are one tick, a movement several.*)
EXTENDS ToolController

(* Every command, and a frame the tool ignores.                              *)
AllFrames == Commands \cup {NoCommand}

(* A master that can start, stop and flood, and a frame the tool ignores: the  *)
(* liveness runs, whose graphs must stay small.                               *)
StartStopFrames == {"UP", "STOP", NoCommand}

(* What the fault report needs.                                              *)
ReportFrames == {"UP", "STOP", "STATUS_REQUEST"}
=============================================================================

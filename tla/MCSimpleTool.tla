----------------------------- MODULE MCSimpleTool -----------------------------
(* A small instance of SimpleTool: a movement lasts at most three rounds, the   *)
(* clock wraps during it, and one frame more than the buffer may be waiting.    *)
EXTENDS SimpleTool

EveryFrame == Commands
=============================================================================

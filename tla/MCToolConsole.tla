----------------------------- MODULE MCToolConsole -----------------------------
(* A small instance of ToolConsole.                                           *)
EXTENDS ToolConsole
=============================================================================

------------------------- MODULE MCKeyboardController -------------------------
(* A small instance of KeyboardController.                                    *)
EXTENDS KeyboardController
=============================================================================

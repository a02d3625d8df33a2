------------------------------ MODULE MCHilLine ------------------------------
(* A small instance of HilLine.  The messages are chosen for their bytes: 0x7E  *)
(* in the identifier 254, 0x7D as the last byte of the answer's checksum.       *)
EXTENDS HilLine

EveryReader == AllReaders

SomeCommands  == {<<1, 1>>, <<254, 2>>}
SomeResponses == {<<1, 1, 2, 3>>}

(* The delimiter, and the two bytes that count the same in the checksum.       *)
Disturbances == {0, 126, 255}
=============================================================================

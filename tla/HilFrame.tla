------------------------------- MODULE HilFrame -------------------------------
(* The HIL frame, as its three implementations build it and take it apart:     *)
(* Frame of the keyboard controller (frame.cpp), HilFrame of the radio bridge  *)
(* (hil_frame.cpp) and HilFrameArduino of the firmware.  A payload is a        *)
(* sequence of bytes; a frame is a delimiter, the escaped payload and its      *)
(* checksum, and a delimiter.                                                  *)
EXTENDS Integers, Sequences, SequencesExt

Bytes  == 0..255
HEADER == 126                    \* 0x7E
END    == 126
ESCAPE == 125                    \* 0x7D

(* byte ^ 0x20.                                                               *)
Flip(b) == IF (b \div 32) % 2 = 0 THEN b + 32 ELSE b - 32

isEscapable(b) == b \in {HEADER, END, ESCAPE}

(* Fletcher-16, modulo 255: the low byte of the sum and the high one.          *)
AddByte(s, b) == LET sum1 == (s[1] + b) % 255 IN <<sum1, (s[2] + sum1) % 255>>

(* The sums after each byte of d: the loops are written as functions of how far *)
(* they have come.                                                            *)
Sums(d) ==
    LET sums[n \in 0..Len(d)] == IF n = 0 THEN <<0, 0>> ELSE AddByte(sums[n - 1], d[n])
    IN  sums

checksum(d) == Sums(d)[Len(d)]

-----------------------------------------------------------------------------
(* Frame, of the keyboard controller.                                         *)

Escaped(b) == IF isEscapable(b) THEN <<ESCAPE, Flip(b)>> ELSE <<b>>

Escapes(d) ==
    LET out[n \in 0..Len(d)] == IF n = 0 THEN <<>> ELSE out[n - 1] \o Escaped(d[n])
    IN  out

escapedCopy(d) == Escapes(d)[Len(d)]

(* What the decoders do with one byte.                                        *)
Unescape(s, b) ==
    LET escape == ~s.escapeNext /\ b = ESCAPE
    IN  [out        |-> IF escape THEN s.out ELSE Append(s.out, IF s.escapeNext THEN Flip(b) ELSE b),
         escapeNext |-> escape]

NothingRead == [out |-> <<>>, escapeNext |-> FALSE]

Unescapes(d) ==
    LET state[n \in 0..Len(d)] == IF n = 0 THEN NothingRead ELSE Unescape(state[n - 1], d[n])
    IN  state

Unescaped(d) == Unescapes(d)[Len(d)]

(* An escape with nothing after it stays in the data.                         *)
unescapedCopy(d) ==
    LET s == Unescaped(d) IN IF s.escapeNext THEN Append(s.out, ESCAPE) ELSE s.out

build(d) ==
    IF d = <<>> THEN <<>> ELSE <<HEADER>> \o escapedCopy(d \o checksum(d)) \o <<END>>

(* Fault injection: the checksum stays behind the payload.                    *)
PayloadAndChecksum(d) ==
    LET size == Len(d) - 2
    IN  IF size >= 0 /\ SubSeq(d, size + 1, size + 2) = checksum(SubSeq(d, 1, size)) THEN {d} ELSE {}

(* What a decoder makes of a payload with its checksum; {} when it refuses it. *)
CheckedPayload(d) ==
    LET size == Len(d) - 2
    IN  IF size >= 0 /\ SubSeq(d, size + 1, size + 2) = checksum(SubSeq(d, 1, size))
          THEN {SubSeq(d, 1, size)} ELSE {}

(* Fault injection: the payload is taken whatever its checksum.               *)
UnbuildUnchecked(buffer) ==
    IF Len(buffer) >= 4
      THEN LET d == unescapedCopy(SubSeq(buffer, 2, Len(buffer) - 1))
           IN  IF Len(d) >= 2 THEN {SubSeq(d, 1, Len(d) - 2)} ELSE {}
      ELSE {}

unbuild(buffer) ==
    IF Len(buffer) >= 4 /\ Head(buffer) = HEADER /\ Last(buffer) = END
      THEN CheckedPayload(unescapedCopy(SubSeq(buffer, 2, Len(buffer) - 1)))
      ELSE {}

-----------------------------------------------------------------------------
(* HilFrame, of the bridge.                                                   *)

appendEscaped(out, b) ==
    IF b \in {HEADER, ESCAPE} THEN out \o <<ESCAPE, Flip(b)>> ELSE Append(out, b)

Appends(start, d) ==
    LET out[n \in 0..Len(d)] == IF n = 0 THEN start ELSE appendEscaped(out[n - 1], d[n])
    IN  out

AppendedTo(start, d) == Appends(start, d)[Len(d)]

BridgeBuild(d) ==
    IF d = <<>> THEN <<>> ELSE Append(AppendedTo(<<HEADER>>, d \o checksum(d)), HEADER)

decodeFromBytes(encoded) ==
    IF Unescaped(encoded).escapeNext THEN {} ELSE CheckedPayload(Unescaped(encoded).out)

-----------------------------------------------------------------------------
(* HilFrameArduino, of the firmware: its buffers have room for maxPayload      *)
(* bytes, and for the frame of that many bytes when each of them is escaped.   *)

MaxEncoded(maxPayload) == 1 + 2 * (maxPayload + 2) + 1

(* The adders of the class: all of the bytes, or none when they do not fit.    *)
addBytes(d, bytes, maxPayload) ==
    IF Len(d) + Len(bytes) > maxPayload THEN d ELSE d \o bytes

ArduinoBuild(d, maxPayload) ==
    LET escaped == AppendedTo(<<>>, d \o checksum(d))
    IN  IF d = <<>> \/ Len(escaped) + 2 > MaxEncoded(maxPayload) THEN <<>>
        ELSE <<HEADER>> \o escaped \o <<END>>

-----------------------------------------------------------------------------
(* The values of a payload: 32-bit floats, least significant byte first.  The  *)
(* programs send small whole numbers.                                         *)

Pow2[k \in 0..30] == IF k = 0 THEN 1 ELSE 2 * Pow2[k - 1]

(* The float of a whole number: mantissa in 1..2^24 - 1, exponent in excess of 127. *)
WholeFloats == {n \in Nat : n < 16777216}

FloatBytes(n) ==
    IF n = 0 THEN <<0, 0, 0, 0>>
    ELSE LET e == CHOOSE k \in 0..23 : Pow2[k] <= n /\ n < Pow2[k + 1]
             fraction == (n - Pow2[e]) * Pow2[23 - e]
             exponent == e + 127
         IN  <<fraction % 256, (fraction \div 256) % 256,
               (exponent % 2) * 128 + fraction \div 65536, exponent \div 2>>

FloatAt(d, k) == SubSeq(d, 4 * k - 3, 4 * k)

Exponent(f) == (f[4] % 128) * 2 + f[3] \div 128 - 127
Mantissa(f) == Pow2[23] + (f[3] % 128) * 65536 + f[2] * 256 + f[1]
Signed(f, n) == IF f[4] >= 128 THEN -n ELSE n

(* static_cast<int> on the Raspberry, for the codes of the protocol: what      *)
(* reaches 2^15 is none of them, and neither is what a float beyond the range   *)
(* of int becomes.                                                            *)
NoCode == 32768
Codes == {n \in Nat : n < NoCode}

HostInt(f) ==
    CASE Exponent(f) < 0  -> 0
      [] Exponent(f) > 14 -> NoCode
      [] OTHER            -> Signed(f, Mantissa(f) \div Pow2[23 - Exponent(f)])

(* (int) on the AVR keeps 16 bits of a conversion to 32, which is -2^31 or 0   *)
(* beyond its range.                                                          *)
AvrInt(f) ==
    LET e == Exponent(f)
        low == CASE e < 0  -> 0
                 [] e > 30 -> 0
                 [] e \in 24..30 -> ((Mantissa(f) % 65536) * Pow2[e - 23]) % 65536
                 [] OTHER  -> (Mantissa(f) \div Pow2[23 - e]) % 65536
        word == Signed(f, low) % 65536
    IN  IF word >= 32768 THEN word - 65536 ELSE word
=============================================================================

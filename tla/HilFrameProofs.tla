----------------------------- MODULE HilFrameProofs -----------------------------
(* Proofs about HilFrame, for every payload: what one end encodes the others      *)
(* decode, what damage they notice, and that the codes of the protocol            *)
(* survive as floats.  The loops of the code are recursive functions; that they   *)
(* exist, and what they compute, is proved by induction on their length.          *)
EXTENDS HilFrame, FiniteSets, WellFoundedInduction, SequenceTheorems, TLAPS

(* Induction on numbers, from the theorem that a set of numbers has a least one. *)
Less == {p \in Nat \X Nat : p[1] < p[2]}

(* There is no endless descent.                                               *)
LEMMA LessIsWellFounded == IsWellFoundedOn(Less, Nat)
<1>1. OpToRel(<, Nat) = Less
  BY DEF OpToRel, Less
<1> QED BY <1>1, NatLessThanWellFounded

(* What holds of 0, and of n + 1 when it holds of n, holds of every number.    *)
LEMMA SetInduction ==
    ASSUME NEW S \in SUBSET Nat, 0 \in S, \A n \in S : n + 1 \in S
    PROVE  S = Nat
<1> SUFFICES ASSUME Nat \ S # {} PROVE FALSE
  OBVIOUS
<1> DEFINE Left == Nat \ S
<1>1. \E m \in Left : \A k \in Left : ~(<<k, m>> \in Less)
  <2>1. Left \subseteq Nat /\ Left # {}
    OBVIOUS
  <2> HIDE DEF Left
  <2> QED BY <2>1, LessIsWellFounded, WFMin
<1>2. PICK m \in Left : \A k \in Left : ~(<<k, m>> \in Less)
  BY <1>1
<1>3. m \in Nat /\ m # 0
  OBVIOUS
<1>4. m - 1 \in Nat /\ m - 1 < m
  BY <1>3
<1>5. m - 1 \in S
  BY <1>2, <1>3, <1>4 DEF Less
<1> QED BY <1>3, <1>5

(* The same up to a bound.                                                    *)
LEMMA BoundedInduction ==
    ASSUME NEW S, NEW N \in Nat, 0 \in S, \A n \in 0..(N - 1) : n \in S => n + 1 \in S
    PROVE  0..N \subseteq S
<1> DEFINE T == {n \in Nat : n <= N => n \in S}
<1>1. 0 \in T
  OBVIOUS
<1>2. ASSUME NEW n \in T PROVE n + 1 \in T
  OBVIOUS
<1>3. T \in SUBSET Nat
  OBVIOUS
<1>4. T = Nat
  <2> HIDE DEF T
  <2> QED BY <1>1, <1>2, <1>3, SetInduction
<1> QED BY <1>4

(* What a loop keeps to at its first step and at each next one, it keeps to.    *)
LEMMA LoopTyped ==
    ASSUME NEW X, NEW N \in Nat, NEW f, f[0] \in X,
           \A n \in 1..N : f[n - 1] \in X => f[n] \in X
    PROVE  \A n \in 0..N : f[n] \in X
<1> DEFINE S == {n \in Nat : f[n] \in X}
<1>1. 0 \in S
  OBVIOUS
<1>2. \A n \in 0..(N - 1) : n \in S => n + 1 \in S
  OBVIOUS
<1>3. 0..N \subseteq S
  <2> HIDE DEF S
  <2> QED BY <1>1, <1>2, BoundedInduction
<1> QED BY <1>3

(* Two loops that start alike and do the same at each step end alike.          *)
StepsAgree(f, g, N) == f[0] = g[0] /\ \A n \in 1..N : f[n - 1] = g[n - 1] => f[n] = g[n]

(* By induction on the number of steps.                                       *)
LEMMA LoopsAgree ==
    ASSUME NEW N \in Nat, NEW f, NEW g, StepsAgree(f, g, N)
    PROVE  f[N] = g[N]
<1> DEFINE S == {n \in Nat : f[n] = g[n]}
<1>1. 0 \in S
  BY DEF StepsAgree
<1>2. \A n \in 0..(N - 1) : n \in S => n + 1 \in S
  BY DEF StepsAgree
<1>3. 0..N \subseteq S
  <2> HIDE DEF S
  <2> QED BY <1>1, <1>2, BoundedInduction
<1> QED BY <1>3

(* The loops over d that start with start and take step at each element.        *)
Loops(X, start, step, d) ==
    {f \in [0..Len(d) -> X] :
        f[0] = start /\ \A n \in 1..Len(d) : f[n] = step[f[n - 1]][d[n]]}

(* There is such a loop.                                                      *)
LEMMA LoopExists ==
    ASSUME NEW A, NEW X, NEW start \in X, NEW step \in [X -> [A -> X]], NEW d \in Seq(A)
    PROVE  Loops(X, start, step, d) # {}
<1> DEFINE Runs(f, N) == f[0] = start /\ \A n \in 1..N : f[n] = step[f[n - 1]][d[n]]
           S == {N \in Nat : N <= Len(d) => \E f \in [0..N -> X] : Runs(f, N)}
<1>0. Len(d) \in Nat /\ \A n \in 1..Len(d) : d[n] \in A
  OBVIOUS
<1>1. 0 \in S
  <2> DEFINE f == [n \in 0..0 |-> start]
  <2>1. f \in [0..0 -> X] /\ Runs(f, 0)
    OBVIOUS
  <2> HIDE DEF f, Runs
  <2> QED BY <2>1
<1>2. ASSUME NEW N \in S PROVE N + 1 \in S
  <2> SUFFICES ASSUME N + 1 <= Len(d) PROVE \E g \in [0..(N + 1) -> X] : Runs(g, N + 1)
    <3> HIDE DEF Runs
    <3> QED OBVIOUS
  <2>1. N \in Nat /\ N <= Len(d) /\ \E f \in [0..N -> X] : Runs(f, N)
    <3> HIDE DEF Runs
    <3> QED BY <1>0
  <2>2. PICK f \in [0..N -> X] : Runs(f, N)
    BY <2>1
  <2> DEFINE next == step[f[N]][d[N + 1]]
             g == [n \in 0..(N + 1) |-> IF n = N + 1 THEN next ELSE f[n]]
  <2>3. next \in X
    <3>1. f[N] \in X /\ d[N + 1] \in A
      BY <1>0, <2>1
    <3> QED BY <3>1
  <2>4. g \in [0..(N + 1) -> X] /\ g[N + 1] = next /\ \A n \in 0..N : g[n] = f[n]
    <3> HIDE DEF next
    <3>1. \A n \in 0..(N + 1) : n # N + 1 => n \in 0..N
      BY <2>1
    <3>2. N + 1 \in 0..(N + 1) /\ \A n \in 0..N : n \in 0..(N + 1) /\ n # N + 1
      BY <2>1
    <3> QED BY <2>3, <3>1, <3>2
  <2>5. Runs(g, N + 1)
    <3>1. g[0] = start
      BY <2>1, <2>2, <2>4
    <3>2. ASSUME NEW n \in 1..(N + 1) PROVE g[n] = step[g[n - 1]][d[n]]
      <4> HIDE DEF g
      <4>1. n \in Nat /\ n - 1 \in 0..N /\ g[n - 1] = f[n - 1]
        BY <2>1, <2>4
      <4>2. CASE n = N + 1
        <5>1. n - 1 = N
          BY <2>1, <4>2
        <5> QED BY <2>4, <4>1, <4>2, <5>1
      <4>3. CASE n \in 1..N
        <5>1. n \in 0..N /\ g[n] = f[n]
          BY <2>1, <2>4, <4>3
        <5>2. f[n] = step[f[n - 1]][d[n]]
          BY <2>2, <4>3
        <5> QED BY <4>1, <5>1, <5>2
      <4> QED BY <2>1, <4>2, <4>3
    <3> HIDE DEF g
    <3> QED BY <3>1, <3>2
  <2> HIDE DEF g, Runs
  <2> QED BY <2>4, <2>5
<1>3. S = Nat
  <2>1. S \in SUBSET Nat
    OBVIOUS
  <2> HIDE DEF S
  <2> QED BY <1>1, <1>2, <2>1, SetInduction
<1>4. Len(d) \in S
  BY <1>0, <1>3
<1>5. \E f \in [0..Len(d) -> X] : Runs(f, Len(d))
  <2> HIDE DEF Runs
  <2> QED BY <1>0, <1>4
<1> QED BY <1>5 DEF Loops

-----------------------------------------------------------------------------

(* What holds of the empty sequence and survives one element more holds of all. *)
LEMMA SequenceInduction ==
    ASSUME NEW A, NEW S, <<>> \in S,
           \A d \in Seq(A), b \in A : d \in S => Append(d, b) \in S
    PROVE  Seq(A) \subseteq S
<1> SUFFICES ASSUME NEW d \in Seq(A) PROVE d \in S
  OBVIOUS
<1> DEFINE T == {n \in Nat : SubSeq(d, 1, n) \in S}
<1>0. Len(d) \in Nat
  OBVIOUS
<1>1. 0 \in T
  <2>1. SubSeq(d, 1, 0) = <<>>
    OBVIOUS
  <2> QED BY <2>1
<1>2. ASSUME NEW n \in 0..(Len(d) - 1), n \in T PROVE n + 1 \in T
  <2>1. SubSeq(d, 1, n) \in Seq(A) /\ d[n + 1] \in A
    OBVIOUS
  <2>2. SubSeq(d, 1, n + 1) = Append(SubSeq(d, 1, n), d[n + 1])
    OBVIOUS
  <2>3. SubSeq(d, 1, n + 1) \in S
    BY <1>2, <2>1, <2>2
  <2> QED BY <1>0, <2>3
<1>3. 0..Len(d) \subseteq T
  <2> HIDE DEF T
  <2> QED BY <1>1, <1>2, BoundedInduction
<1>4. SubSeq(d, 1, Len(d)) = d
  OBVIOUS
<1>5. Len(d) \in 0..Len(d)
  BY <1>0
<1> QED BY <1>3, <1>4, <1>5

(* One byte more.                                                             *)
LEMMA AppendFacts ==
    ASSUME NEW A, NEW d \in Seq(A), NEW b \in A
    PROVE  /\ Append(d, b) \in Seq(A) /\ Len(Append(d, b)) = Len(d) + 1 /\ Len(d) \in Nat
           /\ \A n \in 1..Len(d) : Append(d, b)[n] = d[n] /\ d[n] \in A
           /\ Append(d, b)[Len(d) + 1] = b
  OBVIOUS

(* The part of a sequence after its first n elements.                           *)
Rest(s, n) == SubSeq(s, n + 1, Len(s))

(* Two sequences put together come apart again.                               *)
LEMMA ConcatFacts ==
    ASSUME NEW A, NEW x \in Seq(A), NEW y \in Seq(A)
    PROVE  /\ x \o y \in Seq(A) /\ Len(x \o y) = Len(x) + Len(y) /\ Len(x) \in Nat /\ Len(y) \in Nat
           /\ SubSeq(x \o y, 1, Len(x)) = x
           /\ Rest(x \o y, Len(x)) = y
<1>1. x \o y \in Seq(A) /\ Len(x \o y) = Len(x) + Len(y) /\ Len(x) \in Nat /\ Len(y) \in Nat
  OBVIOUS
<1>2. SubSeq(x \o y, 1, Len(x)) = x
  OBVIOUS
<1>3. SubSeq(x \o y, Len(x) + 1, Len(x) + Len(y)) = y
  OBVIOUS
<1> QED BY <1>1, <1>2, <1>3 DEF Rest

(* The two sums of Fletcher-16 stay below 255.                                *)
SumPairs == (0..254) \X (0..254)

(* Each byte leaves them there.                                               *)
LEMMA AddByteTyped ==
    ASSUME NEW s \in SumPairs, NEW b \in Bytes
    PROVE  AddByte(s, b) \in SumPairs
<1>1. s[1] \in Int /\ s[2] \in Int /\ b \in Int
  BY DEF SumPairs, Bytes
<1>2. \A k \in Int : k % 255 \in 0..254
  OBVIOUS
<1>3. (s[1] + b) % 255 \in 0..254
  BY <1>1, <1>2
<1>4. s[2] + ((s[1] + b) % 255) \in Int
  BY <1>1, <1>3
<1>6. (s[2] + ((s[1] + b) % 255)) % 255 \in 0..254
  BY <1>2, <1>4
<1>5. AddByte(s, b) = <<(s[1] + b) % 255, (s[2] + ((s[1] + b) % 255)) % 255>>
  BY DEF AddByte
<1> QED BY <1>3, <1>5, <1>6 DEF SumPairs

(* 0x20 is turned round in a byte.                                            *)
LEMMA FlipTyped == \A b \in Bytes : Flip(b) \in Bytes
<1> SUFFICES ASSUME NEW b \in Bytes PROVE Flip(b) \in Bytes
  OBVIOUS
<1>1. PICK q \in 0..7, r \in 0..31 : b = 32 * q + r
  BY DEF Bytes
<1>2. b \div 32 = q
  BY <1>1
<1>3. Flip(b) = IF q % 2 = 0 THEN b + 32 ELSE b - 32
  BY <1>2 DEF Flip
<1>4. q % 2 = 0 => q <= 6
  OBVIOUS
<1>5. q % 2 # 0 => q >= 1
  OBVIOUS
<1> QED BY <1>1, <1>3, <1>4, <1>5 DEF Bytes

(* The bytes that are escaped become others, and come back by the same step.   *)
LEMMA Flips ==
    /\ \A b \in {HEADER, END, ESCAPE} : /\ Flip(b) \in Bytes /\ Flip(Flip(b)) = b
                                        /\ Flip(b) \notin {HEADER, END, ESCAPE}
    /\ HEADER \in Bytes /\ END \in Bytes /\ ESCAPE \in Bytes /\ HEADER = END /\ HEADER # ESCAPE
<1>1. 126 \div 32 = 3 /\ 125 \div 32 = 3 /\ 94 \div 32 = 2 /\ 93 \div 32 = 2
  OBVIOUS
<1>2. 3 % 2 = 1 /\ 2 % 2 = 0
  OBVIOUS
<1>3. Flip(126) = 94 /\ Flip(125) = 93 /\ Flip(94) = 126 /\ Flip(93) = 125
  BY <1>1, <1>2 DEF Flip
<1> QED BY <1>3 DEF HEADER, END, ESCAPE, Bytes

(* Escaping keeps a sequence of bytes one.                                    *)
LEMMA EscapedTyped == \A x \in Seq(Bytes), b \in Bytes : x \o Escaped(b) \in Seq(Bytes)
  BY Flips DEF Escaped, isEscapable

(* The same for appendEscaped of the two other encoders.                       *)
LEMMA AppendEscapedTyped ==
    \A x \in Seq(Bytes), b \in Bytes : appendEscaped(x, b) \in Seq(Bytes)
  BY Flips DEF appendEscaped

(* What a decoder has read so far.                                            *)
DecoderStates == [out : Seq(Bytes), escapeNext : BOOLEAN]

(* Each byte leaves a decoder in one of its states.                            *)
LEMMA UnescapeTyped == \A s \in DecoderStates, b \in Bytes : Unescape(s, b) \in DecoderStates
  BY FlipTyped DEF Unescape, DecoderStates

(* The loop of checksum, byte by byte.                                        *)
LEMMA SumsLoop ==
    ASSUME NEW d \in Seq(Bytes)
    PROVE  /\ Sums(d)[0] = <<0, 0>>
           /\ \A n \in 1..Len(d) : Sums(d)[n] = AddByte(Sums(d)[n - 1], d[n])
           /\ \A n \in 0..Len(d) : Sums(d)[n] \in SumPairs
<1> DEFINE step == [x \in SumPairs |-> [b \in Bytes |-> AddByte(x, b)]]
           Body(g, n) == IF n = 0 THEN <<0, 0>> ELSE AddByte(g[n - 1], d[n])
           Loop(g) == g = [n \in 0..Len(d) |-> Body(g, n)]
<1>1. Len(d) \in Nat /\ \A n \in 1..Len(d) : d[n] \in Bytes
  OBVIOUS
<1>2. <<0, 0>> \in SumPairs /\ step \in [SumPairs -> [Bytes -> SumPairs]]
  BY AddByteTyped DEF SumPairs
<1>3. PICK f \in [0..Len(d) -> SumPairs] :
          f[0] = <<0, 0>> /\ \A n \in 1..Len(d) : f[n] = step[f[n - 1]][d[n]]
  <2> HIDE DEF step
  <2>1. Loops(SumPairs, <<0, 0>>, step, d) # {}
    BY <1>2, LoopExists
  <2> QED BY <2>1 DEF Loops
<1>4. \A n \in 1..Len(d) : f[n - 1] \in SumPairs /\ f[n] = AddByte(f[n - 1], d[n])
  <2>1. \A n \in 1..Len(d) : n - 1 \in 0..Len(d)
    BY <1>1
  <2> QED BY <1>1, <1>3, <2>1
<1>5. Loop(Sums(d))
  <2>1. \A n \in 0..Len(d) : f[n] = Body(f, n)
    <3>1. \A n \in 0..Len(d) : n = 0 \/ n \in 1..Len(d)
      BY <1>1
    <3> QED BY <1>3, <1>4, <3>1
  <2>2. Loop(f)
    <3> HIDE DEF Body
    <3> QED BY <2>1
  <2>3. Sums(d) = CHOOSE g : Loop(g)
    BY DEF Sums
  <2> HIDE DEF Loop
  <2> QED BY <2>2, <2>3
<1>6. \A n \in 0..Len(d) : Sums(d)[n] = Body(Sums(d), n)
  <2> DEFINE g == Sums(d)
  <2>1. Loop(g)
    BY <1>5
  <2> HIDE DEF g, Body
  <2>2. \A n \in 0..Len(d) : g[n] = Body(g, n)
    BY <2>1
  <2> QED BY <2>2 DEF g
<1>7. Sums(d)[0] = <<0, 0>> /\ \A n \in 1..Len(d) : Sums(d)[n] = AddByte(Sums(d)[n - 1], d[n])
  <2>1. 0 \in 0..Len(d) /\ \A n \in 1..Len(d) : n \in 0..Len(d) /\ n # 0
    BY <1>1
  <2> QED BY <1>6, <2>1
<1>8. \A n \in 0..Len(d) : Sums(d)[n] \in SumPairs
  <2> DEFINE g == Sums(d)
  <2>1. g[0] \in SumPairs /\ \A n \in 1..Len(d) : g[n - 1] \in SumPairs => g[n] \in SumPairs
    BY <1>1, <1>2, <1>7, AddByteTyped
  <2>2. \A n \in 0..Len(d) : g[n] \in SumPairs
    <3> HIDE DEF g
    <3> QED BY <1>1, <2>1, LoopTyped
  <2> QED BY <2>2
<1> QED BY <1>7, <1>8

(* One byte more takes the loop one step further.                               *)
LEMMA ChecksumStep ==
    ASSUME NEW d \in Seq(Bytes), NEW b \in Bytes
    PROVE  checksum(Append(d, b)) = AddByte(checksum(d), b)
<1> DEFINE e == Append(d, b)
           f == Sums(e)
           g == Sums(d)
<1>1. e \in Seq(Bytes) /\ Len(e) = Len(d) + 1 /\ \A n \in 1..Len(d) : e[n] = d[n]
  BY AppendFacts
<1>2. Len(d) \in Nat /\ e[Len(d) + 1] = b /\ Len(d) + 1 \in 1..Len(e) /\ 1..Len(d) \subseteq 1..Len(e)
  BY <1>1
<1>3. StepsAgree(f, g, Len(d))
  <2> HIDE DEF e
  <2> QED BY <1>1, <1>2, SumsLoop DEF StepsAgree
<1>4. f[Len(d)] = g[Len(d)]
  BY <1>2, <1>3, LoopsAgree
<1>5. f[Len(d) + 1] = AddByte(f[Len(d)], b)
  <2> HIDE DEF e
  <2>1. f[Len(d) + 1] = AddByte(f[(Len(d) + 1) - 1], e[Len(d) + 1])
    BY <1>1, <1>2, SumsLoop
  <2>2. (Len(d) + 1) - 1 = Len(d)
    BY <1>2
  <2> QED BY <1>2, <2>1, <2>2
<1> QED BY <1>1, <1>4, <1>5 DEF checksum

(* The loop of escapedCopy, byte by byte.                                     *)
LEMMA EscapesLoop ==
    ASSUME NEW d \in Seq(Bytes)
    PROVE  /\ Escapes(d)[0] = <<>>
           /\ \A n \in 1..Len(d) : Escapes(d)[n] = Escapes(d)[n - 1] \o Escaped(d[n])
           /\ \A n \in 0..Len(d) : Escapes(d)[n] \in Seq(Bytes)
<1> DEFINE step == [x \in Seq(Bytes) |-> [b \in Bytes |-> x \o Escaped(b)]]
           Body(g, n) == IF n = 0 THEN <<>> ELSE g[n - 1] \o Escaped(d[n])
           Loop(g) == g = [n \in 0..Len(d) |-> Body(g, n)]
<1>1. Len(d) \in Nat /\ \A n \in 1..Len(d) : d[n] \in Bytes
  OBVIOUS
<1>2. <<>> \in Seq(Bytes) /\ step \in [Seq(Bytes) -> [Bytes -> Seq(Bytes)]]
  BY EscapedTyped
<1>3. PICK f \in [0..Len(d) -> Seq(Bytes)] :
          f[0] = <<>> /\ \A n \in 1..Len(d) : f[n] = step[f[n - 1]][d[n]]
  <2> HIDE DEF step
  <2>1. Loops(Seq(Bytes), <<>>, step, d) # {}
    BY <1>2, LoopExists
  <2> QED BY <2>1 DEF Loops
<1>4. \A n \in 1..Len(d) : f[n - 1] \in Seq(Bytes) /\ f[n] = f[n - 1] \o Escaped(d[n])
  <2>1. \A n \in 1..Len(d) : n - 1 \in 0..Len(d)
    BY <1>1
  <2> QED BY <1>1, <1>3, <2>1
<1>5. Loop(Escapes(d))
  <2>1. \A n \in 0..Len(d) : f[n] = Body(f, n)
    <3>1. \A n \in 0..Len(d) : n = 0 \/ n \in 1..Len(d)
      BY <1>1
    <3> QED BY <1>3, <1>4, <3>1
  <2>2. Loop(f)
    <3> HIDE DEF Body
    <3> QED BY <2>1
  <2>3. Escapes(d) = CHOOSE g : Loop(g)
    BY DEF Escapes
  <2> HIDE DEF Loop
  <2> QED BY <2>2, <2>3
<1>6. \A n \in 0..Len(d) : Escapes(d)[n] = Body(Escapes(d), n)
  <2> DEFINE g == Escapes(d)
  <2>1. Loop(g)
    BY <1>5
  <2> HIDE DEF g, Body
  <2>2. \A n \in 0..Len(d) : g[n] = Body(g, n)
    BY <2>1
  <2> QED BY <2>2 DEF g
<1>7. /\ Escapes(d)[0] = <<>>
      /\ \A n \in 1..Len(d) : Escapes(d)[n] = Escapes(d)[n - 1] \o Escaped(d[n])
  <2>1. 0 \in 0..Len(d) /\ \A n \in 1..Len(d) : n \in 0..Len(d) /\ n # 0
    BY <1>1
  <2> QED BY <1>6, <2>1
<1>8. \A n \in 0..Len(d) : Escapes(d)[n] \in Seq(Bytes)
  <2> DEFINE g == Escapes(d)
  <2>1. g[0] \in Seq(Bytes) /\ \A n \in 1..Len(d) : g[n - 1] \in Seq(Bytes) => g[n] \in Seq(Bytes)
    BY <1>1, <1>2, <1>7, EscapedTyped
  <2>2. \A n \in 0..Len(d) : g[n] \in Seq(Bytes)
    <3> HIDE DEF g
    <3> QED BY <1>1, <2>1, LoopTyped
  <2> QED BY <2>2
<1> QED BY <1>7, <1>8

(* One byte more takes the loop one step further.                               *)
LEMMA EscapedCopyStep ==
    ASSUME NEW d \in Seq(Bytes), NEW b \in Bytes
    PROVE  escapedCopy(Append(d, b)) = escapedCopy(d) \o Escaped(b)
<1> DEFINE e == Append(d, b)
           f == Escapes(e)
           g == Escapes(d)
<1>1. e \in Seq(Bytes) /\ Len(e) = Len(d) + 1 /\ \A n \in 1..Len(d) : e[n] = d[n]
  BY AppendFacts
<1>2. Len(d) \in Nat /\ e[Len(d) + 1] = b /\ Len(d) + 1 \in 1..Len(e) /\ 1..Len(d) \subseteq 1..Len(e)
  BY <1>1
<1>3. StepsAgree(f, g, Len(d))
  <2> HIDE DEF e
  <2> QED BY <1>1, <1>2, EscapesLoop DEF StepsAgree
<1>4. f[Len(d)] = g[Len(d)]
  BY <1>2, <1>3, LoopsAgree
<1>5. f[Len(d) + 1] = f[Len(d)] \o Escaped(b)
  <2> HIDE DEF e
  <2>1. f[Len(d) + 1] = f[(Len(d) + 1) - 1] \o Escaped(e[Len(d) + 1])
    BY <1>1, <1>2, EscapesLoop
  <2>2. (Len(d) + 1) - 1 = Len(d)
    BY <1>2
  <2> QED BY <1>2, <2>1, <2>2
<1> QED BY <1>1, <1>4, <1>5 DEF escapedCopy

(* The loop of the decoders, byte by byte.                                     *)
LEMMA UnescapesLoop ==
    ASSUME NEW d \in Seq(Bytes)
    PROVE  /\ Unescapes(d)[0] = NothingRead
           /\ \A n \in 1..Len(d) : Unescapes(d)[n] = Unescape(Unescapes(d)[n - 1], d[n])
           /\ \A n \in 0..Len(d) : Unescapes(d)[n] \in DecoderStates
<1> DEFINE step == [x \in DecoderStates |-> [b \in Bytes |-> Unescape(x, b)]]
           Body(g, n) == IF n = 0 THEN NothingRead ELSE Unescape(g[n - 1], d[n])
           Loop(g) == g = [n \in 0..Len(d) |-> Body(g, n)]
<1>1. Len(d) \in Nat /\ \A n \in 1..Len(d) : d[n] \in Bytes
  OBVIOUS
<1>2. NothingRead \in DecoderStates /\ step \in [DecoderStates -> [Bytes -> DecoderStates]]
  BY UnescapeTyped DEF NothingRead, DecoderStates
<1>3. PICK f \in [0..Len(d) -> DecoderStates] :
          f[0] = NothingRead /\ \A n \in 1..Len(d) : f[n] = step[f[n - 1]][d[n]]
  <2> HIDE DEF step
  <2>1. Loops(DecoderStates, NothingRead, step, d) # {}
    BY <1>2, LoopExists
  <2> QED BY <2>1 DEF Loops
<1>4. \A n \in 1..Len(d) : f[n - 1] \in DecoderStates /\ f[n] = Unescape(f[n - 1], d[n])
  <2>1. \A n \in 1..Len(d) : n - 1 \in 0..Len(d)
    BY <1>1
  <2> QED BY <1>1, <1>3, <2>1
<1>5. Loop(Unescapes(d))
  <2>1. \A n \in 0..Len(d) : f[n] = Body(f, n)
    <3>1. \A n \in 0..Len(d) : n = 0 \/ n \in 1..Len(d)
      BY <1>1
    <3> QED BY <1>3, <1>4, <3>1
  <2>2. Loop(f)
    <3> HIDE DEF Body
    <3> QED BY <2>1
  <2>3. Unescapes(d) = CHOOSE g : Loop(g)
    BY DEF Unescapes
  <2> HIDE DEF Loop
  <2> QED BY <2>2, <2>3
<1>6. \A n \in 0..Len(d) : Unescapes(d)[n] = Body(Unescapes(d), n)
  <2> DEFINE g == Unescapes(d)
  <2>1. Loop(g)
    BY <1>5
  <2> HIDE DEF g, Body
  <2>2. \A n \in 0..Len(d) : g[n] = Body(g, n)
    BY <2>1
  <2> QED BY <2>2 DEF g
<1>7. /\ Unescapes(d)[0] = NothingRead
      /\ \A n \in 1..Len(d) : Unescapes(d)[n] = Unescape(Unescapes(d)[n - 1], d[n])
  <2>1. 0 \in 0..Len(d) /\ \A n \in 1..Len(d) : n \in 0..Len(d) /\ n # 0
    BY <1>1
  <2> QED BY <1>6, <2>1
<1>8. \A n \in 0..Len(d) : Unescapes(d)[n] \in DecoderStates
  <2> DEFINE g == Unescapes(d)
  <2>1. g[0] \in DecoderStates /\ \A n \in 1..Len(d) : g[n - 1] \in DecoderStates => g[n] \in DecoderStates
    BY <1>1, <1>2, <1>7, UnescapeTyped
  <2>2. \A n \in 0..Len(d) : g[n] \in DecoderStates
    <3> HIDE DEF g
    <3> QED BY <1>1, <2>1, LoopTyped
  <2> QED BY <2>2
<1> QED BY <1>7, <1>8

(* One byte more takes the loop one step further.                               *)
LEMMA UnescapedStep ==
    ASSUME NEW d \in Seq(Bytes), NEW b \in Bytes
    PROVE  Unescaped(Append(d, b)) = Unescape(Unescaped(d), b)
<1> DEFINE e == Append(d, b)
           f == Unescapes(e)
           g == Unescapes(d)
<1>1. e \in Seq(Bytes) /\ Len(e) = Len(d) + 1 /\ \A n \in 1..Len(d) : e[n] = d[n]
  BY AppendFacts
<1>2. Len(d) \in Nat /\ e[Len(d) + 1] = b /\ Len(d) + 1 \in 1..Len(e) /\ 1..Len(d) \subseteq 1..Len(e)
  BY <1>1
<1>3. StepsAgree(f, g, Len(d))
  <2> HIDE DEF e
  <2> QED BY <1>1, <1>2, UnescapesLoop DEF StepsAgree
<1>4. f[Len(d)] = g[Len(d)]
  BY <1>2, <1>3, LoopsAgree
<1>5. f[Len(d) + 1] = Unescape(f[Len(d)], b)
  <2> HIDE DEF e
  <2>1. f[Len(d) + 1] = Unescape(f[(Len(d) + 1) - 1], e[Len(d) + 1])
    BY <1>1, <1>2, UnescapesLoop
  <2>2. (Len(d) + 1) - 1 = Len(d)
    BY <1>2
  <2> QED BY <1>2, <2>1, <2>2
<1> QED BY <1>1, <1>4, <1>5 DEF Unescaped

(* The loop of the two other encoders, byte by byte.                            *)
LEMMA AppendsLoop ==
    ASSUME NEW start \in Seq(Bytes), NEW d \in Seq(Bytes)
    PROVE  /\ Appends(start, d)[0] = start
           /\ \A n \in 1..Len(d) : Appends(start, d)[n] = appendEscaped(Appends(start, d)[n - 1], d[n])
           /\ \A n \in 0..Len(d) : Appends(start, d)[n] \in Seq(Bytes)
<1> DEFINE step == [x \in Seq(Bytes) |-> [b \in Bytes |-> appendEscaped(x, b)]]
           Body(g, n) == IF n = 0 THEN start ELSE appendEscaped(g[n - 1], d[n])
           Loop(g) == g = [n \in 0..Len(d) |-> Body(g, n)]
<1>1. Len(d) \in Nat /\ \A n \in 1..Len(d) : d[n] \in Bytes
  OBVIOUS
<1>2. start \in Seq(Bytes) /\ step \in [Seq(Bytes) -> [Bytes -> Seq(Bytes)]]
  BY AppendEscapedTyped
<1>3. PICK f \in [0..Len(d) -> Seq(Bytes)] :
          f[0] = start /\ \A n \in 1..Len(d) : f[n] = step[f[n - 1]][d[n]]
  <2> HIDE DEF step
  <2>1. Loops(Seq(Bytes), start, step, d) # {}
    BY <1>2, LoopExists
  <2> QED BY <2>1 DEF Loops
<1>4. \A n \in 1..Len(d) : f[n - 1] \in Seq(Bytes) /\ f[n] = appendEscaped(f[n - 1], d[n])
  <2>1. \A n \in 1..Len(d) : n - 1 \in 0..Len(d)
    BY <1>1
  <2> QED BY <1>1, <1>3, <2>1
<1>5. Loop(Appends(start, d))
  <2>1. \A n \in 0..Len(d) : f[n] = Body(f, n)
    <3>1. \A n \in 0..Len(d) : n = 0 \/ n \in 1..Len(d)
      BY <1>1
    <3> QED BY <1>3, <1>4, <3>1
  <2>2. Loop(f)
    <3> HIDE DEF Body
    <3> QED BY <2>1
  <2>3. Appends(start, d) = CHOOSE g : Loop(g)
    BY DEF Appends
  <2> HIDE DEF Loop
  <2> QED BY <2>2, <2>3
<1>6. \A n \in 0..Len(d) : Appends(start, d)[n] = Body(Appends(start, d), n)
  <2> DEFINE g == Appends(start, d)
  <2>1. Loop(g)
    BY <1>5
  <2> HIDE DEF g, Body
  <2>2. \A n \in 0..Len(d) : g[n] = Body(g, n)
    BY <2>1
  <2> QED BY <2>2 DEF g
<1>7. /\ Appends(start, d)[0] = start
      /\ \A n \in 1..Len(d) : Appends(start, d)[n] = appendEscaped(Appends(start, d)[n - 1], d[n])
  <2>1. 0 \in 0..Len(d) /\ \A n \in 1..Len(d) : n \in 0..Len(d) /\ n # 0
    BY <1>1
  <2> QED BY <1>6, <2>1
<1>8. \A n \in 0..Len(d) : Appends(start, d)[n] \in Seq(Bytes)
  <2> DEFINE g == Appends(start, d)
  <2>1. g[0] \in Seq(Bytes) /\ \A n \in 1..Len(d) : g[n - 1] \in Seq(Bytes) => g[n] \in Seq(Bytes)
    BY <1>1, <1>2, <1>7, AppendEscapedTyped
  <2>2. \A n \in 0..Len(d) : g[n] \in Seq(Bytes)
    <3> HIDE DEF g
    <3> QED BY <1>1, <2>1, LoopTyped
  <2> QED BY <2>2
<1> QED BY <1>7, <1>8

(* One byte more takes the loop one step further.                               *)
LEMMA AppendedToStep ==
    ASSUME NEW start \in Seq(Bytes), NEW d \in Seq(Bytes), NEW b \in Bytes
    PROVE  AppendedTo(start, Append(d, b)) = appendEscaped(AppendedTo(start, d), b)
<1> DEFINE e == Append(d, b)
           f == Appends(start, e)
           g == Appends(start, d)
<1>1. e \in Seq(Bytes) /\ Len(e) = Len(d) + 1 /\ \A n \in 1..Len(d) : e[n] = d[n]
  BY AppendFacts
<1>2. Len(d) \in Nat /\ e[Len(d) + 1] = b /\ Len(d) + 1 \in 1..Len(e) /\ 1..Len(d) \subseteq 1..Len(e)
  BY <1>1
<1>3. StepsAgree(f, g, Len(d))
  <2> HIDE DEF e
  <2> QED BY <1>1, <1>2, AppendsLoop DEF StepsAgree
<1>4. f[Len(d)] = g[Len(d)]
  BY <1>2, <1>3, LoopsAgree
<1>5. f[Len(d) + 1] = appendEscaped(f[Len(d)], b)
  <2> HIDE DEF e
  <2>1. f[Len(d) + 1] = appendEscaped(f[(Len(d) + 1) - 1], e[Len(d) + 1])
    BY <1>1, <1>2, AppendsLoop
  <2>2. (Len(d) + 1) - 1 = Len(d)
    BY <1>2
  <2> QED BY <1>2, <2>1, <2>2
<1> QED BY <1>1, <1>4, <1>5 DEF AppendedTo

-----------------------------------------------------------------------------
(* What the loops make of nothing.                                            *)
LEMMA LoopsOfNothing ==
    /\ checksum(<<>>) = <<0, 0>> /\ escapedCopy(<<>>) = <<>> /\ Unescaped(<<>>) = NothingRead
    /\ \A start \in Seq(Bytes) : AppendedTo(start, <<>>) = start
<1>1. <<>> \in Seq(Bytes) /\ Len(<<>>) = 0
  OBVIOUS
<1> QED
  BY <1>1, SumsLoop, EscapesLoop, UnescapesLoop, AppendsLoop
     DEF checksum, escapedCopy, Unescaped, AppendedTo

(* The encoded bytes are bytes.                                               *)
LEMMA LoopTypes ==
    ASSUME NEW d \in Seq(Bytes)
    PROVE  /\ checksum(d) \in SumPairs /\ escapedCopy(d) \in Seq(Bytes) /\ Unescaped(d) \in DecoderStates
           /\ \A start \in Seq(Bytes) : AppendedTo(start, d) \in Seq(Bytes)
<1>1. Len(d) \in 0..Len(d)
  OBVIOUS
<1> QED
  BY <1>1, SumsLoop, EscapesLoop, UnescapesLoop, AppendsLoop
     DEF checksum, escapedCopy, Unescaped, AppendedTo

(* In which order sequences of bytes are put together does not matter.         *)
LEMMA ConcatBytes == \A x, y, z \in Seq(Bytes) : (x \o y) \o z = x \o (y \o z)
  BY ConcatAssociative

(* The bridge and the firmware, who append byte by byte, escape as Frame does.  *)
LEMMA SameEscapes ==
    \A start, d \in Seq(Bytes) : AppendedTo(start, d) = start \o escapedCopy(d)
<1> SUFFICES ASSUME NEW start \in Seq(Bytes)
             PROVE  \A d \in Seq(Bytes) : AppendedTo(start, d) = start \o escapedCopy(d)
  OBVIOUS
<1> DEFINE S == {d \in Seq(Bytes) : AppendedTo(start, d) = start \o escapedCopy(d)}
<1>1. <<>> \in S
  <2>1. start \o <<>> = start
    OBVIOUS
  <2> QED BY <2>1, LoopsOfNothing
<1>2. ASSUME NEW d \in Seq(Bytes), NEW b \in Bytes, d \in S PROVE Append(d, b) \in S
  <2>1. \A x \in Seq(Bytes) : appendEscaped(start \o x, b) = start \o (x \o Escaped(b))
    <3> SUFFICES ASSUME NEW x \in Seq(Bytes)
                 PROVE  appendEscaped(start \o x, b) = start \o (x \o Escaped(b))
      OBVIOUS
    <3>1. Escaped(b) \in Seq(Bytes)
      BY Flips DEF Escaped, isEscapable
    <3>2. start \o x \in Seq(Bytes)
      OBVIOUS
    <3>3. ASSUME NEW y \in Seq(Bytes) PROVE appendEscaped(y, b) = y \o Escaped(b)
      <4>1. isEscapable(b) <=> b \in {HEADER, ESCAPE}
        BY Flips DEF isEscapable
      <4>2. Append(y, b) = y \o <<b>>
        OBVIOUS
      <4>3. CASE b \in {HEADER, ESCAPE}
        BY <4>1, <4>3, Zenon DEF appendEscaped, Escaped
      <4>4. CASE b \notin {HEADER, ESCAPE}
        BY <4>1, <4>2, <4>4, Zenon DEF appendEscaped, Escaped
      <4> QED BY <4>3, <4>4
    <3>4. start \o (x \o Escaped(b)) = (start \o x) \o Escaped(b)
      BY <3>1, ConcatBytes, SMTT(30)
    <3> QED BY <3>2, <3>3, <3>4
  <2>2. AppendedTo(start, Append(d, b)) = appendEscaped(start \o escapedCopy(d), b)
    BY <1>2, AppendedToStep
  <2>3. escapedCopy(Append(d, b)) = escapedCopy(d) \o Escaped(b)
    BY EscapedCopyStep
  <2>4. AppendedTo(start, Append(d, b)) = start \o escapedCopy(Append(d, b))
    BY <2>1, <2>2, <2>3, LoopTypes
  <2>5. Append(d, b) \in Seq(Bytes)
    BY AppendFacts
  <2> QED BY <2>4, <2>5
<1>3. Seq(Bytes) \subseteq S
  <2> HIDE DEF S
  <2> QED BY <1>1, <1>2, SequenceInduction
<1> QED BY <1>3

(* What a decoder makes of the bytes of an escape.                             *)
LEMMA EscapeUndone ==
    ASSUME NEW s \in DecoderStates, s.escapeNext = FALSE, NEW x \in Seq(Bytes), Unescaped(x) = s,
           NEW b \in Bytes
    PROVE  Unescaped(x \o Escaped(b)) = [out |-> Append(s.out, b), escapeNext |-> FALSE]
<1>1. CASE isEscapable(b)
  <2>1. b \in {HEADER, END, ESCAPE}
    BY <1>1 DEF isEscapable
  <2>2. Flip(b) \in Bytes /\ Flip(Flip(b)) = b /\ ESCAPE \in Bytes
    BY <2>1, Flips
  <2>3. x \o Escaped(b) = Append(Append(x, ESCAPE), Flip(b))
    BY <1>1, <2>2 DEF Escaped
  <2>4. Unescaped(Append(x, ESCAPE)) = [out |-> s.out, escapeNext |-> TRUE]
    BY <2>2, UnescapedStep DEF Unescape
  <2>5. Append(x, ESCAPE) \in Seq(Bytes)
    BY <2>2, AppendFacts
  <2>6. Unescaped(Append(Append(x, ESCAPE), Flip(b)))
            = Unescape([out |-> s.out, escapeNext |-> TRUE], Flip(b))
    BY <2>2, <2>4, <2>5, UnescapedStep
  <2>7. Unescape([out |-> s.out, escapeNext |-> TRUE], Flip(b))
            = [out |-> Append(s.out, b), escapeNext |-> FALSE]
    BY <2>2 DEF Unescape
  <2> QED BY <2>3, <2>6, <2>7
<1>2. CASE ~isEscapable(b)
  <2>1. x \o Escaped(b) = Append(x, b) /\ b # ESCAPE
    BY <1>2 DEF Escaped, isEscapable
  <2>2. Unescaped(Append(x, b)) = Unescape(s, b)
    BY UnescapedStep
  <2>3. Unescape(s, b) = [out |-> Append(s.out, b), escapeNext |-> FALSE]
    BY <2>1 DEF Unescape
  <2> QED BY <2>1, <2>2, <2>3
<1> QED BY <1>1, <1>2

(* The decoders undo the escapes and are left waiting for none.                *)
LEMMA EscapesUndone ==
    \A d \in Seq(Bytes) : Unescaped(escapedCopy(d)) = [out |-> d, escapeNext |-> FALSE]
<1> DEFINE S == {d \in Seq(Bytes) : Unescaped(escapedCopy(d)) = [out |-> d, escapeNext |-> FALSE]}
<1>1. <<>> \in S
  BY LoopsOfNothing DEF NothingRead
<1>2. ASSUME NEW d \in Seq(Bytes), NEW b \in Bytes, d \in S PROVE Append(d, b) \in S
  <2> DEFINE s == [out |-> d, escapeNext |-> FALSE]
  <2>1. s \in DecoderStates /\ s.escapeNext = FALSE /\ s.out = d /\ Unescaped(escapedCopy(d)) = s
    BY <1>2 DEF DecoderStates
  <2>2. escapedCopy(d) \in Seq(Bytes)
    BY LoopTypes
  <2>3. Unescaped(escapedCopy(d) \o Escaped(b)) = [out |-> Append(s.out, b), escapeNext |-> FALSE]
    <3> HIDE DEF s
    <3> QED BY <2>1, <2>2, EscapeUndone
  <2>4. escapedCopy(Append(d, b)) = escapedCopy(d) \o Escaped(b) /\ Append(d, b) \in Seq(Bytes)
    BY EscapedCopyStep, AppendFacts
  <2> QED BY <2>1, <2>3, <2>4
<1>3. Seq(Bytes) \subseteq S
  <2> HIDE DEF S
  <2> QED BY <1>1, <1>2, SequenceInduction
<1> QED BY <1>3

(* Escaped bytes hold no delimiter, and are at most twice as many.             *)
LEMMA EscapesHaveNoDelimiter ==
    \A d \in Seq(Bytes) :
        /\ Len(d) <= Len(escapedCopy(d)) /\ Len(escapedCopy(d)) <= 2 * Len(d)
        /\ \A i \in 1..Len(escapedCopy(d)) : escapedCopy(d)[i] # HEADER
<1> DEFINE Good(x, d) == /\ Len(d) <= Len(x) /\ Len(x) <= 2 * Len(d)
                         /\ \A i \in 1..Len(x) : x[i] # HEADER
           S == {d \in Seq(Bytes) : Good(escapedCopy(d), d)}
<1>1. <<>> \in S
  BY LoopsOfNothing
<1>2. ASSUME NEW d \in Seq(Bytes), NEW b \in Bytes, d \in S PROVE Append(d, b) \in S
  <2> DEFINE x == escapedCopy(d)
  <2>1. x \in Seq(Bytes) /\ Good(x, d)
    BY <1>2, LoopTypes
  <2>2. escapedCopy(Append(d, b)) = x \o Escaped(b)
    BY EscapedCopyStep
  <2>3. /\ Escaped(b) \in Seq(Bytes)
        /\ Len(Escaped(b)) \in 1..2
        /\ \A i \in 1..Len(Escaped(b)) : Escaped(b)[i] # HEADER
    <3>1. CASE isEscapable(b)
      <4>1. ESCAPE # HEADER /\ Flip(b) # HEADER /\ ESCAPE \in Bytes /\ Flip(b) \in Bytes
        BY <3>1, Flips DEF isEscapable
      <4> QED BY <3>1, <4>1 DEF Escaped
    <3>2. CASE ~isEscapable(b)
      <4>1. b # HEADER
        BY <3>2 DEF isEscapable
      <4> QED BY <3>2, <4>1 DEF Escaped
    <3> QED BY <3>1, <3>2
  <2>4. Len(Append(d, b)) = Len(d) + 1 /\ Append(d, b) \in Seq(Bytes)
    BY AppendFacts
  <2>5. Good(x \o Escaped(b), Append(d, b))
    <3> HIDE DEF x
    <3> DEFINE t == Escaped(b)
    <3>1. t \in Seq(Bytes) /\ Len(t) \in 1..2 /\ \A i \in 1..Len(t) : t[i] # HEADER
      BY <2>3
    <3> HIDE DEF t
    <3>2. Len(x \o t) = Len(x) + Len(t)
      BY <2>1, <3>1
    <3>3. \A i \in 1..Len(x \o t) : (x \o t)[i] # HEADER
      BY <2>1, <3>1
    <3>4. Good(x \o t, Append(d, b))
      <4>1. Len(d) \in Nat /\ Len(x) \in Nat /\ Len(t) \in 1..2
        BY <2>1, <3>1
      <4>2. Len(d) <= Len(x) /\ Len(x) <= 2 * Len(d)
        BY <2>1
      <4> \A p, q \in Nat, r \in 1..2 :
              p <= q /\ q <= 2 * p => p + 1 <= q + r /\ q + r <= 2 * (p + 1)
        OBVIOUS
      <4>3. Len(d) + 1 <= Len(x) + Len(t) /\ Len(x) + Len(t) <= 2 * (Len(d) + 1)
        BY <4>1, <4>2
      <4> QED BY <2>4, <3>2, <3>3, <4>3
    <3> QED BY <3>4 DEF t
  <2> QED BY <2>2, <2>4, <2>5
<1>3. Seq(Bytes) \subseteq S
  <2> HIDE DEF S
  <2> QED BY <1>1, <1>2, SequenceInduction
<1> QED BY <1>3

-----------------------------------------------------------------------------
(* A payload with its checksum is accepted, and as that payload only.          *)
LEMMA ChecksumAccepted ==
    ASSUME NEW d \in Seq(Bytes)
    PROVE  /\ d \o checksum(d) \in Seq(Bytes) /\ Len(d \o checksum(d)) = Len(d) + 2
           /\ CheckedPayload(d \o checksum(d)) = {d}
<1> DEFINE c == checksum(d)
<1>1. c \in SumPairs
  BY LoopTypes
<1> HIDE DEF c
<1>2. PICK p \in 0..254, q \in 0..254 : c = <<p, q>>
  <2>1. c = <<c[1], c[2]>> /\ c[1] \in 0..254 /\ c[2] \in 0..254
    BY <1>1 DEF SumPairs
  <2> QED BY <2>1
<1>3. c \in Seq(Bytes) /\ Len(c) = 2
  <2>1. p \in Bytes /\ q \in Bytes
    BY DEF Bytes
  <2>2. <<p, q>> \in Seq(Bytes) /\ Len(<<p, q>>) = 2
    BY <2>1
  <2> QED BY <1>2, <2>2
<1> DEFINE e == d \o c
<1>4. Len(d) \in Nat /\ e \in Seq(Bytes) /\ Len(e) = Len(d) + Len(c)
  BY <1>3, ConcatFacts
<1>5. Len(e) = Len(d) + 2
  BY <1>3, <1>4
<1>6. SubSeq(e, 1, Len(d)) = d
  BY <1>3, ConcatFacts
<1>7. SubSeq(e, Len(d) + 1, Len(d) + 2) = c
  <2>1. Rest(e, Len(d)) = c
    BY <1>3, ConcatFacts
  <2> HIDE DEF e
  <2> QED BY <1>5, <2>1 DEF Rest
<1>8. CheckedPayload(e) = {d}
  <2> HIDE DEF e
  <2>1. Len(e) - 2 = Len(d) /\ Len(d) >= 0
    BY <1>4, <1>5
  <2> QED BY <1>6, <1>7, <2>1 DEF CheckedPayload, c
<1> QED BY <1>4, <1>5, <1>8 DEF c

(* A frame: a delimiter, at least as many bytes as the payload and its checksum *)
(* have and at most twice as many, none of them a delimiter, and a delimiter.   *)
Inside(d) == escapedCopy(d \o checksum(d))

(* The bytes between the delimiters: none of them is one, and they decode to the  *)
(* payload with its checksum.                                                 *)
LEMMA InsideFacts ==
    ASSUME NEW d \in Seq(Bytes)
    PROVE  /\ Inside(d) \in Seq(Bytes) /\ Len(Inside(d)) \in (Len(d) + 2)..(2 * (Len(d) + 2))
           /\ \A i \in 1..Len(Inside(d)) : Inside(d)[i] # HEADER
           /\ Unescaped(Inside(d)) = [out |-> d \o checksum(d), escapeNext |-> FALSE]
<1> DEFINE e == d \o checksum(d)
<1>1. e \in Seq(Bytes) /\ Len(e) = Len(d) + 2 /\ Len(d) \in Nat
  BY ChecksumAccepted
<1> HIDE DEF e
<1>2. escapedCopy(e) \in Seq(Bytes) /\ Unescaped(escapedCopy(e)) = [out |-> e, escapeNext |-> FALSE]
  BY <1>1, LoopTypes, EscapesUndone
<1>3. /\ Len(e) <= Len(escapedCopy(e)) /\ Len(escapedCopy(e)) <= 2 * Len(e)
      /\ \A i \in 1..Len(escapedCopy(e)) : escapedCopy(e)[i] # HEADER
  BY <1>1, EscapesHaveNoDelimiter
<1>4. Len(escapedCopy(e)) \in (Len(d) + 2)..(2 * (Len(d) + 2))
  <2>1. Len(escapedCopy(e)) \in Nat
    BY <1>2
  <2> QED BY <1>1, <1>3, <2>1
<1> QED BY <1>2, <1>3, <1>4 DEF e, Inside

(* The frame of a payload: its only delimiters are its first and last bytes.    *)
LEMMA BuildFacts ==
    ASSUME NEW d \in Seq(Bytes), d # <<>>
    PROVE  /\ build(d) = <<HEADER>> \o Inside(d) \o <<END>>
           /\ build(d) \in Seq(Bytes) /\ Len(build(d)) = Len(Inside(d)) + 2
           /\ build(d)[1] = HEADER /\ build(d)[Len(build(d))] = END
           /\ \A i \in 2..(Len(build(d)) - 1) : build(d)[i] # HEADER
           /\ SubSeq(build(d), 2, Len(build(d)) - 1) = Inside(d)
<1> DEFINE x == Inside(d)
<1>1. x \in Seq(Bytes) /\ \A i \in 1..Len(x) : x[i] # HEADER
  BY InsideFacts
<1>2. build(d) = <<HEADER>> \o x \o <<END>>
  BY DEF build, Inside
<1>3. HEADER \in Bytes /\ END \in Bytes
  BY Flips
<1> HIDE DEF x
<1> DEFINE f == <<HEADER>> \o x \o <<END>>
<1>4. f \in Seq(Bytes) /\ Len(f) = Len(x) + 2 /\ f[1] = HEADER /\ f[Len(x) + 2] = END /\ Len(x) \in Nat
  BY <1>1, <1>3
<1>5. \A i \in 2..(Len(x) + 1) : f[i] = x[i - 1] /\ i - 1 \in 1..Len(x)
  BY <1>1, <1>3
<1>6. SubSeq(f, 2, Len(x) + 1) = x
  BY <1>1, <1>3
<1> HIDE DEF f
<1>7. Len(f) - 1 = Len(x) + 1
  BY <1>4
<1>8. \A i \in 2..(Len(f) - 1) : f[i] # HEADER
  BY <1>1, <1>5, <1>7
<1> QED BY <1>2, <1>4, <1>6, <1>7, <1>8 DEF f, x

(* What Frame builds, its own unbuild and the bridge's decodeFromBytes take for the *)
(* payload it was built from, whatever its bytes: escapes, delimiters and the     *)
(* checksum's own bytes included.                                             *)
THEOREM FrameRoundTrip ==
    ASSUME NEW d \in Seq(Bytes), d # <<>>
    PROVE  /\ unbuild(build(d)) = {d}
           /\ decodeFromBytes(SubSeq(build(d), 2, Len(build(d)) - 1)) = {d}
<1> DEFINE f == build(d) x == Inside(d) e == d \o checksum(d)
<1>1. /\ f \in Seq(Bytes) /\ Len(f) = Len(x) + 2 /\ f[1] = HEADER /\ f[Len(f)] = END
      /\ SubSeq(f, 2, Len(f) - 1) = x
  BY BuildFacts
<1>2. /\ x \in Seq(Bytes) /\ Len(x) \in (Len(d) + 2)..(2 * (Len(d) + 2)) /\ Len(d) \in Nat
      /\ Unescaped(x) = [out |-> e, escapeNext |-> FALSE]
  BY InsideFacts
<1>3. CheckedPayload(e) = {d}
  BY ChecksumAccepted
<1> HIDE DEF f, x, e
<1>4. Len(f) >= 4
  BY <1>1, <1>2
<1>5. Head(f) = HEADER /\ Last(f) = END
  BY <1>1, <1>4 DEF Last
<1>6. unescapedCopy(x) = e
  BY <1>2 DEF unescapedCopy
<1>7. unbuild(f) = {d}
  BY <1>1, <1>3, <1>4, <1>5, <1>6 DEF unbuild
<1>8. decodeFromBytes(x) = {d}
  BY <1>2, <1>3 DEF decodeFromBytes
<1> QED BY <1>1, <1>7, <1>8 DEF f

(* The three programs put the same bytes on the line for a payload, as long as it   *)
(* fits the buffer of the firmware.                                            *)
THEOREM EncodersAgree ==
    ASSUME NEW d \in Seq(Bytes), NEW maxPayload \in Nat, Len(d) <= maxPayload
    PROVE  BridgeBuild(d) = build(d) /\ ArduinoBuild(d, maxPayload) = build(d)
<1>1. CASE d = <<>>
  BY <1>1 DEF BridgeBuild, build, ArduinoBuild
<1>2. CASE d # <<>>
  <2> DEFINE x == Inside(d)
  <2>1. d \o checksum(d) \in Seq(Bytes)
    BY ChecksumAccepted
  <2>2. /\ x \in Seq(Bytes) /\ Len(x) \in (Len(d) + 2)..(2 * (Len(d) + 2)) /\ Len(d) \in Nat
    BY InsideFacts
  <2>3. <<HEADER>> \in Seq(Bytes) /\ <<>> \in Seq(Bytes) /\ HEADER = END
    BY Flips
  <2>4. AppendedTo(<<HEADER>>, d \o checksum(d)) = <<HEADER>> \o x
    BY <2>1, <2>3, SameEscapes DEF Inside
  <2>5. AppendedTo(<<>>, d \o checksum(d)) = x
    <3>1. AppendedTo(<<>>, d \o checksum(d)) = <<>> \o x
      BY <2>1, <2>3, SameEscapes DEF Inside
    <3> QED BY <2>2, <3>1
  <2>6. build(d) = <<HEADER>> \o x \o <<END>>
    BY <1>2 DEF build, Inside
  <2> HIDE DEF x
  <2>7. BridgeBuild(d) = build(d)
    <3>1. Append(<<HEADER>> \o x, HEADER) = <<HEADER>> \o x \o <<END>>
      BY <2>2, <2>3
    <3> QED BY <1>2, <2>4, <2>6, <3>1 DEF BridgeBuild
  <2>8. Len(x) + 2 <= MaxEncoded(maxPayload)
    BY <2>2 DEF MaxEncoded
  <2>9. ~(Len(x) + 2 > MaxEncoded(maxPayload))
    BY <2>2, <2>8 DEF MaxEncoded
  <2>10. ArduinoBuild(d, maxPayload) = build(d)
    BY <1>2, <2>5, <2>6, <2>9 DEF ArduinoBuild
  <2> QED BY <2>7, <2>10
<1> QED BY <1>1, <1>2

-----------------------------------------------------------------------------
(* Arithmetic modulo 255.                                                     *)
LEMMA Mod255 ==
    ASSUME NEW u \in Int
    PROVE  u % 255 \in 0..254 /\ \E q \in Int : u % 255 = u + 255 * q
<1>1. u % 255 = u + 255 * (-(u \div 255)) /\ -(u \div 255) \in Int /\ u % 255 \in 0..254
  OBVIOUS
<1> QED BY <1>1

Congruent(u, v) == \E k \in Int : v = u + 255 * k

(* A difference of two sums stays what it is while the same bytes are added, and *)
(* changes by the difference of two bytes.                                    *)
LEMMA SumStep ==
    ASSUME NEW u \in Int, NEW v \in Int, NEW x \in Int, NEW y \in Int, NEW w \in Int,
           Congruent(u + w, v)
    PROVE  Congruent(((u + x) % 255) + (w + (y - x)), (v + y) % 255)
<1>1. PICK k \in Int : v = (u + w) + 255 * k
  BY DEF Congruent
<1>2. PICK q \in Int : (u + x) % 255 = (u + x) + 255 * q
  <2>1. u + x \in Int
    OBVIOUS
  <2> QED BY <2>1, Mod255
<1>3. PICK r \in Int : (v + y) % 255 = (v + y) + 255 * r
  <2>1. v + y \in Int
    OBVIOUS
  <2> QED BY <2>1, Mod255
<1> DEFINE a == (u + x) % 255  b == (v + y) % 255
<1>4. a = u + x + 255 * q /\ b = v + y + 255 * r
  BY <1>2, <1>3
<1> HIDE DEF a, b
<1>5. b = (a + (w + (y - x))) + 255 * (k + r - q) /\ k + r - q \in Int
  BY <1>1, <1>4
<1>6. Congruent(a + (w + (y - x)), b)
  BY <1>5 DEF Congruent
<1> QED BY <1>6 DEF a, b

(* Sums of bytes; of two of them when one byte differs: they differ by as much  *)
(* modulo 255.                                                                *)
SumsOf(F, d, N) ==
    /\ F[0] = 0 /\ \A n \in 0..N : F[n] \in Int
    /\ \A n \in 1..N : d[n] \in Int /\ F[n] = (F[n - 1] + d[n]) % 255

DifferAt(d, e, i, N) == i \in 1..N /\ \A n \in 1..N : n # i => e[n] = d[n]

(* The sums differ by as much as the byte, modulo 255.                            *)
LEMMA SumsShift ==
    ASSUME NEW N \in Nat, NEW F, NEW G, NEW d, NEW e, NEW i,
           SumsOf(F, d, N), SumsOf(G, e, N), DifferAt(d, e, i, N)
    PROVE  Congruent(F[N] + (e[i] - d[i]), G[N])
<1> DEFINE Shift(n) == IF n < i THEN 0 ELSE e[i] - d[i]
           S == {n \in Nat : n <= N => Congruent(F[n] + Shift(n), G[n])}
<1>1. i \in Nat /\ 1 <= i /\ i <= N /\ e[i] \in Int /\ d[i] \in Int
  BY DEF SumsOf, DifferAt
<1>2. 0 \in S
  <2>1. G[0] = (F[0] + Shift(0)) + 255 * 0
    BY <1>1 DEF SumsOf
  <2> HIDE DEF Shift
  <2>2. Congruent(F[0] + Shift(0), G[0])
    BY <2>1 DEF Congruent
  <2> QED BY <2>2
<1>3. ASSUME NEW n \in 0..(N - 1), n \in S PROVE n + 1 \in S
  <2>1. n \in Nat /\ n <= N /\ n + 1 \in 1..N /\ (n + 1) - 1 = n /\ n \in 0..N
    OBVIOUS
  <2> DEFINE x == d[n + 1] y == e[n + 1] u == F[n] v == G[n] w == Shift(n)
  <2>2. x \in Int /\ y \in Int /\ u \in Int /\ v \in Int /\ w \in Int
    BY <1>1, <2>1 DEF SumsOf
  <2>3. Congruent(u + w, v)
    <3> HIDE DEF Shift
    <3> QED BY <1>3, <2>1
  <2>4. F[n + 1] = (u + x) % 255 /\ G[n + 1] = (v + y) % 255
    BY <2>1 DEF SumsOf
  <2>5. Shift(n + 1) = w + (y - x)
    <3>1. CASE n + 1 = i
      BY <1>1, <2>1, <3>1
    <3>2. CASE n + 1 # i
      <4>1. y = x
        BY <2>1, <3>2 DEF DifferAt
      <4>2. y - x = 0
        BY <2>2, <4>1
      <4>3. n + 1 < i <=> n < i
        BY <1>1, <2>1, <3>2
      <4>4. Shift(n + 1) = w
        BY <4>3
      <4> HIDE DEF w, Shift, x, y
      <4> QED BY <2>2, <4>2, <4>4
    <3> QED BY <3>1, <3>2
  <2> HIDE DEF x, y, u, v, w
  <2>6. Congruent(((u + x) % 255) + (w + (y - x)), (v + y) % 255)
    BY ZenonT(40), <2>2, <2>3, SumStep
  <2> HIDE DEF Shift
  <2>7. Congruent(F[n + 1] + Shift(n + 1), G[n + 1])
    BY <2>4, <2>5, <2>6
  <2> QED BY <2>1, <2>7
<1>4. 0..N \subseteq S
  <2> HIDE DEF S
  <2> QED BY <1>2, <1>3, BoundedInduction
<1>5. Congruent(F[N] + Shift(N), G[N])
  <2>1. N \in S
    <3> HIDE DEF S
    <3> QED BY <1>1, <1>4
  <2> HIDE DEF Shift
  <2> QED BY <2>1
<1>6. Shift(N) = e[i] - d[i]
  BY <1>1
<1> QED BY <1>5, <1>6

(* The first sum of Fletcher-16 after each byte.                               *)
FirstSums(d) == [n \in 0..Len(d) |-> Sums(d)[n][1]]

(* They are sums in that sense, and end in the first byte of the checksum.        *)
LEMMA FirstSumsFacts ==
    ASSUME NEW d \in Seq(Bytes)
    PROVE  /\ SumsOf(FirstSums(d), d, Len(d)) /\ checksum(d)[1] = FirstSums(d)[Len(d)]
           /\ checksum(d)[1] \in 0..254
<1>1. /\ Sums(d)[0] = <<0, 0>>
      /\ \A n \in 1..Len(d) : Sums(d)[n] = AddByte(Sums(d)[n - 1], d[n])
      /\ \A n \in 0..Len(d) : Sums(d)[n] \in SumPairs
  BY SumsLoop
<1>2. \A s \in SumPairs : s[1] \in 0..254
  BY DEF SumPairs
<1>3. \A s, b : AddByte(s, b)[1] = (s[1] + b) % 255
  BY DEF AddByte
<1>4. \A n \in 1..Len(d) : d[n] \in Int
  <2>1. \A n \in 1..Len(d) : d[n] \in Bytes
    OBVIOUS
  <2>2. \A b \in Bytes : b \in Int
    BY DEF Bytes
  <2> QED BY <2>1, <2>2, Zenon
<1>5. Len(d) \in Nat /\ \A n \in 1..Len(d) : n \in 0..Len(d) /\ n - 1 \in 0..Len(d)
  OBVIOUS
<1>6. \A n \in 0..Len(d) : FirstSums(d)[n] = Sums(d)[n][1]
  BY DEF FirstSums
<1>7. \A n \in 1..Len(d) : FirstSums(d)[n] = (FirstSums(d)[n - 1] + d[n]) % 255
  BY <1>1, <1>3, <1>5, <1>6
<1>8. FirstSums(d)[0] = 0
  BY <1>1, <1>5, <1>6
<1>9. \A n \in 0..Len(d) : FirstSums(d)[n] \in 0..254
  BY <1>1, <1>2, <1>6
<1>10. checksum(d)[1] = FirstSums(d)[Len(d)] /\ Len(d) \in 0..Len(d)
  BY <1>5, <1>6 DEF checksum
<1>11. \A n \in 0..Len(d) : FirstSums(d)[n] \in Int
  <2>1. \A b \in 0..254 : b \in Int
    OBVIOUS
  <2> QED BY <1>9, <2>1, Zenon
<1>12. SumsOf(FirstSums(d), d, Len(d))
  BY <1>4, <1>7, <1>8, <1>11 DEF SumsOf
<1> QED BY <1>9, <1>10, <1>12

(* The checksum tells a byte from every other one, except 0x00 from 0xFF, which *)
(* it never tells apart.                                                      *)
THEOREM ChecksumDetects ==
    ASSUME NEW d \in Seq(Bytes), NEW i \in 1..Len(d), NEW b \in Bytes
    PROVE  checksum([d EXCEPT ![i] = b]) = checksum(d) <=> b = d[i] \/ {b, d[i]} = {0, 255}
<1> DEFINE e == [d EXCEPT ![i] = b]
<1>1. /\ e \in Seq(Bytes) /\ Len(e) = Len(d) /\ e[i] = b /\ Len(d) \in Nat
      /\ \A n \in 1..Len(d) : n # i => e[n] = d[n]
  BY ExceptSeq
<1>2. b \in 0..255 /\ d[i] \in 0..255
  BY ElementOfSeq DEF Bytes
<1> HIDE DEF e
<1>3. ASSUME checksum(e) = checksum(d) PROVE b = d[i] \/ {b, d[i]} = {0, 255}
  <2> DEFINE c == checksum(d)[1] x == d[i]
  <2>1. Congruent(c + (b - x), c) /\ c \in 0..254
    <3>1. SumsOf(FirstSums(d), d, Len(d)) /\ SumsOf(FirstSums(e), e, Len(d))
      BY <1>1, FirstSumsFacts
    <3>2. DifferAt(d, e, i, Len(d))
      BY <1>1 DEF DifferAt
    <3>3. Congruent(FirstSums(d)[Len(d)] + (e[i] - d[i]), FirstSums(e)[Len(d)])
      BY <1>1, <3>1, <3>2, SumsShift
    <3>4. c = FirstSums(d)[Len(d)] /\ c = FirstSums(e)[Len(d)] /\ c \in 0..254
      BY <1>1, <1>3, FirstSumsFacts
    <3> QED BY <1>1, <3>3, <3>4
  <2>2. x \in 0..255
    BY <1>2
  <2> HIDE DEF c, x
  <2>3. PICK k \in Int : c = (c + (b - x)) + 255 * k
    BY <2>1 DEF Congruent
  <2>4. b - x = 255 * (-k)
    BY <1>2, <2>1, <2>2, <2>3
  <2>5. (b = x) \/ (b = 0 /\ x = 255) \/ (b = 255 /\ x = 0)
    BY <1>2, <2>2, <2>4
  <2> QED BY <2>5 DEF x
<1>4. ASSUME b = d[i] \/ {b, d[i]} = {0, 255} PROVE checksum(e) = checksum(d)
  <2>1. \A s \in SumPairs : AddByte(s, b) = AddByte(s, d[i])
    <3>1. ASSUME NEW s \in SumPairs PROVE AddByte(s, 0) = AddByte(s, 255)
      <4>1. \A u \in 0..254 : (u + 255) % 255 = (u + 0) % 255
        OBVIOUS
      <4>2. s[1] \in 0..254
        BY DEF SumPairs
      <4>3. (s[1] + 255) % 255 = (s[1] + 0) % 255
        BY <4>1, <4>2
      <4> QED BY <4>3 DEF AddByte
    <3>2. b = d[i] \/ (b = 0 /\ d[i] = 255) \/ (b = 255 /\ d[i] = 0)
      BY <1>4
    <3> QED BY <3>1, <3>2
  <2> DEFINE f == Sums(e) g == Sums(d)
  <2>2. StepsAgree(f, g, Len(d))
    <3>1. f[0] = g[0]
      BY <1>1, SumsLoop
    <3>2. ASSUME NEW n \in 1..Len(d), f[n - 1] = g[n - 1] PROVE f[n] = g[n]
      <4>1. g[n - 1] \in SumPairs
        <5>1. n - 1 \in 0..Len(d)
          BY <1>1
        <5> QED BY <5>1, SumsLoop
      <4>2. f[n] = AddByte(g[n - 1], e[n]) /\ g[n] = AddByte(g[n - 1], d[n])
        BY <1>1, <3>2, SumsLoop
      <4>3. n = i \/ e[n] = d[n]
        BY <1>1
      <4> HIDE DEF f, g
      <4> QED BY <1>1, <2>1, <4>1, <4>2, <4>3
    <3> QED BY <3>1, <3>2 DEF StepsAgree
  <2>3. f[Len(d)] = g[Len(d)]
    BY <1>1, <2>2, LoopsAgree
  <2> QED BY <1>1, <2>3 DEF checksum
<1> QED BY <1>3, <1>4 DEF e

-----------------------------------------------------------------------------
(* One byte changed on the line.                                              *)

(* Different bytes stay different when 0x20 is turned round in them.            *)
LEMMA FlipsApart == \A a, b \in Bytes : a # b => Flip(a) # Flip(b)
<1> SUFFICES ASSUME NEW a \in Bytes, NEW b \in Bytes, Flip(a) = Flip(b) PROVE a = b
  OBVIOUS
<1>1. PICK p \in 0..7, q \in 0..31 : a = 32 * p + q
  BY DEF Bytes
<1>2. PICK r \in 0..7, t \in 0..31 : b = 32 * r + t
  BY DEF Bytes
<1>3. a \div 32 = p /\ b \div 32 = r
  BY <1>1, <1>2
<1>4. /\ Flip(a) = IF p % 2 = 0 THEN a + 32 ELSE a - 32
      /\ Flip(b) = IF r % 2 = 0 THEN b + 32 ELSE b - 32
  BY <1>3 DEF Flip
<1>5. ASSUME NEW u \in 0..7, NEW v \in 0..7, u % 2 = 0, v % 2 # 0 PROVE v # u + 2
  BY <1>5
<1>6. ASSUME p % 2 = 0, r % 2 # 0 PROVE FALSE
  <2>1. b = a + 64
    BY <1>1, <1>2, <1>4, <1>6
  <2>2. r = p + 2
    BY <1>1, <1>2, <2>1
  <2> QED BY <1>5, <1>6, <2>2
<1>7. ASSUME p % 2 # 0, r % 2 = 0 PROVE FALSE
  <2>1. a = b + 64
    BY <1>1, <1>2, <1>4, <1>7
  <2>2. p = r + 2
    BY <1>1, <1>2, <2>1
  <2> QED BY <1>5, <1>7, <2>2
<1> QED BY <1>1, <1>2, <1>4, <1>6, <1>7

(* Sequences that differ in one place.                                         *)
OneApart(x, y, m) ==
    /\ Len(x) = Len(y) /\ m \in 1..Len(y)
    /\ x[m] # y[m]
    /\ \A n \in 1..Len(y) : n # m => x[n] = y[n]

(* Two decoders that have read the same but for one place of what they put out. *)
ApartAt(s, t, m) == s.escapeNext = t.escapeNext /\ OneApart(s.out, t.out, m)

(* They stay so when they read the same byte.                                  *)
LEMMA StillApart ==
    ASSUME NEW s \in DecoderStates, NEW t \in DecoderStates, NEW m, ApartAt(s, t, m), NEW b \in Bytes
    PROVE  ApartAt(Unescape(s, b), Unescape(t, b), m)
<1> DEFINE c == IF t.escapeNext THEN Flip(b) ELSE b x == s.out y == t.out
<1>1. x \in Seq(Bytes) /\ y \in Seq(Bytes) /\ c \in Bytes
  BY FlipTyped DEF DecoderStates
<1>2. /\ s.escapeNext = t.escapeNext /\ Len(x) = Len(y) /\ m \in 1..Len(y) /\ x[m] # y[m]
      /\ \A n \in 1..Len(y) : n # m => x[n] = y[n]
  BY DEF ApartAt, OneApart
<1>3. CASE ~t.escapeNext /\ b = ESCAPE
  BY <1>2, <1>3 DEF Unescape, ApartAt, OneApart
<1>4. CASE ~(~t.escapeNext /\ b = ESCAPE)
  <2>1. /\ Unescape(s, b) = [out |-> Append(x, c), escapeNext |-> FALSE]
        /\ Unescape(t, b) = [out |-> Append(y, c), escapeNext |-> FALSE]
    BY <1>2, <1>4 DEF Unescape
  <2> HIDE DEF c, x, y
  <2>2. /\ Len(Append(x, c)) = Len(y) + 1 /\ Len(Append(y, c)) = Len(y) + 1 /\ Len(y) \in Nat
        /\ Append(x, c)[Len(y) + 1] = c /\ Append(y, c)[Len(y) + 1] = c
        /\ \A n \in 1..Len(y) : Append(x, c)[n] = x[n] /\ Append(y, c)[n] = y[n]
    BY <1>1, <1>2, AppendFacts
  <2>3. m \in 1..(Len(y) + 1) /\ \A n \in 1..(Len(y) + 1) : n \in 1..Len(y) \/ n = Len(y) + 1
    BY <1>2, <2>2
  <2>4. Append(x, c)[m] # Append(y, c)[m]
    BY <1>2, <2>2
  <2>5. \A n \in 1..(Len(y) + 1) : n # m => Append(x, c)[n] = Append(y, c)[n]
    BY <1>2, <2>2, <2>3
  <2> QED BY <2>1, <2>2, <2>3, <2>4, <2>5 DEF ApartAt, OneApart
<1> QED BY <1>3, <1>4

(* A changed byte, as long as no escape comes or goes, changes one place of what *)
(* a decoder puts out, and nothing of how it goes on.                           *)
LEMMA OnePlaceChanged ==
    ASSUME NEW x \in Seq(Bytes), NEW i \in 1..Len(x), x[i] # ESCAPE,
           NEW b \in Bytes, b # ESCAPE, b # x[i]
    PROVE  \E m : ApartAt(Unescaped([x EXCEPT ![i] = b]), Unescaped(x), m)
<1> DEFINE y == [x EXCEPT ![i] = b] f == Unescapes(y) g == Unescapes(x) m == Len(g[i - 1].out) + 1
<1>1. /\ y \in Seq(Bytes) /\ Len(y) = Len(x) /\ y[i] = b /\ Len(x) \in Nat
      /\ \A n \in 1..Len(x) : n # i => y[n] = x[n]
  BY ExceptSeq
<1>2. i \in Nat /\ i - 1 \in Nat /\ i - 1 \in 0..Len(x) /\ 1 <= i /\ i <= Len(x)
  BY <1>1
<1>3. \A n \in 1..Len(x) : x[n] \in Bytes
  OBVIOUS
<1> HIDE DEF y
<1>4. /\ f[0] = g[0] /\ \A n \in 0..Len(x) : f[n] \in DecoderStates /\ g[n] \in DecoderStates
      /\ \A n \in 1..Len(x) : f[n] = Unescape(f[n - 1], y[n]) /\ g[n] = Unescape(g[n - 1], x[n])
  BY <1>1, UnescapesLoop
<1> HIDE DEF f, g
<1>5. f[i - 1] = g[i - 1]
  <2>1. \A n \in 1..(i - 1) : n \in 1..Len(x) /\ n # i
    BY <1>1, <1>2
  <2>2. StepsAgree(f, g, i - 1)
    BY <1>1, <1>4, <2>1 DEF StepsAgree
  <2> QED BY <1>2, <2>2, LoopsAgree
<1>6. ApartAt(f[i], g[i], m)
  <2> DEFINE t == g[i - 1] u == IF t.escapeNext THEN Flip(b) ELSE b
                           v == IF t.escapeNext THEN Flip(x[i]) ELSE x[i]
  <2>1. t \in DecoderStates /\ f[i] = Unescape(t, b) /\ g[i] = Unescape(t, x[i])
    BY <1>1, <1>2, <1>4, <1>5
  <2>2. u \in Bytes /\ v \in Bytes /\ u # v
    BY <1>3, FlipTyped, FlipsApart
  <2> HIDE DEF t
  <2>3. /\ Unescape(t, b) = [out |-> Append(t.out, u), escapeNext |-> FALSE]
        /\ Unescape(t, x[i]) = [out |-> Append(t.out, v), escapeNext |-> FALSE]
    BY DEF Unescape
  <2> HIDE DEF u, v
  <2>4. t.out \in Seq(Bytes)
    BY <2>1 DEF DecoderStates
  <2> DEFINE k == Len(t.out)
  <2>5. /\ Len(Append(t.out, u)) = k + 1 /\ Len(Append(t.out, v)) = k + 1 /\ k \in Nat
        /\ Append(t.out, u)[k + 1] = u /\ Append(t.out, v)[k + 1] = v
        /\ \A n \in 1..k : Append(t.out, u)[n] = t.out[n] /\ Append(t.out, v)[n] = t.out[n]
    BY <2>2, <2>4, AppendFacts
  <2>6. k + 1 \in 1..(k + 1) /\ \A n \in 1..(k + 1) : n # k + 1 => n \in 1..k
    BY <2>5
  <2>7. m = k + 1
    BY DEF t
  <2> HIDE DEF m, k
  <2> QED BY <2>1, <2>2, <2>3, <2>5, <2>6, <2>7 DEF ApartAt, OneApart
<1> HIDE DEF m
<1> DEFINE S == {n \in Nat : n >= i => ApartAt(f[n], g[n], m)}
<1>7. 0 \in S
  BY <1>2
<1>8. ASSUME NEW n \in 0..(Len(x) - 1), n \in S PROVE n + 1 \in S
  <2>1. CASE n + 1 = i
    BY <1>6, <2>1
  <2>2. CASE n + 1 # i /\ n >= i
    <3>1. n \in 0..Len(x) /\ n + 1 \in 1..Len(x) /\ (n + 1) - 1 = n
      BY <1>1
    <3>2. /\ f[n + 1] = Unescape(f[n], x[n + 1]) /\ g[n + 1] = Unescape(g[n], x[n + 1])
          /\ f[n] \in DecoderStates /\ g[n] \in DecoderStates /\ x[n + 1] \in Bytes
      BY <1>1, <1>3, <1>4, <2>2, <3>1
    <3>3. ApartAt(f[n], g[n], m)
      BY <1>8, <2>2
    <3> QED BY <3>2, <3>3, StillApart
  <2>3. CASE n + 1 # i /\ ~(n >= i)
    BY <1>2, <2>3
  <2> QED BY <2>1, <2>2, <2>3
<1>9. 0..Len(x) \subseteq S
  <2> HIDE DEF S
  <2> QED BY <1>1, <1>7, <1>8, BoundedInduction
<1>10. ApartAt(f[Len(x)], g[Len(x)], m)
  BY <1>1, <1>2, <1>9
<1> QED BY <1>1, <1>10 DEF Unescaped, f, g, y

(* Nothing is accepted for d, or d with one 0x00 for an 0xFF or the other way     *)
(* round.                                                                     *)
RefusedOrSwapped(d, accepted) ==
    \/ accepted = {}
    \/ \E m \in 1..Len(d), c \in {0, 255} :
          {c, d[m]} = {0, 255} /\ accepted = {[d EXCEPT ![m] = c]}

(* A payload and its checksum with one place changed: refused, unless the place   *)
(* is a byte of the payload whose change the checksum does not see.             *)
LEMMA ChangeRefused ==
    ASSUME NEW d \in Seq(Bytes), NEW e \in Seq(Bytes), NEW m, OneApart(e, d \o checksum(d), m)
    PROVE  RefusedOrSwapped(d, CheckedPayload(e))
<1> DEFINE N == Len(d) c == checksum(d) p == SubSeq(e, 1, N) r == SubSeq(e, N + 1, N + 2)
<1>0. d \o c \in Seq(Bytes) /\ Len(d \o c) = N + 2 /\ N \in Nat
  BY ChecksumAccepted
<1>1. /\ d \o c \in Seq(Bytes) /\ Len(d \o c) = N + 2 /\ N \in Nat
      /\ Len(e) = N + 2 /\ m \in 1..(N + 2) /\ e[m] # (d \o c)[m]
      /\ \A n \in 1..(N + 2) : n # m => e[n] = (d \o c)[n]
  <2> HIDE DEF c
  <2>1. OneApart(e, d \o c, m)
    BY DEF c
  <2> QED BY <1>0, <2>1 DEF OneApart
<1>2. c \in Seq(Bytes) /\ Len(c) = 2
  <2>1. c \in SumPairs
    BY LoopTypes
  <2> HIDE DEF c
  <2>2. c = <<c[1], c[2]>> /\ c[1] \in Bytes /\ c[2] \in Bytes
    BY <2>1 DEF SumPairs, Bytes
  <2>3. PICK u \in Bytes, v \in Bytes : c = <<u, v>>
    BY <2>2
  <2>4. <<u, v>> \in Seq(Bytes) /\ Len(<<u, v>>) = 2
    OBVIOUS
  <2> QED BY <2>3, <2>4
<1>3. /\ \A n \in 1..N : (d \o c)[n] = d[n]
      /\ (d \o c)[N + 1] = c[1] /\ (d \o c)[N + 2] = c[2]
  <2> HIDE DEF c
  <2> QED BY <1>1, <1>2
<1>4. /\ CheckedPayload(e) = IF r = checksum(p) THEN {p} ELSE {}
      /\ p \in Seq(Bytes) /\ Len(p) = N /\ \A n \in 1..N : p[n] = e[n]
      /\ r \in Seq(Bytes) /\ Len(r) = 2 /\ r[1] = e[N + 1] /\ r[2] = e[N + 2]
  <2>1. Len(e) - 2 = N /\ N >= 0
    BY <1>1
  <2>2. CheckedPayload(e) = IF r = checksum(p) THEN {p} ELSE {}
    BY <2>1 DEF CheckedPayload
  <2>3. p \in Seq(Bytes) /\ Len(p) = N /\ \A n \in 1..N : p[n] = e[n]
    BY <1>1
  <2>4. r \in Seq(Bytes) /\ Len(r) = 2 /\ r[1] = e[N + 1] /\ r[2] = e[N + 2]
    BY <1>1
  <2> QED BY <2>2, <2>3, <2>4
<1> HIDE DEF c, p, r
<1>5. CASE m \in 1..N
  <2>1. r = c
    <3>1. N + 1 # m /\ N + 2 # m /\ N + 1 \in 1..(N + 2) /\ N + 2 \in 1..(N + 2)
      BY <1>1, <1>5
    <3>2. r[1] = c[1] /\ r[2] = c[2]
      BY <1>1, <1>3, <1>4, <3>1
    <3>3. r \in Seq(Bytes) /\ c \in Seq(Bytes) /\ Len(r) = Len(c) /\ \A n \in 1..Len(r) : r[n] = c[n]
      BY <1>2, <1>4, <3>2
    <3> QED BY <3>3, SeqEqual
  <2> DEFINE q == [d EXCEPT ![m] = e[m]]
  <2>2. e[m] \in Bytes
    BY <1>1
  <2>3. q \in Seq(Bytes) /\ Len(q) = N /\ q[m] = e[m] /\ \A n \in 1..N : n # m => q[n] = d[n]
    BY <1>5, <2>2, ExceptSeq
  <2> HIDE DEF q
  <2>4. \A n \in 1..N : n \in 1..(N + 2)
    BY <1>1
  <2>5. p = q
    <3>1. \A n \in 1..N : p[n] = q[n]
      BY <1>1, <1>3, <1>4, <2>3, <2>4
    <3>2. p \in Seq(Bytes) /\ q \in Seq(Bytes) /\ Len(p) = Len(q) /\ \A n \in 1..Len(p) : p[n] = q[n]
      BY <1>4, <2>3, <3>1
    <3> QED BY <3>2, SeqEqual
  <2>6. ASSUME r = checksum(p) PROVE {e[m], d[m]} = {0, 255}
    <3>1. checksum(q) = checksum(d)
      BY <2>1, <2>5, <2>6 DEF c
    <3>2. checksum([d EXCEPT ![m] = e[m]]) = checksum(d)
              <=> e[m] = d[m] \/ {e[m], d[m]} = {0, 255}
      BY <1>5, <2>2, ChecksumDetects, Zenon
    <3>4. checksum([d EXCEPT ![m] = e[m]]) = checksum(d)
      BY <3>1 DEF q
    <3>5. e[m] = d[m] \/ {e[m], d[m]} = {0, 255}
      BY <3>2, <3>4, Zenon
    <3>3. e[m] # d[m]
      BY <1>1, <1>3, <1>5
    <3> QED BY <3>3, <3>5
  <2>7. \/ CheckedPayload(e) = {}
        \/ {e[m], d[m]} = {0, 255} /\ CheckedPayload(e) = {q}
    BY <1>4, <2>5, <2>6
  <2>8. {e[m], d[m]} = {0, 255} => e[m] \in {0, 255}
    OBVIOUS
  <2> DEFINE accepted == CheckedPayload(e) u == e[m]
  <2>9. CASE accepted = {}
    BY <2>9 DEF RefusedOrSwapped
  <2>10. CASE {u, d[m]} = {0, 255} /\ accepted = {q}
    <3>1. u \in {0, 255}
      BY <2>8, <2>10
    <3>2. accepted = {[d EXCEPT ![m] = u]} /\ m \in 1..Len(d)
      BY <1>5, <2>10 DEF q
    <3>3. {u, d[m]} = {0, 255}
      BY <2>10
    <3> HIDE DEF accepted, u
    <3>4. RefusedOrSwapped(d, accepted)
      BY <3>1, <3>2, <3>3, Zenon DEF RefusedOrSwapped
    <3> QED BY <3>4 DEF accepted
  <2> QED BY <2>7, <2>9, <2>10
<1>6. CASE m \in {N + 1, N + 2}
  <2>1. \A n \in 1..N : n \in 1..(N + 2) /\ n # m
    BY <1>1, <1>6
  <2>2. p = d
    <3>1. \A n \in 1..N : p[n] = d[n]
      BY <1>1, <1>3, <1>4, <2>1
    <3>2. p \in Seq(Bytes) /\ Len(p) = Len(d) /\ \A n \in 1..Len(p) : p[n] = d[n]
      BY <1>4, <3>1
    <3> QED BY <3>2, SeqEqual
  <2>3. r # c
    BY <1>1, <1>3, <1>4, <1>6
  <2>4. CheckedPayload(e) = {}
    BY <1>4, <2>2, <2>3 DEF c
  <2> QED BY <2>4 DEF RefusedOrSwapped
<1>7. m \in 1..N \/ m \in {N + 1, N + 2}
  BY <1>1
<1> QED BY <1>5, <1>6, <1>7

(* A byte of a frame that the line changes costs the frame and forges none: the    *)
(* decoders of all three programs refuse it, unless they take a 0x00 of the       *)
(* payload for 0xFF or the other way round, which Fletcher-16 cannot see.  An     *)
(* escape that comes or goes moves the bytes behind it and is not included.      *)
THEOREM DamageDetected ==
    ASSUME NEW d \in Seq(Bytes), d # <<>>, NEW i \in 1..Len(Inside(d)), Inside(d)[i] # ESCAPE,
           NEW b \in Bytes, b # ESCAPE, b # Inside(d)[i],
           NEW y, y = [Inside(d) EXCEPT ![i] = b],
           NEW decoded, decoded \in {unbuild(<<HEADER>> \o y \o <<END>>), decodeFromBytes(y),
                                     CheckedPayload(Unescaped(y).out)}
    PROVE  RefusedOrSwapped(d, decoded)
<1> DEFINE x == Inside(d) e == Unescaped(y).out
<1>1. /\ x \in Seq(Bytes) /\ Len(x) \in (Len(d) + 2)..(2 * (Len(d) + 2)) /\ Len(d) \in Nat
      /\ Unescaped(x) = [out |-> d \o checksum(d), escapeNext |-> FALSE]
  BY InsideFacts
<1>2. Len(d \o checksum(d)) = Len(d) + 2
  BY ChecksumAccepted
<1>3. y \in Seq(Bytes) /\ Len(y) = Len(x) /\ Len(x) >= 2 /\ Len(x) \in Nat
  <2> HIDE DEF x
  <2>1. y \in Seq(Bytes) /\ Len(y) = Len(x)
    BY <1>1, ExceptSeq DEF x
  <2> QED BY <1>1, <2>1
<1>4. PICK m : ApartAt(Unescaped(y), Unescaped(x), m)
  BY <1>1, OnePlaceChanged
<1>5. Unescaped(y) \in DecoderStates
  <2>1. Len(y) \in 0..Len(y)
    BY <1>3
  <2> QED BY <1>3, <2>1, UnescapesLoop DEF Unescaped
<1>6. e \in Seq(Bytes) /\ Unescaped(y).escapeNext = FALSE /\ OneApart(e, d \o checksum(d), m)
  <2> DEFINE z == d \o checksum(d)
  <2>1. Unescaped(x).out = z /\ Unescaped(x).escapeNext = FALSE
    BY <1>1
  <2>2. e \in Seq(Bytes)
    BY <1>5 DEF DecoderStates
  <2> HIDE DEF x, z
  <2>3. Unescaped(y).escapeNext = FALSE /\ OneApart(e, z, m)
    BY <1>4, <2>1 DEF ApartAt
  <2> QED BY <2>2, <2>3 DEF z
<1>7. decoded = CheckedPayload(e)
  <2>1. decodeFromBytes(y) = CheckedPayload(e)
    BY <1>6 DEF decodeFromBytes
  <2>2. unescapedCopy(y) = e
    BY <1>6 DEF unescapedCopy
  <2> DEFINE f == <<HEADER>> \o y \o <<END>>
  <2>3. HEADER \in Bytes /\ END \in Bytes
    BY Flips
  <2>4. /\ f \in Seq(Bytes) /\ Len(f) = Len(y) + 2 /\ f[1] = HEADER /\ f[Len(y) + 2] = END
        /\ SubSeq(f, 2, Len(y) + 1) = y
    <3> HIDE DEF x
    <3> QED BY <1>3, <2>3
  <2> HIDE DEF f
  <2>5. Len(f) >= 4 /\ Len(f) - 1 = Len(y) + 1
    BY <1>3, <2>4
  <2>6. Head(f) = HEADER /\ Last(f) = END
    BY <2>4, <2>5 DEF Last
  <2>7. unbuild(f) = CheckedPayload(e)
    BY <2>2, <2>4, <2>5, <2>6 DEF unbuild
  <2> QED BY <2>1, <2>7 DEF f
<1> HIDE DEF e
<1> QED BY <1>6, <1>7, ChangeRefused

-----------------------------------------------------------------------------

(* Pow2 by its two equations.                                                 *)
LEMMA PowersOfTwo == Pow2[0] = 1 /\ \A k \in 1..30 : Pow2[k] = 2 * Pow2[k - 1]
<1> DEFINE d == [i \in 1..30 |-> 0]
           step == [x \in Nat |-> [a \in {0} |-> 2 * x]]
           Body(g, k) == IF k = 0 THEN 1 ELSE 2 * g[k - 1]
           Loop(g) == g = [k \in 0..30 |-> Body(g, k)]
<1>1. d \in Seq({0}) /\ Len(d) = 30 /\ \A k \in 1..30 : d[k] = 0
  <2>1. d \in Seq({0}) /\ Len(d) = 30
    BY SeqDef
  <2> QED BY <2>1
<1>2. 1 \in Nat /\ step \in [Nat -> [{0} -> Nat]]
  OBVIOUS
<1>3. \A x \in Nat : step[x][0] = 2 * x
  OBVIOUS
<1> HIDE DEF d, step
<1>4. PICK f \in [0..30 -> Nat] : f[0] = 1 /\ \A k \in 1..30 : f[k] = step[f[k - 1]][d[k]]
  <2> DEFINE A == {0}
  <2>1. d \in Seq(A) /\ step \in [Nat -> [A -> Nat]] /\ 1 \in Nat
    BY <1>1, <1>2
  <2> HIDE DEF A
  <2>2. Loops(Nat, 1, step, d) # {}
    BY <2>1, LoopExists
  <2> QED BY <1>1, <2>2 DEF Loops
<1>5. \A k \in 1..30 : f[k] = 2 * f[k - 1]
  <2>1. \A k \in 1..30 : k - 1 \in 0..30
    OBVIOUS
  <2> QED BY <1>1, <1>3, <1>4, <2>1
<1>6. Loop(f)
  <2>1. \A k \in 0..30 : k = 0 \/ k \in 1..30
    OBVIOUS
  <2>2. \A k \in 0..30 : f[k] = Body(f, k)
    BY <1>4, <1>5, <2>1
  <2> HIDE DEF Body
  <2> QED BY <2>2
<1>7. Loop(Pow2)
  <2>1. Pow2 = CHOOSE g : Loop(g)
    BY DEF Pow2
  <2> HIDE DEF Loop
  <2> QED BY <1>6, <2>1
<1>8. \A k \in 0..30 : Pow2[k] = Body(Pow2, k)
  <2> DEFINE g == Pow2
  <2>1. Loop(g)
    BY <1>7
  <2> HIDE DEF g, Body
  <2>2. \A k \in 0..30 : g[k] = Body(g, k)
    BY <2>1
  <2> QED BY <2>2 DEF g
<1>9. 0 \in 0..30 /\ \A k \in 1..30 : k \in 0..30 /\ k # 0
  OBVIOUS
<1> QED BY <1>8, <1>9

(* The powers a float of 24 bits needs.                                       *)
LEMMA Powers ==
    /\ Pow2[0] = 1 /\ Pow2[1] = 2 /\ Pow2[2] = 4
    /\ Pow2[3] = 8 /\ Pow2[4] = 16 /\ Pow2[5] = 32
    /\ Pow2[6] = 64
    /\ Pow2[7] = 128 /\ Pow2[8] = 256 /\ Pow2[9] = 512
    /\ Pow2[10] = 1024 /\ Pow2[11] = 2048 /\ Pow2[12] = 4096
    /\ Pow2[13] = 8192 /\ Pow2[14] = 16384 /\ Pow2[15] = 32768
    /\ Pow2[16] = 65536 /\ Pow2[17] = 131072 /\ Pow2[18] = 262144
    /\ Pow2[19] = 524288 /\ Pow2[20] = 1048576 /\ Pow2[21] = 2097152
    /\ Pow2[22] = 4194304 /\ Pow2[23] = 8388608 /\ Pow2[24] = 16777216
<1>1. /\ Pow2[0] = 1 /\ Pow2[1] = 2 /\ Pow2[2] = 4
      /\ Pow2[3] = 8 /\ Pow2[4] = 16 /\ Pow2[5] = 32
      /\ Pow2[6] = 64
  BY PowersOfTwo
<1>2. /\ Pow2[7] = 128 /\ Pow2[8] = 256 /\ Pow2[9] = 512
      /\ Pow2[10] = 1024 /\ Pow2[11] = 2048 /\ Pow2[12] = 4096
  BY <1>1, PowersOfTwo
<1>3. /\ Pow2[13] = 8192 /\ Pow2[14] = 16384 /\ Pow2[15] = 32768
      /\ Pow2[16] = 65536 /\ Pow2[17] = 131072 /\ Pow2[18] = 262144
  BY <1>2, PowersOfTwo
<1>4. /\ Pow2[19] = 524288 /\ Pow2[20] = 1048576 /\ Pow2[21] = 2097152
      /\ Pow2[22] = 4194304 /\ Pow2[23] = 8388608 /\ Pow2[24] = 16777216
  BY <1>3, PowersOfTwo
<1> QED BY <1>1, <1>2, <1>3, <1>4

(* Every power is a positive number.                                          *)
LEMMA PowersPositive == \A k \in 0..30 : Pow2[k] \in Nat /\ Pow2[k] >= 1
<1> DEFINE X == {x \in Nat : x >= 1}
<1>1. Pow2[0] \in X /\ \A k \in 1..30 : Pow2[k - 1] \in X => Pow2[k] \in X
  BY PowersOfTwo
<1>2. \A k \in 0..30 : Pow2[k] \in X
  <2> HIDE DEF X
  <2> QED BY <1>1, LoopTyped
<1> QED BY <1>2

(* The two shifts of a mantissa undo each other.                               *)
LEMMA Products ==
    ASSUME NEW k \in 0..23
    PROVE  Pow2[k] * Pow2[23 - k] = Pow2[23]
<1> DEFINE S == {n \in Nat : Pow2[n] * Pow2[23 - n] = Pow2[23]}
<1>1. 0 \in S
  <2>1. Pow2[23] \in Nat /\ Pow2[0] = 1 /\ 23 - 0 = 23
    BY PowersPositive, PowersOfTwo
  <2> QED BY <2>1
<1>2. ASSUME NEW n \in 0..(23 - 1), n \in S PROVE n + 1 \in S
  <2> DEFINE a == Pow2[n] b == Pow2[23 - (n + 1)] c == Pow2[23]
  <2>1. /\ n \in 0..30 /\ 23 - (n + 1) \in 0..30 /\ n + 1 \in 1..30 /\ 23 - n \in 1..30
        /\ (n + 1) - 1 = n /\ (23 - n) - 1 = 23 - (n + 1) /\ n + 1 \in Nat
    OBVIOUS
  <2>2. Pow2[n + 1] = 2 * a /\ Pow2[23 - n] = 2 * b /\ a \in Nat /\ b \in Nat
    BY <2>1, PowersOfTwo, PowersPositive
  <2>3. a * (2 * b) = c
    BY <1>2, <2>2
  <2> HIDE DEF a, b, c
  <2>4. (2 * a) * b = c
    BY <2>2, <2>3
  <2>5. Pow2[n + 1] * Pow2[23 - (n + 1)] = Pow2[23]
    BY <2>2, <2>4 DEF b, c
  <2> QED BY <2>1, <2>5
<1>3. 0..23 \subseteq S
  <2> HIDE DEF S
  <2> QED BY <1>1, <1>2, BoundedInduction
<1> QED BY <1>3

(* Every whole number of a float has its place between two powers of two.       *)
LEMMA Leading ==
    ASSUME NEW n \in WholeFloats, n # 0
    PROVE  \E k \in 0..23 : Pow2[k] <= n /\ n < Pow2[k + 1]
<1> DEFINE S == {m \in Nat : n < Pow2[m] => \E k \in 0..(m - 1) : Pow2[k] <= n /\ n < Pow2[k + 1]}
<1>1. n \in Nat /\ n >= 1 /\ n < Pow2[24]
  <2>1. Pow2[24] = 16777216
    BY Powers
  <2>2. n \in Nat /\ n >= 1 /\ n < 16777216
    BY DEF WholeFloats
  <2> QED BY <2>1, <2>2
<1>2. 0 \in S
  <2>1. Pow2[0] = 1
    BY PowersOfTwo
  <2>2. ~(n < Pow2[0])
    BY <1>1, <2>1
  <2> QED BY <2>2
<1>3. ASSUME NEW m \in 0..(24 - 1), m \in S PROVE m + 1 \in S
  <2> SUFFICES ASSUME n < Pow2[m + 1] PROVE \E k \in 0..((m + 1) - 1) : Pow2[k] <= n /\ n < Pow2[k + 1]
    OBVIOUS
  <2>1. Pow2[m] \in Nat /\ m \in 0..((m + 1) - 1)
    BY PowersPositive
  <2>2. CASE n < Pow2[m]
    <3>1. PICK k \in 0..(m - 1) : Pow2[k] <= n /\ n < Pow2[k + 1]
      BY <1>3, <2>2
    <3>2. k \in 0..((m + 1) - 1)
      OBVIOUS
    <3> QED BY <3>1, <3>2
  <2>3. CASE ~(n < Pow2[m])
    BY <1>1, <2>1, <2>3
  <2> QED BY <2>2, <2>3
<1>4. 0..24 \subseteq S
  <2> HIDE DEF S
  <2> QED BY <1>2, <1>3, BoundedInduction
<1>5. 24 \in S /\ 24 - 1 = 23
  <2> HIDE DEF S
  <2> QED BY <1>4
<1> QED BY <1>1, <1>5

(* The exponent of n, and the 23 bits after its first one.                      *)
Leads(n, e) == e \in 0..23 /\ Pow2[e] <= n /\ n < Pow2[e + 1]
Fraction(n, e) == (n - Pow2[e]) * Pow2[23 - e]
FractionRange == {x \in Nat : x < Pow2[23]}

(* The fraction fits its 23 bits, and with the hidden one is the number shifted. *)
LEMMA Fractions ==
    ASSUME NEW n \in WholeFloats, NEW e, Leads(n, e)
    PROVE  /\ Fraction(n, e) \in FractionRange
           /\ Pow2[23] + Fraction(n, e) = n * Pow2[23 - e]
<1> DEFINE p == Pow2[e] q == Pow2[23 - e]
<1>1. /\ e \in 0..30 /\ 23 - e \in 0..30 /\ e + 1 \in 1..30 /\ (e + 1) - 1 = e /\ e \in 0..23
  BY DEF Leads
<1>2. p \in Nat /\ q \in Nat /\ q >= 1 /\ p * q = Pow2[23] /\ Pow2[e + 1] = 2 * p
  BY <1>1, PowersPositive, PowersOfTwo, Products
<1>3. n \in Nat /\ p <= n /\ n < 2 * p
  BY <1>2 DEF Leads, WholeFloats
<1> HIDE DEF p, q
<1>4. PICK r \in Nat : n = p + r /\ r <= p - 1
  <2>1. n - p \in Nat /\ n = p + (n - p) /\ n - p <= p - 1
    BY <1>2, <1>3
  <2> QED BY <2>1
<1>5. r * q \in Nat /\ r * q <= (p - 1) * q
  BY <1>2, <1>4
<1>6. (p - 1) * q = p * q - q
  BY <1>2
<1>7. r * q \in FractionRange
  BY <1>2, <1>5, <1>6 DEF FractionRange
<1>8. n * q = p * q + r * q
  BY <1>2, <1>4
<1>9. n - p = r
  BY <1>2, <1>4
<1>10. Fraction(n, e) = r * q
  BY <1>9 DEF Fraction, p, q
<1>11. Pow2[23] + r * q = n * q
  BY <1>2, <1>8
<1> QED BY <1>7, <1>10, <1>11 DEF q

(* The four bytes by exponent and fraction.                                    *)
FloatOf(e, fraction) ==
    <<fraction % 256, (fraction \div 256) % 256,
      ((e + 127) % 2) * 128 + fraction \div 65536, (e + 127) \div 2>>

(* FloatBytes takes the one exponent there is.                                 *)
LEMMA FloatShape ==
    ASSUME NEW n \in WholeFloats, n # 0
    PROVE  \E e : Leads(n, e) /\ FloatBytes(n) = FloatOf(e, Fraction(n, e))
<1> DEFINE e == CHOOSE k \in 0..23 : Pow2[k] <= n /\ n < Pow2[k + 1]
<1>1. Leads(n, e)
  <2>1. e \in 0..23 /\ Pow2[e] <= n /\ n < Pow2[e + 1]
    BY Leading
  <2> QED BY <2>1 DEF Leads
<1>2. FloatBytes(n) = FloatOf(e, Fraction(n, e))
  BY DEF FloatBytes, FloatOf, Fraction
<1> QED BY <1>1, <1>2

(* The fields of the four bytes are read back.                                 *)
LEMMA FloatFields ==
    ASSUME NEW e \in 0..23, NEW x \in FractionRange
    PROVE  /\ FloatOf(e, x) \in Seq(Bytes) /\ Len(FloatOf(e, x)) = 4
           /\ Exponent(FloatOf(e, x)) = e /\ Mantissa(FloatOf(e, x)) = Pow2[23] + x
           /\ FloatOf(e, x)[4] \in 0..127
<1> DEFINE f == FloatOf(e, x)
<1> DEFINE x1 == x % 256  x2 == (x \div 256) % 256  x3 == x \div 65536
<1>1. /\ x1 \in 0..255 /\ x2 \in 0..255 /\ x3 \in 0..127 /\ x \in Nat
      /\ x = x3 * 65536 + x2 * 256 + x1
  <2>1. x \in Nat /\ x < 8388608
    BY Powers DEF FractionRange
  <2> QED BY <2>1
<1>2. x % 256 = x1 /\ (x \div 256) % 256 = x2 /\ x \div 65536 = x3
  OBVIOUS
<1> HIDE DEF x1, x2, x3
<1>3. PICK h \in 0..75, l \in 0..1 : e + 127 = 2 * h + l
  OBVIOUS
<1>4. (e + 127) % 2 = l /\ (e + 127) \div 2 = h
  BY <1>3
<1>5. f = <<x1, x2, l * 128 + x3, h>>
  BY <1>2, <1>4 DEF FloatOf
<1>6. l * 128 + x3 \in 0..255 /\ (l * 128 + x3) % 128 = x3 /\ (l * 128 + x3) \div 128 = l /\ h % 128 = h
  BY <1>1
<1> HIDE DEF f
<1>7. f[1] = x1 /\ f[2] = x2 /\ f[3] = l * 128 + x3 /\ f[4] = h
  BY <1>5
<1>8. f \in Seq(Bytes) /\ Len(f) = 4
  <2>1. x1 \in Bytes /\ x2 \in Bytes /\ l * 128 + x3 \in Bytes /\ h \in Bytes
    BY <1>1, <1>6 DEF Bytes
  <2> QED BY <1>5, <2>1
<1>9. Exponent(f) = e
  BY <1>1, <1>3, <1>6, <1>7 DEF Exponent
<1>10. Mantissa(f) = Pow2[23] + x
  BY <1>1, <1>6, <1>7, Powers DEF Mantissa
<1> QED BY <1>7, <1>8, <1>9, <1>10 DEF f

(* The float of a whole number is four bytes.                                  *)
LEMMA FloatTyped ==
    ASSUME NEW n \in WholeFloats
    PROVE  FloatBytes(n) \in Seq(Bytes) /\ Len(FloatBytes(n)) = 4
<1>1. CASE n = 0
  BY <1>1 DEF FloatBytes, Bytes
<1>2. CASE n # 0
  <2>1. PICK e : Leads(n, e) /\ FloatBytes(n) = FloatOf(e, Fraction(n, e))
    BY <1>2, FloatShape
  <2>2. e \in 0..23 /\ Fraction(n, e) \in FractionRange
    BY <2>1, Fractions DEF Leads
  <2>3. FloatOf(e, Fraction(n, e)) \in Seq(Bytes) /\ Len(FloatOf(e, Fraction(n, e))) = 4
    BY <2>2, FloatFields, Zenon
  <2> QED BY <2>1, <2>3
<1> QED BY <1>1, <1>2

(* A code that goes out as a float comes back as itself, from the conversion of   *)
(* the firmware and from those of the Raspberry programs.                       *)
THEOREM FloatRoundTrip ==
    ASSUME NEW n \in Codes
    PROVE  AvrInt(FloatBytes(n)) = n /\ HostInt(FloatBytes(n)) = n
<1> DEFINE f == FloatBytes(n)
<1>1. CASE n = 0
  <2>1. f = <<0, 0, 0, 0>>
    BY <1>1 DEF FloatBytes
  <2> HIDE DEF f
  <2>2. f[1] = 0 /\ f[2] = 0 /\ f[3] = 0 /\ f[4] = 0
    BY <2>1
  <2>3. Exponent(f) = -127
    BY <2>2 DEF Exponent
  <2>4. Signed(f, 0) = 0
    BY <2>2 DEF Signed
  <2>5. AvrInt(f) = 0 /\ HostInt(f) = 0
    BY <2>3, <2>4 DEF AvrInt, HostInt
  <2> QED BY <1>1, <2>5 DEF f
<1>2. CASE n # 0
  <2>1. n \in WholeFloats
    BY DEF Codes, NoCode, WholeFloats
  <2>2. PICK e : Leads(n, e) /\ f = FloatOf(e, Fraction(n, e))
    BY <1>2, <2>1, FloatShape
  <2>3. e \in 0..23 /\ Fraction(n, e) \in FractionRange
    BY <2>1, <2>2, Fractions DEF Leads
  <2>4. Exponent(f) = e /\ Mantissa(f) = Pow2[23] + Fraction(n, e) /\ f[4] \in 0..127
    BY ZenonT(40), <2>2, <2>3, FloatFields
  <2> HIDE DEF f
  <2>5. Mantissa(f) = n * Pow2[23 - e]
    BY <2>1, <2>2, <2>4, Fractions
  <2>6. e \in 0..14
    <3>1. Pow2[e] < 32768
      <4>1. Pow2[e] \in Nat
        BY <2>3, PowersPositive
      <4> QED BY <2>2, <4>1 DEF Leads, Codes, NoCode
    <3>2. e \notin 15..23
      BY <3>1, Powers
    <3> QED BY <2>3, <3>2
  <2>7. Mantissa(f) \div Pow2[23 - e] = n
    <3> DEFINE q == Pow2[23 - e]
    <3>1. 23 - e \in 0..30
      BY <2>3
    <3>2. q \in Nat /\ q >= 1
      BY <3>1, PowersPositive
    <3>3. n \in Nat
      BY DEF Codes
    <3> HIDE DEF q
    <3>4. (n * q) \div q = n
      BY <3>2, <3>3
    <3> QED BY <2>5, <3>4 DEF q
  <2>8. Signed(f, n) = n
    BY <2>4 DEF Signed
  <2>9. /\ ~(e < 0) /\ ~(e > 14) /\ ~(e > 30) /\ ~(e > 23)
        /\ n % 65536 = n /\ ~(n >= 32768)
    BY <2>6 DEF Codes, NoCode
  <2>10. HostInt(f) = n
    BY <2>4, <2>7, <2>8, <2>9 DEF HostInt
  <2>11. AvrInt(f) = n
    BY <2>4, <2>7, <2>8, <2>9 DEF AvrInt
  <2> QED BY <2>10, <2>11 DEF f
<1> QED BY <1>1, <1>2
===============================================================================

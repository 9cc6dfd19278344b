------------------------- MODULE PacketCodecProofs --------------------------
(***************************************************************************)
(* Proofs about numbers and texts as bytes, for any number of values of a    *)
(* byte: what is written is what is read.                                    *)
(***************************************************************************)
EXTENDS PacketCodec, SequenceTheorems, WellFoundedInduction, TLAPS

-----------------------------------------------------------------------------
(* Induction.  The library's theorems about it take an operator; over sets and *)
(* functions it follows from there being no endless descent below a number.    *)

\* What is kept from each number to the next, up to n, holds up to n: of the
\* numbers for which it does not hold, there would be a least.
LEMMA Induction ==
    ASSUME NEW n \in Nat, NEW P, 0 \in P, \A i \in 1..n : i - 1 \in P => i \in P
    PROVE  \A i \in 0..n : i \in P
<1> DEFINE R == {ss \in Nat \X Nat : ss[1] < ss[2]}
           Rest == {i \in 0..n : i \notin P}
<1>1. IsWellFoundedOn(R, Nat)
  <2>1. IsWellFoundedOn(OpToRel(<, Nat), Nat)
    BY NatLessThanWellFounded
  <2> QED
    BY <2>1, Zenon DEF OpToRel
<1>2. SUFFICES ASSUME Rest # {} PROVE FALSE
  OBVIOUS
<1>3. Rest \subseteq Nat
  OBVIOUS
<1> HIDE DEF R
<1>4. PICK m \in Rest : \A k \in Rest : <<k, m>> \notin R
  BY <1>1, <1>2, <1>3, WFMin
<1>5. m \in 1..n /\ m - 1 \in 0..n
  OBVIOUS
<1>6. <<m - 1, m>> \in R
  BY <1>5 DEF R
<1>7. m - 1 \in P
  BY <1>4, <1>5, <1>6
<1> QED
  BY <1>5, <1>7

\* A step gives the value at i from that at i - 1.
StepFunctions(n, S) == [(1..n) \X S -> S]
Recursive(f, n, S, first, next) ==
    f \in [0..n -> S] /\ f[0] = first /\ \A i \in 1..n : f[i] = next[<<i, f[i - 1]>>]

\* A first value and a step define a function.
LEMMA RecursiveFunctionExists ==
    ASSUME NEW n \in Nat, NEW S, NEW first \in S, NEW next \in StepFunctions(n, S)
    PROVE  \E f : Recursive(f, n, S, first, next)
<1> DEFINE Defined(f, m) == Recursive(f, m, S, first, next)
           P == {m \in 0..n : \E f : Defined(f, m)}
<1> USE DEF Recursive
<1>1. 0 \in P
  <2>1. Defined([i \in 0..0 |-> first], 0) /\ 0 \in 0..n
    OBVIOUS
  <2> HIDE DEF Defined
  <2> QED
    BY <2>1
<1>2. ASSUME NEW m \in 1..n, m - 1 \in P PROVE m \in P
  <2>0. \E f : Defined(f, m - 1)
    BY <1>2
  <2>1. PICK f : Defined(f, m - 1)
    BY <2>0
  <2> DEFINE g == [i \in 0..m |-> IF i = m THEN next[<<m, f[m - 1]>>] ELSE f[i]]
  <2>2. f[m - 1] \in S
    BY <2>1
  <2>3. next[<<m, f[m - 1]>>] \in S
    BY <2>2 DEF StepFunctions
  <2>4. g \in [0..m -> S]
    BY <2>1, <2>3
  <2>5. g[0] = first /\ g[m] = next[<<m, g[m - 1]>>]
    <3>1. 0 \in 0..m /\ m \in 0..m /\ m - 1 \in 0..m /\ 0 # m /\ m - 1 # m
      OBVIOUS
    <3> QED
      BY <2>1, <3>1
  <2>6. \A i \in 1..m : i # m => i \in 1..(m - 1) /\ i - 1 \in 0..(m - 1) /\ i - 1 # m
    OBVIOUS
  <2>7. \A i \in 1..m : i # m => g[i] = next[<<i, g[i - 1]>>]
    BY <2>1, <2>6
  <2>8. Defined(g, m)
    BY <2>4, <2>5, <2>7
  <2> HIDE DEF Defined
  <2> QED
    BY <2>8
<1> HIDE DEF P
<1>3. \A i \in 0..n : i \in P
  BY <1>1, <1>2, Induction
<1> QED
  BY <1>3 DEF P
-----------------------------------------------------------------------------
(* Arithmetic.                                                               *)

\* Dividing as the buffers do: quotient and remainder make up the number.
LEMMA Division ==
    ASSUME NEW n \in Int, NEW b \in Nat \ {0}
    PROVE  /\ n \div b \in Int /\ n % b \in 0..(b - 1) /\ n = (n \div b) * b + (n % b)
<1>1. n \div b \in Int /\ n % b \in 0..(b - 1)
  OBVIOUS
<1>2. n = b * (n \div b) + (n % b)
  OBVIOUS
<1> QED
  BY <1>1, <1>2

\* There is only one such quotient and remainder.
LEMMA DivisionUnique ==
    ASSUME NEW b \in Nat \ {0}, NEW q \in Int, NEW r \in 0..(b - 1)
    PROVE  (q * b + r) \div b = q /\ (q * b + r) % b = r
OBVIOUS

\* Dividing twice is dividing by the product.
LEMMA DivisionTwice ==
    ASSUME NEW n \in Int, NEW a \in Nat \ {0}, NEW b \in Nat \ {0}
    PROVE  (n \div a) \div b = n \div (a * b)
OBVIOUS

Square == Base * Base
Cube == Base * Base * Base

\* How many numbers fit into one, two, three and four bytes.
LEMMA Spans ==
    /\ Base \in Nat /\ Base > 32 /\ Square \in Nat /\ Cube \in Nat /\ IntSpan \in Nat
    /\ Square = Base * Base /\ Cube = Square * Base /\ IntSpan = Cube * Base
    /\ Square > 32 * Base /\ Cube > 32 * Square /\ IntSpan > 32 * Cube
    /\ IntSpan \div 2 \in Nat /\ IntSpan = 2 * (IntSpan \div 2)
    /\ Square \div 2 \in Nat /\ Square = 2 * (Square \div 2)
<1>1. Base \in Nat /\ Base > 32 /\ Base % 2 = 0
  BY BaseAssumption
<1>2. Square \in Nat /\ Square > 32 * Base
  BY <1>1 DEF Square
<1>3. Cube = Square * Base
  BY <1>1 DEF Square, Cube
<1>4. Cube \in Nat /\ Cube > 32 * Square
  BY <1>1, <1>2, <1>3
<1>5. IntSpan = Cube * Base
  BY <1>1 DEF Cube, IntSpan
<1>6. IntSpan \in Nat /\ IntSpan > 32 * Cube
  <2>1. \A a, b \in Nat : b > 32 /\ a > 0 => a * b > 32 * a
    OBVIOUS
  <2>2. Cube > 0
    BY <1>1, <1>2, <1>4
  <2>3. Cube * Base \in Nat
    BY <1>1, <1>4
  <2> QED
    BY <1>1, <1>4, <1>5, <2>1, <2>2, <2>3
<1>7. PICK h \in Nat : Base = 2 * h
  <2>1. Base = (Base \div 2) * 2 + (Base % 2) /\ Base \div 2 \in Int
    BY <1>1, Division
  <2> QED
    BY <1>1, <2>1
<1>8. ASSUME NEW k \in Nat PROVE (2 * k) \div 2 = k
  OBVIOUS
<1>9. IntSpan \div 2 \in Nat /\ IntSpan = 2 * (IntSpan \div 2)
  <2>1. Cube * h \in Nat /\ IntSpan = 2 * (Cube * h)
    BY <1>4, <1>5, <1>7
  <2> QED
    BY <1>8, <2>1
<1>10. Square \div 2 \in Nat /\ Square = 2 * (Square \div 2)
  <2>1. Base * h \in Nat /\ Square = 2 * (Base * h)
    BY <1>1, <1>7 DEF Square
  <2> QED
    BY <1>8, <2>1
<1> QED
  BY <1>1, <1>2, <1>3, <1>4, <1>5, <1>6, <1>9, <1>10 DEF Square

\* The 32 bits of a shift keep what fits them and nothing of the multiples of
\* their span.
LEMMA WrapProperties ==
    /\ \A n \in Int : Wrap(n) \in Ints /\ \E k \in Int : Wrap(n) = n + k * IntSpan
    /\ \A n \in Ints, k \in Int : Wrap(n + k * IntSpan) = n
    /\ \A n \in Ints : Wrap(n) = n
<1> DEFINE H == IntSpan \div 2
<1>1. H \in Nat /\ IntSpan = 2 * H /\ H > 0 /\ IntSpan \in Nat \ {0} /\ Ints = -H..(H - 1)
  BY Spans DEF Ints
<1> HIDE DEF H
<1>2. \A n \in Int : Wrap(n) = ((n + H) % IntSpan) - H
  BY <1>1 DEF Wrap, H
<1>3. ASSUME NEW n \in Int
      PROVE  Wrap(n) \in Ints /\ \E k \in Int : Wrap(n) = n + k * IntSpan
  <2> DEFINE q == (n + H) \div IntSpan
             r == (n + H) % IntSpan
  <2>1. q \in Int /\ r \in 0..(IntSpan - 1) /\ n + H = q * IntSpan + r
    <3>1. n + H \in Int
      BY <1>1
    <3> QED
      BY <1>1, <3>1, Division
  <2>2. Wrap(n) = r - H
    BY <1>2
  <2> HIDE DEF q, r
  <2>3. Wrap(n) \in Ints
    BY <1>1, <2>1, <2>2
  <2>4. Wrap(n) = n + (-q) * IntSpan /\ -q \in Int
    <3>1. (-q) * IntSpan = -(q * IntSpan) /\ q * IntSpan \in Int
      BY <1>1, <2>1
    <3> QED
      BY <1>1, <2>1, <2>2, <3>1
  <2> QED
    BY <2>3, <2>4
<1>4. ASSUME NEW n \in Ints, NEW k \in Int
      PROVE  Wrap(n + k * IntSpan) = n
  <2>1. k * IntSpan \in Int /\ n \in Int /\ n + H \in 0..(IntSpan - 1)
    BY <1>1
  <2>2. (n + k * IntSpan) + H = k * IntSpan + (n + H) /\ n + k * IntSpan \in Int
    BY <1>1, <2>1
  <2>3. (k * IntSpan + (n + H)) % IntSpan = n + H
    BY <1>1, <2>1, DivisionUnique
  <2>4. Wrap(n + k * IntSpan) = (n + H) - H
    BY <1>2, <2>2, <2>3
  <2> QED
    BY <1>1, <2>1, <2>4
<1>5. ASSUME NEW n \in Ints PROVE Wrap(n) = n
  <2>1. n + 0 * IntSpan = n
    BY <1>1
  <2>2. Wrap(n + 0 * IntSpan) = n
    BY <1>4
  <2> QED
    BY <2>1, <2>2
<1> QED
  BY <1>3, <1>4, <1>5

\* The bytes of a number, the high one first.
Digit(n, k) == WriteNum(n, 4)[k]

\* _writeInt writes the four last digits of a number, negative or not.
LEMMA WriteIntDigits ==
    ASSUME NEW n \in Int
    PROVE  /\ WriteInt(n) = <<Digit(n, 1), Digit(n, 2), Digit(n, 3), Digit(n, 4)>>
           /\ \A k \in 1..4 : Digit(n, k) \in 0..(Base - 1)
           /\ \E q \in Int : n = q * IntSpan + (((Digit(n, 1) * Base + Digit(n, 2)) * Base
                                                    + Digit(n, 3)) * Base + Digit(n, 4))
<1>1. WriteInt(n) = [i \in 1..4 |-> (n \div Place[i]) % Base]
  BY DEF WriteInt, WriteNum
<1>2. /\ Digit(n, 1) = (n \div Cube) % Base /\ Digit(n, 2) = (n \div Square) % Base
      /\ Digit(n, 3) = (n \div Base) % Base /\ Digit(n, 4) = (n \div 1) % Base
  BY DEF Digit, WriteNum, Place, Square, Cube
<1>3. WriteInt(n) = <<Digit(n, 1), Digit(n, 2), Digit(n, 3), Digit(n, 4)>>
  BY <1>1, <1>2 DEF Place, Square, Cube
<1>4. n \div 1 = n
  OBVIOUS
<1> DEFINE a == n \div Base
           b == n \div Square
           c == n \div Cube
           q == n \div IntSpan
<1>5. a \in Int /\ b \in Int /\ c \in Int /\ q \in Int
  BY Spans
<1>7. Base \in Nat \ {0} /\ Square \in Nat \ {0} /\ Cube \in Nat \ {0}
  BY Spans
<1>6. b = a \div Base /\ c = b \div Base /\ q = c \div Base
  <2>1. a \div Base = n \div (Base * Base)
    BY <1>7, DivisionTwice
  <2>2. b \div Base = n \div (Square * Base)
    BY <1>7, DivisionTwice
  <2>3. c \div Base = n \div (Cube * Base)
    BY <1>7, DivisionTwice
  <2> QED
    BY <2>1, <2>2, <2>3, Spans
<1>8. n = a * Base + Digit(n, 4) /\ Digit(n, 4) \in 0..(Base - 1)
  BY <1>2, <1>4, <1>7, Division
<1>9. a = b * Base + Digit(n, 3) /\ Digit(n, 3) \in 0..(Base - 1)
  BY <1>2, <1>5, <1>6, <1>7, Division
<1>10. b = c * Base + Digit(n, 2) /\ Digit(n, 2) \in 0..(Base - 1)
  BY <1>2, <1>5, <1>6, <1>7, Division
<1>11. c = q * Base + Digit(n, 1) /\ Digit(n, 1) \in 0..(Base - 1)
  BY <1>2, <1>5, <1>6, <1>7, Division
<1> HIDE DEF a, b, c, q
<1>12. \A k \in 1..4 : Digit(n, k) \in 0..(Base - 1)
  BY <1>8, <1>9, <1>10, <1>11
<1>13. n = q * IntSpan + (((Digit(n, 1) * Base + Digit(n, 2)) * Base
                                 + Digit(n, 3)) * Base + Digit(n, 4))
  <2>1. ASSUME NEW B \in Nat, NEW x \in Int, NEW d1 \in Int, NEW d2 \in Int, NEW d3 \in Int, NEW d4 \in Int
        PROVE  (((x * B + d1) * B + d2) * B + d3) * B + d4
                  = x * (B * B * B * B) + (((d1 * B + d2) * B + d3) * B + d4)
    OBVIOUS
  <2> QED
    BY <1>5, <1>7, <1>8, <1>9, <1>10, <1>11, <2>1 DEF IntSpan
<1> QED
  BY <1>3, <1>5, <1>12, <1>13

-----------------------------------------------------------------------------
(* Bytes in a buffer.                                                         *)

\* The bytes x lie in the buffer from the offset on.
At(buffer, offset, x) ==
    /\ offset \in Nat /\ offset + Len(x) <= Len(buffer)
    /\ \A i \in 1..Len(x) : buffer[offset + i] = x[i]

\* Where one sequence after another lies, each lies at its place.
LEMMA AtSplit ==
    ASSUME NEW S, NEW buffer \in Seq(S), NEW o, NEW x \in Seq(S), NEW y \in Seq(S),
           At(buffer, o, x \o y)
    PROVE  At(buffer, o, x) /\ At(buffer, o + Len(x), y)
<1>1. /\ Len(x) \in Nat /\ Len(y) \in Nat /\ Len(buffer) \in Nat /\ Len(x \o y) = Len(x) + Len(y)
      /\ \A i \in 1..Len(x) : (x \o y)[i] = x[i]
      /\ \A i \in 1..Len(y) : (x \o y)[Len(x) + i] = y[i]
  OBVIOUS
<1>2. /\ o \in Nat /\ o + Len(x \o y) <= Len(buffer)
      /\ \A i \in 1..Len(x \o y) : buffer[o + i] = (x \o y)[i]
  BY DEF At
<1>3. At(buffer, o, x)
  <2>1. \A i \in 1..Len(x) : i \in 1..Len(x \o y)
    BY <1>1
  <2>2. \A i \in 1..Len(x) : buffer[o + i] = x[i]
    BY <1>1, <1>2, <2>1
  <2>3. o + Len(x) <= Len(buffer)
    BY <1>1, <1>2
  <2> QED
    BY <1>2, <2>2, <2>3 DEF At
<1>4. At(buffer, o + Len(x), y)
  <2>1. \A i \in 1..Len(y) : Len(x) + i \in 1..Len(x \o y) /\ o + (Len(x) + i) = (o + Len(x)) + i
    BY <1>1, <1>2
  <2>2. \A i \in 1..Len(y) : buffer[(o + Len(x)) + i] = y[i]
    BY <1>1, <1>2, <2>1
  <2>3. o + Len(x) \in Nat /\ (o + Len(x)) + Len(y) <= Len(buffer)
    BY <1>1, <1>2
  <2> QED
    BY <2>2, <2>3 DEF At
<1> QED
  BY <1>3, <1>4

\* A buffer lies at its own start.
LEMMA AtWhole ==
    ASSUME NEW S, NEW buffer \in Seq(S)
    PROVE  At(buffer, 0, buffer)
<1>1. Len(buffer) \in Nat /\ 0 + Len(buffer) <= Len(buffer) /\ \A i \in 1..Len(buffer) : buffer[0 + i] = buffer[i]
  OBVIOUS
<1> QED
  BY <1>1 DEF At

\* A sequence of bytes is a function to bytes.
LEMMA BytesProperties ==
    ASSUME NEW x \in Bytes
    PROVE  /\ Len(x) \in Nat /\ DOMAIN x = 1..Len(x)
           /\ \A i \in 1..Len(x) : x[i] \in 0..(Base - 1)
<1> DEFINE D == 0..(Base - 1)
<1>1. x \in Seq(D)
  BY DEF Bytes
<1> HIDE DEF D
<1>2. Len(x) \in Nat /\ DOMAIN x = 1..Len(x) /\ \A i \in 1..Len(x) : x[i] \in D
  BY <1>1
<1> QED
  BY <1>2 DEF D

\* Wherever one reads in a buffer, or beside it, one reads a byte.
LEMMA ByteIsDigit ==
    ASSUME NEW buffer \in Bytes, NEW at \in Int
    PROVE  ByteAt(buffer, at) \in 0..(Base - 1)
<1>1. Base \in Nat /\ Base > 32
  BY Spans
<1>2. Len(buffer) \in Nat /\ \A i \in 1..Len(buffer) : buffer[i] \in 0..(Base - 1)
  BY BytesProperties
<1>3. CASE at \in 0..(Len(buffer) - 1)
  <2>1. at + 1 \in 1..Len(buffer)
    BY <1>2, <1>3
  <2> QED
    BY <1>2, <1>3, <2>1 DEF ByteAt
<1>4. CASE at \notin 0..(Len(buffer) - 1)
  BY <1>1, <1>4 DEF ByteAt
<1> QED
  BY <1>3, <1>4

\* Reading a byte of what lies in a buffer.
LEMMA ByteRead ==
    ASSUME NEW buffer \in Bytes, NEW o, NEW x \in Bytes, At(buffer, o, x), NEW i \in 0..(Len(x) - 1)
    PROVE  ByteAt(buffer, o + i) = x[i + 1]
<1>1. Len(buffer) \in Nat /\ Len(x) \in Nat
  BY DEF Bytes
<1>2. o \in Nat /\ o + Len(x) <= Len(buffer) /\ \A k \in 1..Len(x) : buffer[o + k] = x[k]
  BY DEF At
<1>3. i + 1 \in 1..Len(x) /\ o + i \in 0..(Len(buffer) - 1) /\ (o + i) + 1 = o + (i + 1)
  BY <1>1, <1>2
<1>4. buffer[o + (i + 1)] = x[i + 1]
  BY <1>2, <1>3
<1> QED
  BY <1>3, <1>4 DEF ByteAt

\* The values after each byte of a number.
LEMMA ValuesReadProperties ==
    ASSUME NEW buffer \in Bytes, NEW at \in Int, NEW size \in Nat
    PROVE  /\ \A n \in 0..size : ValuesRead(buffer, at, size)[n] \in Int
           /\ ValuesRead(buffer, at, size)[0] = 0
           /\ \A n \in 1..size : ValuesRead(buffer, at, size)[n] =
                 Wrap(ValuesRead(buffer, at, size)[n - 1] * Base + ByteAt(buffer, at + n - 1))
<1> DEFINE Byte(n) == ByteAt(buffer, at + n - 1)
           Step(f) == [n \in 0..size |-> IF n = 0 THEN 0 ELSE Wrap(f[n - 1] * Base + Byte(n))]
           next == [x \in (1..size) \X Int |-> Wrap(x[2] * Base + Byte(x[1]))]
<1>1. \A n \in 1..size, k \in Int : Wrap(k * Base + Byte(n)) \in Int
  <2> SUFFICES ASSUME NEW n \in 1..size, NEW k \in Int PROVE Wrap(k * Base + Byte(n)) \in Int
    OBVIOUS
  <2>1. at + n - 1 \in Int
    OBVIOUS
  <2>2. Byte(n) \in Int
    BY <2>1, ByteIsDigit
  <2> HIDE DEF Byte
  <2>3. k * Base + Byte(n) \in Int
    BY <2>2, Spans
  <2> QED
    BY <2>3, WrapProperties DEF Ints
<1> HIDE DEF Byte
<1>2. next \in StepFunctions(size, Int)
  BY <1>1 DEF StepFunctions
<1>3. \A n \in 1..size, k \in Int : next[<<n, k>>] = Wrap(k * Base + Byte(n))
  OBVIOUS
<1> HIDE DEF next
<1>4. \A n \in 1..size : n \in 0..size /\ n - 1 \in 0..size /\ n # 0
  OBVIOUS
<1>5. \E f : Recursive(f, size, Int, 0, next)
  <2>1. 0 \in Int
    OBVIOUS
  <2> QED
    BY <1>2, <2>1, RecursiveFunctionExists, Zenon
<1>6. PICK f \in [0..size -> Int] : f[0] = 0 /\ \A n \in 1..size : f[n] = next[<<n, f[n - 1]>>]
  BY <1>5 DEF Recursive
<1>7. f = Step(f)
  <2>1. \A n \in 1..size : f[n] = Wrap(f[n - 1] * Base + Byte(n))
    <3> SUFFICES ASSUME NEW n \in 1..size PROVE f[n] = Wrap(f[n - 1] * Base + Byte(n))
      OBVIOUS
    <3>1. f[n - 1] \in Int
      BY <1>4, <1>6
    <3> QED
      BY <1>3, <1>6, <3>1
  <2>2. \A n \in 0..size : f[n] = Step(f)[n]
    BY <1>6, <2>1
  <2> QED
    BY <1>6, <2>2
<1>8. ValuesRead(buffer, at, size) = CHOOSE g : g = Step(g)
  BY DEF ValuesRead, Byte
<1>9. ValuesRead(buffer, at, size) = Step(ValuesRead(buffer, at, size))
  BY <1>7, <1>8
<1> DEFINE v == ValuesRead(buffer, at, size)
<1>10. v[0] = 0 /\ \A n \in 1..size : v[n] = Wrap(v[n - 1] * Base + Byte(n))
  <2>1. \A g : Step(g)[0] = 0 /\ \A n \in 1..size : Step(g)[n] = Wrap(g[n - 1] * Base + Byte(n))
    BY <1>4
  <2> HIDE DEF Step
  <2> QED
    BY <1>9, <2>1
<1> HIDE DEF v
<1>11. \A n \in 0..size : v[n] \in Int
  <2> DEFINE P == {n \in Nat : v[n] \in Int}
  <2>1. 0 \in P
    BY <1>10
  <2>2. ASSUME NEW n \in 1..size, n - 1 \in P PROVE n \in P
    <3>1. v[n - 1] \in Int
      BY <2>2
    <3>2. v[n] \in Int
      BY <1>1, <1>10, <3>1
    <3> QED
      BY <3>2
  <2> HIDE DEF P
  <2>3. \A n \in 0..size : n \in P
    BY <2>1, <2>2, Induction
  <2> QED
    BY <2>3 DEF P
<1> QED
  BY <1>10, <1>11 DEF v, Byte

-----------------------------------------------------------------------------
(* Numbers.                                                                   *)

\* The writers of numbers write as many bytes as they reserve.
LEMMA WriteNumIsBytes ==
    ASSUME NEW n \in Int, NEW size \in {1, 2, 4}
    PROVE  WriteNum(n, size) \in Bytes /\ Len(WriteNum(n, size)) = size
<1>1. \A i \in 1..size : Place[4 - size + i] \in Nat \ {0}
  <2>1. Place[1] = Cube /\ Place[2] = Square /\ Place[3] = Base /\ Place[4] = 1
    BY DEF Place, Cube, Square
  <2>2. Place[1] \in Nat \ {0} /\ Place[2] \in Nat \ {0} /\ Place[3] \in Nat \ {0} /\ Place[4] \in Nat \ {0}
    BY <2>1, Spans
  <2>3. \A i \in 1..size : 4 - size + i \in {1, 2, 3, 4}
    OBVIOUS
  <2> QED
    BY <2>2, <2>3
<1>2. \A i \in 1..size : (n \div Place[4 - size + i]) % Base \in 0..(Base - 1)
  <2> SUFFICES ASSUME NEW i \in 1..size PROVE (n \div Place[4 - size + i]) % Base \in 0..(Base - 1)
    OBVIOUS
  <2>1. n \div Place[4 - size + i] \in Int
    BY <1>1, Division
  <2>2. Base \in Nat \ {0}
    BY Spans
  <2> QED
    BY <2>1, <2>2, Division
<1> DEFINE D == 0..(Base - 1)
           e(i) == (n \div Place[4 - size + i]) % Base
<1>3. WriteNum(n, size) = [i \in 1..size |-> e(i)] /\ \A i \in 1..size : e(i) \in D
  BY <1>2 DEF WriteNum
<1> HIDE DEF D, e
<1>4. WriteNum(n, size) \in Seq(D) /\ Len(WriteNum(n, size)) = size
  BY <1>3
<1> QED
  BY <1>4 DEF D, Bytes

\* So does _writeInt.
LEMMA WriteIntIsBytes ==
    ASSUME NEW n \in Int
    PROVE  WriteInt(n) \in Bytes /\ Len(WriteInt(n)) = 4
BY WriteNumIsBytes DEF WriteInt

\* Bytes behind bytes are bytes.
LEMMA BytesConcat ==
    ASSUME NEW x \in Bytes, NEW y \in Bytes
    PROVE  x \o y \in Bytes /\ Len(x \o y) = Len(x) + Len(y) /\ Len(x) \in Nat /\ Len(y) \in Nat
<1> DEFINE D == 0..(Base - 1)
<1>1. x \in Seq(D) /\ y \in Seq(D)
  BY DEF Bytes
<1> HIDE DEF D
<1>2. x \o y \in Seq(D) /\ Len(x \o y) = Len(x) + Len(y) /\ Len(x) \in Nat /\ Len(y) \in Nat
  BY <1>1
<1> QED
  BY <1>2 DEF D, Bytes

\* AtSplit, for bytes.
LEMMA BytesAt ==
    ASSUME NEW buffer \in Bytes, NEW o, NEW x \in Bytes, NEW y \in Bytes, At(buffer, o, x \o y)
    PROVE  At(buffer, o, x) /\ At(buffer, o + Len(x), y)
BY AtSplit DEF Bytes

\* Nothing of what was wrapped before survives in the remainder.
LEMMA WrapStep ==
    ASSUME NEW x \in Int, NEW y \in Int
    PROVE  Wrap(Wrap(x) * Base + y) = Wrap(x * Base + y)
<1>1. Base \in Nat /\ IntSpan \in Nat
  BY Spans
<1>2. PICK k \in Int : Wrap(x) = x + k * IntSpan
  BY WrapProperties
<1>3. x * Base + y \in Int
  BY <1>1
<1>4. PICK m \in Int : Wrap(x * Base + y) = (x * Base + y) + m * IntSpan
  BY <1>3, WrapProperties
<1> DEFINE w == Wrap(x * Base + y)
<1>5. w \in Ints /\ w \in Int
  BY <1>3, WrapProperties DEF Ints
<1>6. Wrap(x) * Base + y = w + (k * Base - m) * IntSpan
  <2>1. ASSUME NEW B \in Int, NEW I \in Int, NEW ww \in Int, ww = (x * B + y) + m * I
        PROVE  (x + k * I) * B + y = ww + (k * B - m) * I
    <3>1. (x + k * I) * B = x * B + (k * B) * I
      OBVIOUS
    <3>2. (k * B - m) * I = (k * B) * I - m * I
      OBVIOUS
    <3> QED
      BY <2>1, <3>1, <3>2
  <2> QED
    BY <1>1, <1>2, <1>4, <1>5, <2>1
<1> HIDE DEF w
<1>7. k * Base - m \in Int
  BY <1>1
<1>8. Wrap(w + (k * Base - m) * IntSpan) = w
  BY <1>5, <1>7, WrapProperties
<1> QED
  BY <1>6, <1>8 DEF w

\* Four bytes leave nothing of what was read before them.
LEMMA FourBytes ==
    ASSUME NEW n \in Int, NEW v0 \in Int,
           NEW v1, v1 = Wrap(v0 * Base + Digit(n, 1)), NEW v2, v2 = Wrap(v1 * Base + Digit(n, 2)),
           NEW v3, v3 = Wrap(v2 * Base + Digit(n, 3)), NEW v4, v4 = Wrap(v3 * Base + Digit(n, 4))
    PROVE  v4 = Wrap(n)
<1> DEFINE d(k) == Digit(n, k)
<1>1. d(1) \in Int /\ d(2) \in Int /\ d(3) \in Int /\ d(4) \in Int
  BY WriteIntDigits
<1>2. PICK q \in Int : n = q * IntSpan + (((d(1) * Base + d(2)) * Base + d(3)) * Base + d(4))
  BY WriteIntDigits
<1>3. v1 = Wrap(v0 * Base + d(1)) /\ v2 = Wrap(v1 * Base + d(2)) /\ v3 = Wrap(v2 * Base + d(3)) /\ v4 = Wrap(v3 * Base + d(4))
  OBVIOUS
<1> HIDE DEF d
<1>4. Base \in Nat /\ IntSpan \in Nat /\ IntSpan = Base * Base * Base * Base
  BY Spans DEF IntSpan
<1> DEFINE x1 == v0 * Base + d(1)
           x2 == x1 * Base + d(2)
           x3 == x2 * Base + d(3)
           x4 == x3 * Base + d(4)
<1>5. x1 \in Int /\ x2 \in Int /\ x3 \in Int /\ x4 \in Int
  BY <1>1, <1>4
<1>6. x4 = n + (v0 - q) * IntSpan /\ v0 - q \in Int
  <2>1. ASSUME NEW B \in Int, NEW d1 \in Int, NEW d2 \in Int, NEW d3 \in Int, NEW d4 \in Int,
               NEW m \in Int, m = q * (B * B * B * B) + (((d1 * B + d2) * B + d3) * B + d4)
        PROVE  (((v0 * B + d1) * B + d2) * B + d3) * B + d4 = m + (v0 - q) * (B * B * B * B)
    <3>1. (((v0 * B + d1) * B + d2) * B + d3) * B + d4
             = v0 * (B * B * B * B) + (((d1 * B + d2) * B + d3) * B + d4)
      OBVIOUS
    <3>2. (v0 - q) * (B * B * B * B) = v0 * (B * B * B * B) - q * (B * B * B * B)
      OBVIOUS
    <3> QED
      BY <2>1, <3>1, <3>2
  <2> QED
    BY <1>1, <1>2, <1>4, <2>1
<1> HIDE DEF x1
<1>7. v2 = Wrap(x2)
  BY <1>1, <1>3, <1>5, WrapStep DEF x1
<1> HIDE DEF x2
<1>8. v3 = Wrap(x3)
  BY <1>1, <1>3, <1>5, <1>7, WrapStep DEF x2
<1> HIDE DEF x3
<1>9. v4 = Wrap(x4)
  BY <1>1, <1>3, <1>5, <1>8, WrapStep DEF x3
<1> HIDE DEF x4
<1>10. PICK k \in Int : Wrap(n) = n + k * IntSpan
  BY WrapProperties
<1>11. Wrap(n) \in Ints /\ Wrap(n) \in Int
  BY WrapProperties DEF Ints
<1> DEFINE w == Wrap(n)
           m == (v0 - q) - k
<1>12. x4 = w + m * IntSpan /\ m \in Int
  <2>1. m * IntSpan = (v0 - q) * IntSpan - k * IntSpan /\ k * IntSpan \in Int /\ (v0 - q) * IntSpan \in Int
    BY <1>4, <1>6
  <2> QED
    BY <1>6, <1>10, <1>11, <2>1
<1> HIDE DEF w, m
<1>13. Wrap(w + m * IntSpan) = w
  BY <1>11, <1>12, WrapProperties DEF w
<1> QED
  BY <1>9, <1>12, <1>13 DEF w

\* The four bytes read of a number that was written are its digits.
LEMMA IntBytes ==
    ASSUME NEW buffer \in Bytes, NEW o, NEW n \in Int, At(buffer, o, WriteInt(n))
    PROVE  /\ o \in Nat
           /\ ByteAt(buffer, o) = Digit(n, 1) /\ ByteAt(buffer, o + 1) = Digit(n, 2)
           /\ ByteAt(buffer, o + 2) = Digit(n, 3) /\ ByteAt(buffer, o + 3) = Digit(n, 4)
<1>1. o \in Nat
  BY DEF At
<1>2. WriteInt(n) \in Bytes /\ Len(WriteInt(n)) = 4 /\ 4 - 1 = 3
  BY WriteIntIsBytes
<1>3. \A i \in 0..3 : ByteAt(buffer, o + i) = WriteInt(n)[i + 1]
  BY <1>2, ByteRead, ZenonT(40)
<1>4. /\ ByteAt(buffer, o + 0) = WriteInt(n)[1] /\ ByteAt(buffer, o + 1) = WriteInt(n)[2]
      /\ ByteAt(buffer, o + 2) = WriteInt(n)[3] /\ ByteAt(buffer, o + 3) = WriteInt(n)[4]
  <2>1. 0 \in 0..3 /\ 1 \in 0..3 /\ 2 \in 0..3 /\ 3 \in 0..3
    OBVIOUS
  <2>2. 0 + 1 = 1 /\ 1 + 1 = 2 /\ 2 + 1 = 3 /\ 3 + 1 = 4
    OBVIOUS
  <2> QED
    BY <1>3, <2>1, <2>2, Zenon
<1>5. o + 0 = o
  BY <1>1
<1> QED
  BY <1>1, <1>4, <1>5 DEF Digit, WriteInt

\* _parseInt reads a number of four bytes as _writeInt wrote it, with its sign,
\* wherever it lies in the buffer.
THEOREM IntRead ==
    ASSUME NEW buffer \in Bytes, NEW o, NEW n \in Ints, At(buffer, o, WriteInt(n))
    PROVE  ParseInt(buffer, o) = ReadAs(n, o + 4)
<1> DEFINE v == ValuesRead(buffer, o, 4)
<1>1. n \in Int
  BY DEF Ints
<1>2. /\ o \in Nat
      /\ ByteAt(buffer, o) = Digit(n, 1) /\ ByteAt(buffer, o + 1) = Digit(n, 2)
      /\ ByteAt(buffer, o + 2) = Digit(n, 3) /\ ByteAt(buffer, o + 3) = Digit(n, 4)
  BY <1>1, IntBytes
<1>3. /\ v[0] = 0 /\ v[1] = Wrap(v[0] * Base + ByteAt(buffer, o + 1 - 1))
      /\ v[2] = Wrap(v[1] * Base + ByteAt(buffer, o + 2 - 1))
      /\ v[3] = Wrap(v[2] * Base + ByteAt(buffer, o + 3 - 1))
      /\ v[4] = Wrap(v[3] * Base + ByteAt(buffer, o + 4 - 1))
  BY <1>2, ValuesReadProperties
<1> HIDE DEF v
<1>4. o + 1 - 1 = o /\ o + 2 - 1 = o + 1 /\ o + 3 - 1 = o + 2 /\ o + 4 - 1 = o + 3
  BY <1>2
<1>5. v[4] = Wrap(n)
  BY <1>1, <1>2, <1>3, <1>4, FourBytes
<1>6. v[4] = n
  BY <1>5, WrapProperties
<1> QED
  BY <1>6 DEF ParseInt, ParseNum, v

\* _parseShort reads a number of two bytes as _writeShort wrote it, but without a
\* sign: parseNum() makes one of the 32nd bit only.
THEOREM ShortRead ==
    ASSUME NEW buffer \in Bytes, NEW o, NEW n \in Words, At(buffer, o, WriteNum(n, 2))
    PROVE  ParseShort(buffer, o) = ReadAs(n, o + 2)
<1> DEFINE v == ValuesRead(buffer, o, 2)
           h == (n \div Base) % Base
           l == n % Base
<1>1. n \in Int /\ o \in Nat /\ n \in 0..(Square - 1) /\ Base \in Nat \ {0}
  BY Spans DEF Words, At
<1>2. WriteNum(n, 2) \in Bytes /\ Len(WriteNum(n, 2)) = 2 /\ 2 - 1 = 1
  BY <1>1, WriteNumIsBytes
<1>3. WriteNum(n, 2)[1] = h /\ WriteNum(n, 2)[2] = l
  <2>1. n \div 1 = n
    BY <1>1
  <2> QED
    BY <2>1 DEF WriteNum, Place
<1>4. h = n \div Base /\ h \in 0..(Base - 1) /\ l \in 0..(Base - 1) /\ n = h * Base + l
  <2> DEFINE q == n \div Base
  <2>1. q \in Int /\ l \in 0..(Base - 1) /\ n = q * Base + l
    BY <1>1, Division
  <2> HIDE DEF q, l
  <2>2. q \in 0..(Base - 1)
    <3>1. ASSUME q < 0 PROVE FALSE
      <4>1. q * Base <= -Base
        BY <1>1, <2>1, <3>1
      <4> QED
        BY <1>1, <2>1, <4>1
    <3>2. ASSUME q >= Base PROVE FALSE
      <4>1. q * Base >= Base * Base
        BY <1>1, <2>1, <3>2
      <4> QED
        BY <1>1, <2>1, <4>1, Spans
    <3> QED
      BY <1>1, <2>1, <3>1, <3>2
  <2>3. q % Base = q
    <3>1. (0 * Base + q) % Base = q
      BY <1>1, <2>2, DivisionUnique
    <3>2. 0 * Base + q = q
      BY <1>1, <2>1
    <3> QED
      BY <3>1, <3>2
  <2> QED
    BY <2>1, <2>2, <2>3 DEF q
<1> HIDE DEF h, l
<1>5. ByteAt(buffer, o) = h /\ ByteAt(buffer, o + 1) = l
  <2>1. \A i \in 0..1 : ByteAt(buffer, o + i) = WriteNum(n, 2)[i + 1]
    BY <1>2, ByteRead
  <2>2. ByteAt(buffer, o + 0) = WriteNum(n, 2)[1] /\ ByteAt(buffer, o + 1) = WriteNum(n, 2)[2] /\ o + 0 = o
    BY <1>1, <2>1
  <2> QED
    BY <1>3, <2>2
<1>6. /\ v[0] = 0 /\ v[1] = Wrap(v[0] * Base + ByteAt(buffer, o + 1 - 1))
      /\ v[2] = Wrap(v[1] * Base + ByteAt(buffer, o + 2 - 1))
  BY <1>1, ValuesReadProperties
<1> HIDE DEF v
<1>7. o + 1 - 1 = o /\ o + 2 - 1 = o + 1
  BY <1>1
<1>8. h \in Ints /\ n \in Ints
  <2>1. /\ IntSpan \div 2 \in Nat /\ Square <= IntSpan \div 2 /\ Base <= IntSpan \div 2
        /\ Ints = -(IntSpan \div 2)..(IntSpan \div 2 - 1)
    BY Spans DEF Ints
  <2> QED
    BY <1>1, <1>4, <2>1, Spans
<1>9. v[1] = h
  <2>1. 0 * Base + h = h
    BY <1>1, <1>4
  <2> QED
    BY <1>5, <1>6, <1>7, <1>8, <2>1, WrapProperties
<1>10. v[2] = n
  BY <1>4, <1>5, <1>6, <1>7, <1>8, <1>9, WrapProperties
<1> QED
  BY <1>10 DEF ParseShort, ParseNum, v

\* _parseLong passes over eight bytes, and reads the number they say if its high half
\* is the sign of the low one: parseNum() has but 32 bits.
THEOREM LongRead ==
    ASSUME NEW buffer \in Bytes, NEW o, NEW long \in LongInts(Ints),
           At(buffer, o, WriteInt(long.hi) \o WriteInt(long.lo))
    PROVE  /\ ParseLong(buffer, o).offset = o + 8
           /\ long.hi = (IF long.lo < IntSpan \div 2 THEN 0 ELSE -1) => ParseLong(buffer, o).value = long
<1> DEFINE v == ValuesRead(buffer, o, 8)
           H == IntSpan \div 2
<1>1. /\ long.hi \in Int /\ long.lo \in Int /\ long.lo \in 0..(IntSpan - 1)
      /\ long = [hi |-> long.hi, lo |-> long.lo] /\ H \in Nat /\ IntSpan = 2 * H /\ H > 0 /\ Ints = -H..(H - 1)
  BY Spans DEF LongInts, Ints
<1>0. IntSpan \in Nat \ {0}
  BY Spans
<1>m. \A m \in Int, q \in Int, r \in 0..(IntSpan - 1) : m = q * IntSpan + r => m % IntSpan = r
  BY <1>0, DivisionUnique
<1> HIDE DEF H
<1>2. At(buffer, o, WriteInt(long.hi)) /\ At(buffer, o + 4, WriteInt(long.lo))
  <2>1. /\ WriteInt(long.hi) \in Bytes /\ Len(WriteInt(long.hi)) = 4
        /\ WriteInt(long.lo) \in Bytes /\ Len(WriteInt(long.lo)) = 4
    BY <1>1, WriteIntIsBytes
  <2> QED
    BY <2>1, BytesAt
<1>3. /\ o \in Nat
      /\ ByteAt(buffer, o + 4) = Digit(long.lo, 1) /\ ByteAt(buffer, (o + 4) + 1) = Digit(long.lo, 2)
      /\ ByteAt(buffer, (o + 4) + 2) = Digit(long.lo, 3) /\ ByteAt(buffer, (o + 4) + 3) = Digit(long.lo, 4)
  BY <1>1, <1>2, IntBytes, ZenonT(40) DEF At
<1>4. /\ v[4] \in Int /\ v[5] = Wrap(v[4] * Base + ByteAt(buffer, o + 5 - 1))
      /\ v[6] = Wrap(v[5] * Base + ByteAt(buffer, o + 6 - 1))
      /\ v[7] = Wrap(v[6] * Base + ByteAt(buffer, o + 7 - 1))
      /\ v[8] = Wrap(v[7] * Base + ByteAt(buffer, o + 8 - 1))
  BY <1>3, ValuesReadProperties
<1> HIDE DEF v
<1>5. o + 5 - 1 = o + 4 /\ o + 6 - 1 = (o + 4) + 1 /\ o + 7 - 1 = (o + 4) + 2 /\ o + 8 - 1 = (o + 4) + 3
  BY <1>3
<1>6. v[8] = Wrap(long.lo)
  BY <1>1, <1>3, <1>4, <1>5, FourBytes
<1> DEFINE n == v[8]
<1>7. ParseLong(buffer, o) = ReadAs([hi |-> IF n < 0 THEN -1 ELSE 0, lo |-> n % IntSpan], o + 8)
  BY DEF ParseLong, ParseNum, ReadAs, v
<1>8. CASE long.lo < H
  <2>1. n = long.lo /\ ~ (n < 0)
    <3>1. long.lo \in Ints
      BY <1>1, <1>8
    <3> QED
      BY <1>1, <1>6, <3>1, WrapProperties
  <2>2. n % IntSpan = long.lo
    <3>1. long.lo = 0 * IntSpan + long.lo
      BY <1>0, <1>1
    <3> QED
      BY <1>1, <1>m, <2>1, <3>1
  <2> HIDE DEF n
  <2> QED
    BY <1>1, <1>7, <1>8, <2>1, <2>2 DEF ReadAs
<1>9. CASE ~ (long.lo < H)
  <2>1. long.lo - IntSpan \in Ints /\ long.lo = (long.lo - IntSpan) + 1 * IntSpan
    BY <1>1, <1>9
  <2>2. n = long.lo - IntSpan
    BY <1>6, <2>1, WrapProperties
  <2>3. n < 0
    BY <1>1, <2>2
  <2>4. n % IntSpan = long.lo
    <3>1. PICK q \in Int : q = -1
      OBVIOUS
    <3>2. long.lo - IntSpan = q * IntSpan + long.lo /\ long.lo - IntSpan \in Int
      BY <1>0, <1>1, <3>1
    <3> HIDE <3>1
    <3>3. (long.lo - IntSpan) % IntSpan = long.lo
      BY <1>1, <1>m, <3>2
    <3> QED
      BY <2>2, <3>3
  <2> HIDE DEF n
  <2> QED
    BY <1>1, <1>7, <1>9, <2>3, <2>4 DEF ReadAs
<1> QED
  BY <1>7, <1>8, <1>9 DEF H, ReadAs

-----------------------------------------------------------------------------
(* Texts.                                                                     *)

\* What slice() cuts out of a buffer is bytes, wherever it cuts.
LEMMA SliceIsBytes ==
    ASSUME NEW buffer \in Bytes, NEW at \in Int, NEW size \in Int
    PROVE  Slice(buffer, at, size) \in Bytes
<1>1. \A i \in Int : Index(buffer, i) \in 0..Len(buffer)
  BY BytesProperties DEF Index
<1> DEFINE D == 0..(Base - 1)
<1>2. buffer \in Seq(D)
  BY DEF Bytes
<1> HIDE DEF D
<1>3. ASSUME NEW f \in 0..Len(buffer), NEW t \in 0..Len(buffer) PROVE SubSeq(buffer, f + 1, t) \in Seq(D)
  <2>1. \A i \in (f + 1)..t : i \in 1..Len(buffer)
    BY <1>2
  <2> QED
    BY <1>2, <2>1, SubSeqProperties
<1>4. Slice(buffer, at, size) \in Seq(D)
  <2>1. at + size \in Int
    OBVIOUS
  <2> QED
    BY <1>1, <1>3, <2>1 DEF Slice
<1> QED
  BY <1>4 DEF Bytes, D

\* slice() gets what lies in the buffer.
LEMMA SliceRead ==
    ASSUME NEW buffer \in Bytes, NEW o, NEW x \in Bytes, At(buffer, o, x)
    PROVE  Slice(buffer, o, Len(x)) = x
<1>1. /\ Len(buffer) \in Nat /\ Len(x) \in Nat /\ o \in Nat /\ o + Len(x) <= Len(buffer)
      /\ \A i \in 1..Len(x) : buffer[o + i] = x[i]
  BY BytesProperties DEF At
<1>2. Index(buffer, o) = o /\ Index(buffer, o + Len(x)) = o + Len(x)
  BY <1>1 DEF Index
<1>3. Slice(buffer, o, Len(x)) = SubSeq(buffer, o + 1, o + Len(x))
  BY <1>2 DEF Slice
<1> DEFINE D == 0..(Base - 1)
<1>4. buffer \in Seq(D) /\ x \in Seq(D)
  BY DEF Bytes
<1> HIDE DEF D
<1>5. /\ SubSeq(buffer, o + 1, o + Len(x)) \in Seq(D) /\ Len(SubSeq(buffer, o + 1, o + Len(x))) = Len(x)
      /\ \A i \in 1..Len(x) : SubSeq(buffer, o + 1, o + Len(x))[i] = buffer[o + i]
  <2>1. \A i \in (o + 1)..(o + Len(x)) : i \in 1..Len(buffer)
    BY <1>1
  <2>2. SubSeq(buffer, o + 1, o + Len(x)) = [i \in 1..Len(x) |-> buffer[o + i]]
    BY <1>1, <1>4, <2>1, SubSeqProperties
  <2>3. \A i \in 1..Len(x) : buffer[o + i] \in D
    BY <1>1, <1>4
  <2> DEFINE part == SubSeq(buffer, o + 1, o + Len(x))
  <2>4. part = [i \in 1..Len(x) |-> buffer[o + i]]
    BY <2>2
  <2> HIDE DEF part
  <2>5. part \in Seq(D) /\ Len(part) = Len(x) /\ \A i \in 1..Len(x) : part[i] = buffer[o + i]
    BY <1>1, <2>3, <2>4
  <2> QED
    BY <2>5 DEF part
<1>6. SubSeq(buffer, o + 1, o + Len(x)) = x
  BY <1>1, <1>4, <1>5, SeqEqual
<1> QED
  BY <1>3, <1>6

\* _parseNullTerminatedString reads the text that lies in the buffer and passes over
\* the zero behind it.
THEOREM TextRead ==
    ASSUME NEW buffer \in Bytes, NEW o, NEW x \in Bytes, At(buffer, o, x)
    PROVE  ParseNullTerminatedString(buffer, o, Len(x) + 1) = ReadAs(x, o + (Len(x) + 1))
<1>1. Len(x) \in Nat /\ ~ (Len(x) + 1 <= 0) /\ (Len(x) + 1) - 1 = Len(x)
  BY BytesProperties
<1> QED
  BY <1>1, SliceRead DEF ParseNullTerminatedString

-----------------------------------------------------------------------------
(* Parts in a row.                                                            *)

\* The parts up to each one, joined, and their length.
Joined(parts) == CHOOSE f : f = [i \in 1..Len(parts) |-> IF i = 1 THEN parts[i] ELSE f[i - 1] \o parts[i]]
Start(parts, k) == IF k = 0 THEN 0 ELSE Len(Joined(parts)[k])

\* Joining one part after the other gives them all.
LEMMA JoinedLists ==
    ASSUME NEW S, NEW lists, lists = Seq(S), NEW parts \in Seq(lists)
    PROVE  /\ \A i \in 1..Len(parts) : Joined(parts)[i] \in lists
           /\ Len(parts) > 0 => Joined(parts)[1] = parts[1]
           /\ \A i \in 2..Len(parts) : Joined(parts)[i] = Joined(parts)[i - 1] \o parts[i]
           /\ FlattenSeq(parts) = IF Len(parts) = 0 THEN <<>> ELSE Joined(parts)[Len(parts)]
<1> DEFINE n == Len(parts)
           Step(f) == [i \in 1..n |-> IF i = 1 THEN parts[i] ELSE f[i - 1] \o parts[i]]
           next == [x \in (1..n) \X lists |-> x[2] \o parts[x[1]]]
<1>1. n \in Nat /\ \A i \in 1..n : parts[i] \in lists
  OBVIOUS
<1>2. <<>> \in lists
  OBVIOUS
<1>3. \A i \in 1..n, x \in lists : x \o parts[i] \in lists
  BY <1>1
<1>4. next \in StepFunctions(n, lists)
  BY <1>3 DEF StepFunctions
<1>5. \A i \in 1..n, x \in lists : next[<<i, x>>] = x \o parts[i]
  OBVIOUS
<1> HIDE DEF next
<1>6. \E f : Recursive(f, n, lists, <<>>, next)
  <2> HIDE DEF n
  <2> QED
    BY <1>1, <1>2, <1>4, RecursiveFunctionExists, Zenon
<1>7. PICK f \in [0..n -> lists] : f[0] = <<>> /\ \A i \in 1..n : f[i] = next[<<i, f[i - 1]>>]
  BY <1>6 DEF Recursive
<1>8. \A i \in 1..n : i \in 0..n /\ i - 1 \in 0..n /\ (i # 1 => i - 1 \in 1..n)
  BY <1>1
<1>9. \A i \in 1..n : f[i] = f[i - 1] \o parts[i]
  BY <1>5, <1>7, <1>8
<1> DEFINE g == [i \in 1..n |-> f[i]]
<1>10. g = Step(g)
  <2>1. ASSUME NEW i \in 1..n PROVE g[i] = IF i = 1 THEN parts[i] ELSE g[i - 1] \o parts[i]
    <3>1. CASE i = 1
      <4>0. i - 1 = 0 /\ f[i] = f[i - 1] \o parts[i]
        <5>1. f[i] = f[i - 1] \o parts[i]
          BY <1>9
        <5>2. i - 1 = 0
          BY <3>1
        <5> QED
          BY <5>1, <5>2
      <4>1. f[1] = <<>> \o parts[1]
        BY <1>7, <4>0, <3>1
      <4>2. <<>> \o parts[1] = parts[1]
        <5>1. parts[1] \in Seq(S)
          BY <1>1, <3>1
        <5> QED
          BY <5>1, ConcatEmptySeq
      <4>3. g[i] = f[i]
        OBVIOUS
      <4> QED
        BY <3>1, <4>1, <4>2, <4>3
    <3>2. CASE i # 1
      <4>1. g[i - 1] = f[i - 1] /\ g[i] = f[i]
        BY <1>8, <3>2
      <4> QED
        BY <1>9, <3>2, <4>1
    <3> QED
      BY <3>1, <3>2
  <2> QED
    BY <2>1
<1>11. Joined(parts) = CHOOSE h : h = Step(h)
  BY DEF Joined
<1> HIDE DEF g
<1>12. Joined(parts) = Step(Joined(parts))
  <2> HIDE DEF Step
  <2> QED
    BY <1>10, <1>11
<1> DEFINE j == Joined(parts)
<1>13. \A i \in 1..n : j[i] = IF i = 1 THEN parts[i] ELSE j[i - 1] \o parts[i]
  <2>1. \A h : \A i \in 1..n : Step(h)[i] = IF i = 1 THEN parts[i] ELSE h[i - 1] \o parts[i]
    OBVIOUS
  <2> HIDE DEF Step
  <2> QED
    BY <1>12, <2>1
<1> HIDE DEF j
<1>14. \A i \in 1..n : j[i] \in lists
  <2> DEFINE P == {i \in Nat : i \in 1..n => j[i] \in lists}
  <2>1. 0 \in P
    OBVIOUS
  <2>2. ASSUME NEW i \in 1..n, i - 1 \in P PROVE i \in P
    <3>1. CASE i = 1
      BY <1>1, <1>13, <3>1
    <3>2. CASE i # 1
      <4>1. j[i - 1] \in lists
        BY <1>8, <2>2, <3>2
      <4> QED
        <5>1. j[i - 1] \o parts[i] \in lists
          BY <1>3, <4>1
        <5>2. j[i] = j[i - 1] \o parts[i]
          BY <1>13, <3>2
        <5>3. j[i] \in lists
          BY <5>1, <5>2
        <5>4. i \in Nat
          BY <1>1
        <5> QED
          BY <5>3, <5>4
    <3> QED
      BY <3>1, <3>2
  <2> HIDE DEF P
  <2>3. \A i \in 0..n : i \in P
    BY <1>1, <2>1, <2>2, Induction
  <2> QED
    BY <1>8, <2>3 DEF P
<1>15. FlattenSeq(parts) = IF n = 0 THEN parts ELSE j[n]
  BY DEF FlattenSeq, Joined, j
<1>16. n = 0 => parts = <<>>
  OBVIOUS
<1>17. n > 0 => j[1] = parts[1]
  <2>1. n > 0 => 1 \in 1..n
    BY <1>1
  <2> QED
    BY <1>13, <2>1
<1>18. \A i \in 2..n : j[i] = j[i - 1] \o parts[i]
  <2>1. \A i \in 2..n : i \in 1..n /\ i # 1
    BY <1>1
  <2> HIDE DEF n
  <2> QED
    BY <1>13, <2>1
<1>19. FlattenSeq(parts) = IF n = 0 THEN <<>> ELSE j[n]
  BY <1>15, <1>16
<1> QED
  BY <1>14, <1>17, <1>18, <1>19 DEF j

\* The same of parts that are bytes.
LEMMA JoinedProperties ==
    ASSUME NEW parts \in Seq(Bytes)
    PROVE  /\ \A i \in 1..Len(parts) : Joined(parts)[i] \in Bytes
           /\ Len(parts) > 0 => Joined(parts)[1] = parts[1]
           /\ \A i \in 2..Len(parts) : Joined(parts)[i] = Joined(parts)[i - 1] \o parts[i]
           /\ FlattenSeq(parts) = IF Len(parts) = 0 THEN <<>> ELSE Joined(parts)[Len(parts)]
<1>1. Bytes = Seq(0..(Base - 1))
  BY DEF Bytes
<1> QED
  BY <1>1, JoinedLists

\* The first k parts, joined.
FirstParts(parts, k) == IF k = 0 THEN <<>> ELSE Joined(parts)[k]

\* Each part adds itself to those before it.
LEMMA FirstPartsProperties ==
    ASSUME NEW S, NEW parts \in Seq(Seq(S))
    PROVE  /\ FirstParts(parts, 0) = <<>>
           /\ \A k \in 0..Len(parts) : FirstParts(parts, k) \in Seq(S)
           /\ \A k \in 1..Len(parts) : FirstParts(parts, k) = FirstParts(parts, k - 1) \o parts[k]
           /\ FlattenSeq(parts) = FirstParts(parts, Len(parts))
<1> DEFINE lists == Seq(S)
           n == Len(parts)
           j == Joined(parts)
<1>1. lists = Seq(S) /\ parts \in Seq(lists) /\ n \in Nat
  OBVIOUS
<1> HIDE DEF lists
<1>2. /\ \A i \in 1..n : j[i] \in lists
      /\ n > 0 => j[1] = parts[1]
      /\ \A i \in 2..n : j[i] = j[i - 1] \o parts[i]
      /\ FlattenSeq(parts) = IF n = 0 THEN <<>> ELSE j[n]
  BY <1>1, JoinedLists
<1>3. FirstParts(parts, 0) = <<>> /\ \A k \in 1..n : FirstParts(parts, k) = j[k]
  BY <1>1 DEF FirstParts
<1>4. \A i \in 1..n : parts[i] \in lists
  BY <1>1
<1> HIDE DEF j, n
<1>5. ASSUME NEW k \in 1..n PROVE FirstParts(parts, k) = FirstParts(parts, k - 1) \o parts[k]
  <2>1. CASE k = 1
    <3>1. k - 1 = 0 /\ n > 0 /\ parts[k] \in Seq(S)
      BY <1>1, <1>4, <2>1
    <3>2. <<>> \o parts[k] = parts[k]
      BY <3>1, ConcatEmptySeq
    <3> QED
      BY <1>2, <1>3, <2>1, <3>1, <3>2
  <2>2. CASE k # 1
    <3>1. k \in 2..n /\ k - 1 \in 1..n
      BY <1>1, <2>2
    <3> QED
      BY <1>2, <1>3, <3>1
  <2> QED
    BY <2>1, <2>2
<1>6. ASSUME NEW k \in 0..n PROVE FirstParts(parts, k) \in Seq(S)
  <2>1. k = 0 \/ k \in 1..n
    BY <1>1
  <2>2. <<>> \in Seq(S)
    OBVIOUS
  <2>3. k \in 1..n => FirstParts(parts, k) = j[k] /\ j[k] \in Seq(S)
    BY <1>1, <1>2, <1>3
  <2> QED
    BY <1>3, <2>1, <2>2, <2>3
<1>7. FlattenSeq(parts) = FirstParts(parts, n)
  <2>1. n = 0 \/ n \in 1..n
    BY <1>1
  <2> QED
    BY <1>2, <1>3, <2>1
<1> QED
  BY <1>3, <1>5, <1>6, <1>7 DEF n

\* Each part begins where the one before it ends.
LEMMA StartProperties ==
    ASSUME NEW parts \in Seq(Bytes)
    PROVE  /\ \A k \in 0..Len(parts) : Start(parts, k) \in Nat
           /\ Start(parts, 0) = 0
           /\ \A k \in 1..Len(parts) : Start(parts, k) = Start(parts, k - 1) + Len(parts[k])
           /\ FlattenSeq(parts) \in Bytes /\ Len(FlattenSeq(parts)) = Start(parts, Len(parts))
<1> DEFINE n == Len(parts)
           j == Joined(parts)
<1>1. n \in Nat /\ \A i \in 1..n : parts[i] \in Bytes
  OBVIOUS
<1>2. /\ \A i \in 1..n : j[i] \in Bytes
      /\ n > 0 => j[1] = parts[1]
      /\ \A i \in 2..n : j[i] = j[i - 1] \o parts[i]
      /\ FlattenSeq(parts) = IF n = 0 THEN <<>> ELSE j[n]
  BY JoinedProperties
<1>3. Start(parts, 0) = 0 /\ \A k \in 1..n : Start(parts, k) = Len(j[k])
  BY <1>1 DEF Start
<1> HIDE DEF j
<1>4. \A k \in 1..n : Len(j[k]) \in Nat
  BY <1>2, BytesProperties
<1>5. ASSUME NEW k \in 1..n PROVE Start(parts, k) = Start(parts, k - 1) + Len(parts[k])
  <2>1. CASE k = 1
    <3>1. Len(parts[1]) \in Nat
      BY <1>1, <2>1, BytesProperties
    <3> QED
      BY <1>2, <1>3, <2>1, <3>1
  <2>2. CASE k # 1
    <3>1. k \in 2..n /\ k - 1 \in 1..n
      BY <1>1, <2>2
    <3>2. j[k] = j[k - 1] \o parts[k] /\ j[k - 1] \in Bytes /\ parts[k] \in Bytes
      BY <1>1, <1>2, <3>1
    <3>3. Len(j[k]) = Len(j[k - 1]) + Len(parts[k])
      BY <3>2, BytesConcat
    <3> QED
      BY <1>3, <3>1, <3>3
  <2> QED
    BY <2>1, <2>2
<1>6. <<>> \in Bytes /\ Len(<<>>) = 0
  BY DEF Bytes
<1> QED
  BY <1>1, <1>2, <1>3, <1>4, <1>5, <1>6

\* Each part of what lies in the buffer lies at its start.
LEMMA PartsAt ==
    ASSUME NEW buffer \in Bytes, NEW o, NEW parts \in Seq(Bytes), At(buffer, o, FlattenSeq(parts)),
           NEW k \in 1..Len(parts)
    PROVE  At(buffer, o + Start(parts, k - 1), parts[k])
<1> DEFINE n == Len(parts)
           j == Joined(parts)
<1>1. n \in Nat /\ n > 0 /\ \A i \in 1..n : parts[i] \in Bytes
  OBVIOUS
<1>2. /\ \A i \in 1..n : j[i] \in Bytes
      /\ j[1] = parts[1]
      /\ \A i \in 2..n : j[i] = j[i - 1] \o parts[i]
      /\ FlattenSeq(parts) = j[n]
  <2>1. n # 0
    BY <1>1
  <2> QED
    BY <1>1, <2>1, JoinedProperties
<1>3. \A i \in 1..n : Start(parts, i) = Len(j[i])
  BY <1>1 DEF Start
<1> HIDE DEF j
<1>4. \A i \in 1..n : At(buffer, o, j[i])
  <2> DEFINE P == {i \in Nat : i < n => At(buffer, o, j[n - i])}
  <2>1. 0 \in P
    <3>1. n - 0 = n /\ FlattenSeq(parts) = j[n]
      BY <1>1, <1>2
    <3> QED
      BY <3>1
  <2>2. ASSUME NEW i \in 1..n, i - 1 \in P PROVE i \in P
    <3> SUFFICES ASSUME i < n PROVE At(buffer, o, j[n - i])
      OBVIOUS
    <3> DEFINE m == n - (i - 1)
    <3>1. m \in 2..n /\ m - 1 = n - i /\ m - 1 \in 1..n /\ i - 1 < n
      BY <1>1
    <3>2. At(buffer, o, j[m])
      BY <2>2, <3>1
    <3> HIDE DEF m
    <3>3. j[m] = j[m - 1] \o parts[m] /\ j[m - 1] \in Bytes /\ parts[m] \in Bytes
      <4>1. m \in 1..n
        BY <1>1, <3>1
      <4> QED
        BY <1>1, <1>2, <3>1, <4>1
    <3>4. At(buffer, o, j[m - 1] \o parts[m])
      BY <3>2, <3>3
    <3>5. At(buffer, o, j[m - 1])
      BY <3>3, <3>4, BytesAt
    <3> QED
      BY <3>1, <3>5
  <2> HIDE DEF P
  <2>3. \A i \in 0..n : i \in P
    BY <1>1, <2>1, <2>2, Induction
  <2>4. ASSUME NEW i \in 1..n PROVE At(buffer, o, j[i])
    <3>1. n - i \in 0..n /\ n - i < n /\ n - (n - i) = i
      BY <1>1
    <3> QED
      BY <2>3, <3>1 DEF P
  <2> QED
    BY <2>4
<1>5. o \in Nat
  BY DEF At
<1>6. CASE k = 1
  <2>1. Start(parts, k - 1) = 0 /\ o + 0 = o
    BY <1>5, <1>6 DEF Start
  <2> QED
    BY <1>2, <1>4, <1>6, <2>1
<1>7. CASE k # 1
  <2>1. k \in 2..n /\ k - 1 \in 1..n
    BY <1>1, <1>7
  <2>2. At(buffer, o, j[k - 1] \o parts[k]) /\ j[k - 1] \in Bytes /\ parts[k] \in Bytes
    <3>1. At(buffer, o, j[k]) /\ j[k] = j[k - 1] \o parts[k]
      BY <1>2, <1>4, <2>1
    <3> QED
      BY <1>1, <1>2, <2>1, <3>1
  <2>3. At(buffer, o + Len(j[k - 1]), parts[k])
    BY <2>2, BytesAt
  <2> QED
    BY <1>3, <2>1, <2>3
<1> QED
  BY <1>6, <1>7

-----------------------------------------------------------------------------
(* Whatever the bytes are, a cursor ends somewhere.                          *)

\* The value of a number is a number, and the cursor is behind it.
LEMMA NumIsInt ==
    ASSUME NEW buffer \in Bytes, NEW at \in Int
    PROVE  /\ ParseByte(buffer, at).offset = at + 1 /\ ParseByte(buffer, at).value \in 0..(Base - 1)
           /\ ParseShort(buffer, at).offset = at + 2 /\ ParseShort(buffer, at).value \in Int
           /\ ParseInt(buffer, at).offset = at + 4 /\ ParseInt(buffer, at).value \in Int
<1>1. ParseByte(buffer, at).offset = at + 1 /\ ParseByte(buffer, at).value \in 0..(Base - 1)
  BY ByteIsDigit DEF ParseByte, ReadAs
<1>2. \A size \in {2, 4} : /\ ParseNum(buffer, at, size).offset = at + size
                           /\ ParseNum(buffer, at, size).value \in Int
  <2> SUFFICES ASSUME NEW size \in {2, 4}
               PROVE  /\ ParseNum(buffer, at, size).offset = at + size
                      /\ ParseNum(buffer, at, size).value \in Int
    OBVIOUS
  <2>1. size \in Nat /\ size \in 0..size
    OBVIOUS
  <2>2. ValuesRead(buffer, at, size)[size] \in Int
    BY <2>1, ValuesReadProperties
  <2> QED
    BY <2>2 DEF ParseNum, ReadAs
<1> QED
  BY <1>1, <1>2 DEF ParseShort, ParseInt

\* The number of a type is that of no other.
LEMMA NumbersOf ==
    ASSUME NEW type \in Types, NEW types \in SUBSET Types
    PROVE  CUBRIDDataType[type] \in Numbers(types) <=> type \in types
<1>1. \A one, other \in Types : CUBRIDDataType[one] = CUBRIDDataType[other] => one = other
  BY DEF CUBRIDDataType, Types
<1> QED
  BY <1>1 DEF Numbers

\* What is read of a value of each type.
LEMMA ReadValueOf ==
    ASSUME NEW protocol \in {"new", "old"}, NEW type \in Types, NEW size, NEW buffer, NEW at
    PROVE  LET Read == ReadValue(protocol, CUBRIDDataType[type], size, buffer, at)
           IN  /\ type \in TextTypes \cup {"numeric"} => Read = ParseNullTerminatedString(buffer, at, size)
               /\ type = "short" => Read = ParseShort(buffer, at)
               /\ type = "int" => Read = ParseInt(buffer, at)
               /\ type = "bigint" => Read = ParseLong(buffer, at)
               /\ type = "float" => Read = ParseBytes(buffer, at, 4)
               /\ type \in {"double", "monetary"} => Read = ParseBytes(buffer, at, 8)
               /\ type = "date" => Read = ParseDate(buffer, at)
               /\ type = "time" => Read = ParseTime(buffer, at)
               /\ type = "datetime" => Read = ParseDateTime(buffer, at)
               /\ type = "timestamp" => Read = ParseTimeStamp(buffer, at)
               /\ type \in {"timestamptz", "timestampltz"} /\ protocol = "new" =>
                     Read = ParseZoned(buffer, at, size, ParseTimeStamp(buffer, at))
               /\ type \in {"datetimetz", "datetimeltz"} /\ protocol = "new" =>
                     Read = ParseZoned(buffer, at, size, ParseDateTime(buffer, at))
               /\ type = "object" => Read = ParseObject(buffer, at)
               /\ type \in {"bit", "varbit"} => Read = ParseBytes(buffer, at, size)
               /\ type \in SetTypes => Read = ParseSequence(buffer, at)
               /\ type \in LobTypes => Read = ReadLob(buffer, at, size)
               /\ type = "resultset" => Read = ParseResultSet(buffer, at)
<1> DEFINE n == CUBRIDDataType[type]
           Is(types) == n \in Numbers(types)
<1>1. \A types \in SUBSET Types : Is(types) <=> type \in types
  BY NumbersOf
<1>2. /\ TextTypes \subseteq Types /\ SetTypes \subseteq Types /\ LobTypes \subseteq Types
      /\ {"numeric", "short", "int", "bigint", "float", "double", "monetary", "date", "time",
          "datetime", "timestamp", "timestamptz", "timestampltz", "datetimetz", "datetimeltz",
          "object", "bit", "varbit", "resultset", "null"} \subseteq Types
  BY DEF TextTypes, SetTypes, LobTypes, Types, CUBRIDDataType
<1>3. /\ Is(TextTypes) <=> type \in TextTypes
      /\ Is({"numeric"}) <=> type = "numeric"
      /\ Is({"short"}) <=> type = "short"
      /\ Is({"int"}) <=> type = "int"
      /\ Is({"bigint"}) <=> type = "bigint"
      /\ Is({"float"}) <=> type = "float"
      /\ Is({"double", "monetary"}) <=> type \in {"double", "monetary"}
      /\ Is({"date"}) <=> type = "date"
      /\ Is({"time"}) <=> type = "time"
      /\ Is({"datetime"}) <=> type = "datetime"
      /\ Is({"timestamp"}) <=> type = "timestamp"
      /\ Is({"timestamptz", "timestampltz"}) <=> type \in {"timestamptz", "timestampltz"}
      /\ Is({"datetimetz", "datetimeltz"}) <=> type \in {"datetimetz", "datetimeltz"}
      /\ Is({"object"}) <=> type = "object"
      /\ Is({"bit", "varbit"}) <=> type \in {"bit", "varbit"}
      /\ Is(SetTypes) <=> type \in SetTypes
      /\ Is(LobTypes) <=> type \in LobTypes
      /\ Is({"resultset"}) <=> type = "resultset"
      /\ Is({"null"}) <=> type = "null"
  <2> HIDE DEF Is
  <2> QED
    BY <1>1, <1>2
<1> HIDE DEF n
<1> QED
  BY <1>3, SMTT(30) DEF ReadValue, TextTypes, SetTypes, LobTypes, n

\* So is what is behind a value of any type, known or not.
LEMMA ReadValueOffset ==
    ASSUME NEW protocol, NEW type, NEW buffer \in Bytes, NEW size \in Int, NEW at \in Int
    PROVE  ReadValue(protocol, type, size, buffer, at).offset \in Int
<1>1. ParseNullTerminatedString(buffer, at, size).offset \in Int
  BY DEF ParseNullTerminatedString, ReadAs
<1>2. ParseShort(buffer, at).offset \in Int /\ ParseInt(buffer, at).offset \in Int
  BY NumIsInt
<1>3. /\ ParseLong(buffer, at).offset \in Int /\ ParseBytes(buffer, at, 4).offset \in Int
      /\ ParseBytes(buffer, at, 8).offset \in Int /\ ParseBytes(buffer, at, size).offset \in Int
  BY DEF ParseLong, ParseBytes, ReadAs
<1>4. /\ ParseDate(buffer, at).offset \in Int /\ ParseTime(buffer, at).offset \in Int
      /\ ParseDateTime(buffer, at).offset \in Int /\ ParseTimeStamp(buffer, at).offset \in Int
  BY DEF ParseDate, ParseTime, ParseDateTime, ParseTimeStamp, ReadAs
<1>5. /\ ParseZoned(buffer, at, size, ParseTimeStamp(buffer, at)).offset \in Int
      /\ ParseZoned(buffer, at, size, ParseDateTime(buffer, at)).offset \in Int
  BY DEF ParseZoned, ReadAs
<1>6. /\ ParseObject(buffer, at).offset \in Int /\ ReadLob(buffer, at, size).offset \in Int
      /\ ParseResultSet(buffer, at).offset \in Int
  BY DEF ParseObject, ReadLob, ParseResultSet, ReadAs
<1>7. ParseSequence(buffer, at).offset \in Int
  <2>1. at + 4 \in Int
    OBVIOUS
  <2>2. ParseInt(buffer, at).value \in Int /\ ParseInt(buffer, at + 4).value \in Int
    BY <2>1, NumIsInt
  <2>3. ParseInt(buffer, at).value * ParseInt(buffer, at + 4).value \in Int
    BY <2>2
  <2> QED
    BY <2>3 DEF ParseSequence, ReadAs
<1>8. ReadAs(Null, at).offset \in Int /\ ReadAs(InvalidType, at).offset \in Int
  BY DEF ReadAs
<1> QED
  BY <1>1, <1>2, <1>3, <1>4, <1>5, <1>6, <1>7, <1>8 DEF ReadValue
=============================================================================

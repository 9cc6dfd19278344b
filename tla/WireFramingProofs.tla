------------------------- MODULE WireFramingProofs --------------------------
(***************************************************************************)
(* Proofs about one exchange on the wire, for every packet: any text, any    *)
(* number of statements and parameters, any cutting of the response.         *)
(***************************************************************************)
EXTENDS WireFraming, SequenceTheorems, WellFoundedInduction, TLAPS

-----------------------------------------------------------------------------
(* Induction.  The library's theorems about it take an operator; over sets and *)
(* functions it follows from there being no endless descent below a number.    *)

\* What is kept from each number to the next, up to n, holds up to n: of the
\* numbers for which it does not hold, there would be a least.
LEMMA Induction ==
    ASSUME NEW n \in Nat, NEW P, 0 \in P, \A i \in 1..n : i - 1 \in P => i \in P
    PROVE  \A i \in 0..n : i \in P
<1> DEFINE R == {ss \in Nat \X Nat : ss[1] < ss[2]}
           Rest == {i \in 0..n : i \notin P}
<1>1. IsWellFoundedOn(R, Nat)
  <2>1. IsWellFoundedOn(OpToRel(<, Nat), Nat)
    BY NatLessThanWellFounded
  <2> QED
    BY <2>1, Zenon DEF OpToRel
<1>2. SUFFICES ASSUME Rest # {} PROVE FALSE
  OBVIOUS
<1>3. Rest \subseteq Nat
  OBVIOUS
<1> HIDE DEF R
<1>4. PICK m \in Rest : \A k \in Rest : <<k, m>> \notin R
  BY <1>1, <1>2, <1>3, WFMin
<1>5. m \in 1..n /\ m - 1 \in 0..n
  OBVIOUS
<1>6. <<m - 1, m>> \in R
  BY <1>5 DEF R
<1>7. m - 1 \in P
  BY <1>4, <1>5, <1>6
<1> QED
  BY <1>5, <1>7

\* A step gives the value at i from that at i - 1.
StepFunctions(n, S) == [(1..n) \X S -> S]
Recursive(f, n, S, first, next) ==
    f \in [0..n -> S] /\ f[0] = first /\ \A i \in 1..n : f[i] = next[<<i, f[i - 1]>>]

\* A first value and a step define a function.
LEMMA RecursiveFunctionExists ==
    ASSUME NEW n \in Nat, NEW S, NEW first \in S, NEW next \in StepFunctions(n, S)
    PROVE  \E f : Recursive(f, n, S, first, next)
<1> DEFINE Defined(f, m) == Recursive(f, m, S, first, next)
           P == {m \in 0..n : \E f : Defined(f, m)}
<1> USE DEF Recursive
<1>1. 0 \in P
  <2>1. Defined([i \in 0..0 |-> first], 0) /\ 0 \in 0..n
    OBVIOUS
  <2> HIDE DEF Defined
  <2> QED
    BY <2>1
<1>2. ASSUME NEW m \in 1..n, m - 1 \in P PROVE m \in P
  <2>0. \E f : Defined(f, m - 1)
    BY <1>2
  <2>1. PICK f : Defined(f, m - 1)
    BY <2>0
  <2> DEFINE g == [i \in 0..m |-> IF i = m THEN next[<<m, f[m - 1]>>] ELSE f[i]]
  <2>2. f[m - 1] \in S
    BY <2>1
  <2>3. next[<<m, f[m - 1]>>] \in S
    BY <2>2 DEF StepFunctions
  <2>4. g \in [0..m -> S]
    BY <2>1, <2>3
  <2>5. g[0] = first /\ g[m] = next[<<m, g[m - 1]>>]
    <3>1. 0 \in 0..m /\ m \in 0..m /\ m - 1 \in 0..m /\ 0 # m /\ m - 1 # m
      OBVIOUS
    <3> QED
      BY <2>1, <3>1
  <2>6. \A i \in 1..m : i # m => i \in 1..(m - 1) /\ i - 1 \in 0..(m - 1) /\ i - 1 # m
    OBVIOUS
  <2>7. \A i \in 1..m : i # m => g[i] = next[<<i, g[i - 1]>>]
    BY <2>1, <2>6
  <2>8. Defined(g, m)
    BY <2>4, <2>5, <2>7
  <2> HIDE DEF Defined
  <2> QED
    BY <2>8
<1> HIDE DEF P
<1>3. \A i \in 0..n : i \in P
  BY <1>1, <1>2, Induction
<1> QED
  BY <1>3 DEF P
-----------------------------------------------------------------------------
(* The lengths that are predicted and written.                               *)

\* The sums of the first sizes are what the loop adds up.
LEMMA UpToProperties ==
    ASSUME NEW sizes \in Seq(Nat)
    PROVE  /\ UpTo(sizes) \in [0..Len(sizes) -> Nat]
           /\ UpTo(sizes)[0] = 0
           /\ \A i \in 1..Len(sizes) : UpTo(sizes)[i] = UpTo(sizes)[i - 1] + sizes[i]
<1> DEFINE n == Len(sizes)
           Step(f) == [i \in 0..n |-> IF i = 0 THEN 0 ELSE f[i - 1] + sizes[i]]
           next == [x \in (1..n) \X Nat |-> x[2] + sizes[x[1]]]
<1>0. n \in Nat /\ \A i \in 1..n : sizes[i] \in Nat
  BY LenProperties
<1>1. next \in StepFunctions(n, Nat)
  BY <1>0 DEF StepFunctions
<1>2. \A i \in 1..n, k \in Nat : next[<<i, k>>] = k + sizes[i]
  OBVIOUS
<1> HIDE DEF next, n
<1>i. \A i \in 1..n : i \in 0..n /\ i - 1 \in 0..n /\ i # 0
  BY <1>0
<1>r. \E f : Recursive(f, n, Nat, 0, next)
  <2>1. 0 \in Nat
    OBVIOUS
  <2> QED
    BY <1>0, <1>1, <2>1, RecursiveFunctionExists, Zenon
<1>3. PICK f \in [0..n -> Nat] : f[0] = 0 /\ \A i \in 1..n : f[i] = next[<<i, f[i - 1]>>]
  BY <1>r DEF Recursive
<1>4. f = Step(f)
  <2>1. \A i \in 1..n : f[i] = f[i - 1] + sizes[i]
    <3> SUFFICES ASSUME NEW i \in 1..n PROVE f[i] = f[i - 1] + sizes[i]
      OBVIOUS
    <3>1. f[i - 1] \in Nat
      BY <1>3, <1>i
    <3> QED
      BY <1>2, <1>3, <3>1
  <2>2. \A i \in 0..n : f[i] = Step(f)[i]
    BY <1>0, <1>3, <2>1
  <2> QED
    BY <1>3, <2>2
<1>5. UpTo(sizes) = CHOOSE g : g = Step(g)
  BY DEF UpTo, n
<1>6. UpTo(sizes) = Step(UpTo(sizes))
  BY <1>4, <1>5
<1> DEFINE u == UpTo(sizes)
<1>7. /\ u = [i \in 0..n |-> u[i]] /\ u[0] = 0
      /\ \A i \in 1..n : u[i] = u[i - 1] + sizes[i]
  <2>1. \A g : Step(g) = [i \in 0..n |-> Step(g)[i]] /\ \A i \in 1..n : Step(g)[i] = g[i - 1] + sizes[i]
    BY <1>i
  <2>2. \A g : Step(g)[0] = 0
    BY <1>0
  <2> HIDE DEF Step
  <2> QED
    BY <1>6, <2>1, <2>2
<1> HIDE DEF u
<1>8. \A i \in 0..n : u[i] \in Nat
  <2> DEFINE P == {i \in 0..n : u[i] \in Nat}
  <2>1. 0 \in P
    BY <1>0, <1>7
  <2>2. \A i \in 1..n : i - 1 \in P => i \in P
    <3> SUFFICES ASSUME NEW i \in 1..n, i - 1 \in P PROVE i \in P
      OBVIOUS
    <3>1. u[i] = u[i - 1] + sizes[i] /\ u[i - 1] \in Nat /\ sizes[i] \in Nat
      BY <1>0, <1>7
    <3> QED
      BY <1>i, <3>1
  <2> HIDE DEF P
  <2>3. \A i \in 0..n : i \in P
    BY <1>0, <2>1, <2>2, Induction
  <2> QED
    BY <2>3 DEF P
<1> QED
  BY <1>7, <1>8 DEF u, n

\* A sum of lengths is a number.
LEMMA TotalIsNat ==
    ASSUME NEW sizes \in Seq(Nat)
    PROVE  Total(sizes) \in Nat
  BY UpToProperties, LenProperties DEF Total

LEMMA TotalOfNone == Total(<<>>) = 0
<1>1. <<>> \in Seq(Nat) /\ Len(<<>>) = 0
  OBVIOUS
<1> QED
  BY <1>1, UpToProperties DEF Total

\* Writing one sequence of fields behind another adds the lengths.
LEMMA TotalOfConcat ==
    ASSUME NEW a \in Seq(Nat), NEW b \in Seq(Nat)
    PROVE  a \o b \in Seq(Nat) /\ Total(a \o b) = Total(a) + Total(b)
<1> DEFINE c == a \o b
           m == Len(a)
           n == Len(b)
<1>0. m \in Nat /\ n \in Nat
  BY LenProperties
<1>1. /\ c \in Seq(Nat) /\ Len(c) = m + n
      /\ \A i \in 1..(m + n) : c[i] = IF i <= m THEN a[i] ELSE b[i - m]
  BY ConcatProperties
<1> HIDE DEF c
<1> DEFINE u == UpTo(a)
           v == UpTo(b)
           w == UpTo(c)
<1>2. /\ u \in [0..m -> Nat] /\ u[0] = 0 /\ \A i \in 1..m : u[i] = u[i - 1] + a[i]
      /\ v \in [0..n -> Nat] /\ v[0] = 0 /\ \A i \in 1..n : v[i] = v[i - 1] + b[i]
  BY UpToProperties
<1>3. w[0] = 0 /\ \A i \in 1..(m + n) : w[i] = w[i - 1] + c[i]
  BY <1>1, UpToProperties
<1>4. Total(a) = u[m] /\ Total(b) = v[n] /\ Total(c) = w[m + n]
  BY <1>1 DEF Total
<1> HIDE DEF u, v, w, m, n
<1>5. w[m] = u[m]
  <2> DEFINE P == {i \in 0..m : w[i] = u[i]}
  <2>1. 0 \in P
    BY <1>0, <1>2, <1>3
  <2>2. ASSUME NEW i \in 1..m, i - 1 \in P PROVE i \in P
    <3>1. i \in 1..(m + n) /\ i <= m /\ w[i - 1] = u[i - 1] /\ i \in 0..m
      BY <1>0, <2>2
    <3>2. w[i] = w[i - 1] + c[i] /\ c[i] = a[i] /\ u[i] = u[i - 1] + a[i]
      BY <1>1, <1>2, <1>3, <3>1
    <3> QED
      BY <3>1, <3>2
  <2> HIDE DEF P
  <2>3. \A i \in 0..m : i \in P
    BY <1>0, <2>1, <2>2, Induction
  <2> QED
    BY <1>0, <2>3 DEF P
<1>6. w[m + n] = u[m] + v[n]
  <2> DEFINE P == {i \in 0..n : w[m + i] = u[m] + v[i]}
  <2>0. u[m] \in Nat /\ \A i \in 0..n : v[i] \in Nat
    BY <1>0, <1>2
  <2>1. 0 \in P
    <3>1. m + 0 = m /\ u[m] + 0 = u[m] /\ 0 \in 0..n
      BY <1>0, <2>0
    <3> QED
      BY <1>2, <1>5, <3>1
  <2>2. ASSUME NEW i \in 1..n, i - 1 \in P PROVE i \in P
    <3>1. /\ m + i \in 1..(m + n) /\ ~(m + i <= m) /\ (m + i) - m = i
          /\ (m + i) - 1 = m + (i - 1) /\ i \in 0..n /\ i - 1 \in 0..n
      BY <1>0
    <3>2. w[m + i] = w[m + (i - 1)] + b[i]
      BY <1>1, <1>3, <3>1
    <3>3. w[m + (i - 1)] = u[m] + v[i - 1]
      BY <2>2
    <3>4. v[i] = v[i - 1] + b[i] /\ b[i] \in Nat /\ v[i - 1] \in Nat
      BY <1>2, <2>0, <3>1, LenProperties DEF n
    <3> QED
      BY <2>0, <3>1, <3>2, <3>3, <3>4
  <2> HIDE DEF P
  <2>3. \A i \in 0..n : i \in P
    BY <1>0, <2>1, <2>2, Induction
  <2> QED
    BY <1>0, <2>3 DEF P
<1> QED
  BY <1>1, <1>4, <1>5, <1>6 DEF c

\* The fields of an argument, a string, a header, and short rows of fields.
LEMMA TotalOfOne == \A a \in Nat : <<a>> \in Seq(Nat) /\ Total(<<a>>) = a
<1> SUFFICES ASSUME NEW a \in Nat PROVE <<a>> \in Seq(Nat) /\ Total(<<a>>) = a
  OBVIOUS
<1>1. <<a>> \in Seq(Nat) /\ Len(<<a>>) = 1 /\ <<a>>[1] = a
  OBVIOUS
<1>2. UpTo(<<a>>)[0] = 0 /\ \A i \in 1..1 : UpTo(<<a>>)[i] = UpTo(<<a>>)[i - 1] + <<a>>[i]
  BY <1>1, UpToProperties
<1>3. 1 \in 1..1 /\ 1 - 1 = 0
  OBVIOUS
<1>4. UpTo(<<a>>)[1] = a
  BY <1>1, <1>2, <1>3
<1> QED
  BY <1>1, <1>4 DEF Total

LEMMA TotalOfTwo == \A a, b \in Nat : <<a, b>> \in Seq(Nat) /\ Total(<<a, b>>) = a + b
<1> SUFFICES ASSUME NEW a \in Nat, NEW b \in Nat
             PROVE  <<a, b>> \in Seq(Nat) /\ Total(<<a, b>>) = a + b
  OBVIOUS
<1> DEFINE s == <<a, b>>
<1>1. s \in Seq(Nat) /\ Len(s) = 2 /\ s[1] = a /\ s[2] = b
  OBVIOUS
<1> HIDE DEF s
<1>2. UpTo(s)[0] = 0 /\ \A i \in 1..2 : UpTo(s)[i] = UpTo(s)[i - 1] + s[i]
  BY <1>1, UpToProperties
<1>3. 1 \in 1..2 /\ 1 - 1 = 0 /\ 2 \in 1..2 /\ 2 - 1 = 1
  OBVIOUS
<1>4. UpTo(s)[1] = a /\ UpTo(s)[2] = UpTo(s)[1] + b
  BY <1>1, <1>2, <1>3
<1> QED
  BY <1>1, <1>4 DEF Total, s

LEMMA TotalOfThree ==
    \A a, b, c \in Nat : <<a, b, c>> \in Seq(Nat) /\ Total(<<a, b, c>>) = a + b + c
<1> SUFFICES ASSUME NEW a \in Nat, NEW b \in Nat, NEW c \in Nat
             PROVE  <<a, b, c>> \in Seq(Nat) /\ Total(<<a, b, c>>) = a + b + c
  OBVIOUS
<1> DEFINE s == <<a, b, c>>
<1>1. s \in Seq(Nat) /\ Len(s) = 3 /\ s[1] = a /\ s[2] = b /\ s[3] = c
  OBVIOUS
<1> HIDE DEF s
<1>2. UpTo(s)[0] = 0 /\ \A i \in 1..3 : UpTo(s)[i] = UpTo(s)[i - 1] + s[i]
  BY <1>1, UpToProperties
<1>3. 1 \in 1..3 /\ 1 - 1 = 0 /\ 2 \in 1..3 /\ 2 - 1 = 1 /\ 3 \in 1..3 /\ 3 - 1 = 2
  OBVIOUS
<1>4. UpTo(s)[1] = a /\ UpTo(s)[2] = UpTo(s)[1] + b /\ UpTo(s)[3] = UpTo(s)[2] + c
  BY <1>1, <1>2, <1>3
<1> QED
  BY <1>1, <1>4 DEF Total, s

LEMMA TotalOfFields ==
    /\ \A n \in Nat : Arg(n) \in Seq(Nat) /\ Total(Arg(n)) = 4 + n
    /\ \A text \in [chars : Nat, bytes : Nat] :
          String(text) \in Seq(Nat) /\ Total(String(text)) = 4 + text.bytes + 1
    /\ Header \in Seq(Nat) /\ Total(Header) = 9
    /\ <<4>> \in Seq(Nat) /\ Total(<<4>>) = 4
    /\ <<4, 4, 4>> \in Seq(Nat) /\ Total(<<4, 4, 4>>) = 12
    /\ <<>> \in Seq(Nat) /\ Total(<<>>) = 0
<1>1. \A n \in Nat : Arg(n) \in Seq(Nat) /\ Total(Arg(n)) = 4 + n
  BY TotalOfTwo DEF Arg
<1>2. ASSUME NEW text \in [chars : Nat, bytes : Nat]
      PROVE  String(text) \in Seq(Nat) /\ Total(String(text)) = 4 + text.bytes + 1
  <2>1. text.bytes \in Nat
    OBVIOUS
  <2> QED
    BY <2>1, TotalOfThree DEF String
<1>3. Header \in Seq(Nat) /\ Total(Header) = 4 + 4 + 1
  BY TotalOfThree DEF Header
<1>4. <<4>> \in Seq(Nat) /\ Total(<<4>>) = 4
  BY TotalOfOne
<1>5. <<4, 4, 4>> \in Seq(Nat) /\ Total(<<4, 4, 4>>) = 4 + 4 + 4
  BY TotalOfThree
<1> QED
  BY <1>1, <1>2, <1>3, <1>4, <1>5, TotalOfNone

\* Sequences of fields written one behind another have the sum of their lengths.
LEMMA TotalOfFlattened ==
    ASSUME NEW n \in Nat, NEW seqs \in [1..n -> Seq(Nat)]
    PROVE  /\ FlattenSeq(seqs) \in Seq(Nat)
           /\ Total(FlattenSeq(seqs)) = Total([i \in 1..n |-> Total(seqs[i])])
<1> DEFINE sizes == [i \in 1..n |-> Total(seqs[i])]
           u == UpTo(sizes)
<1>0. seqs \in Seq(Seq(Nat)) /\ Len(seqs) = n /\ \A i \in 1..n : seqs[i] \in Seq(Nat)
  OBVIOUS
<1>1. sizes \in Seq(Nat) /\ Len(sizes) = n /\ \A i \in 1..n : sizes[i] = Total(seqs[i])
  BY <1>0, TotalIsNat
<1>2. /\ u \in [0..n -> Nat] /\ u[0] = 0 /\ Total(sizes) = u[n]
      /\ \A i \in 1..n : u[i] = u[i - 1] + sizes[i]
  BY <1>1, UpToProperties DEF Total
<1> HIDE DEF sizes, u
<1>3. CASE n = 0
  <2>1. FlattenSeq(seqs) = <<>>
    BY <1>0, <1>3 DEF FlattenSeq
  <2> QED
    BY <1>2, <1>3, <2>1, TotalOfNone DEF sizes
<1>4. CASE n > 0
  <2> DEFINE Step(h) == [i \in 1..n |-> IF i = 1 THEN seqs[i] ELSE h[i - 1] \o seqs[i]]
             next == [x \in (1..n) \X Seq(Nat) |-> x[2] \o seqs[x[1]]]
  <2>1. next \in StepFunctions(n, Seq(Nat))
    BY <1>0, ConcatProperties DEF StepFunctions
  <2>2. \A i \in 1..n, s \in Seq(Nat) : next[<<i, s>>] = s \o seqs[i]
    OBVIOUS
  <2> HIDE DEF next
  <2>3. \E f : Recursive(f, n, Seq(Nat), <<>>, next)
    <3>1. <<>> \in Seq(Nat)
      OBVIOUS
    <3> QED
      BY <2>1, <3>1, RecursiveFunctionExists, Zenon
  <2>4. PICK f \in [0..n -> Seq(Nat)] : f[0] = <<>> /\ \A i \in 1..n : f[i] = next[<<i, f[i - 1]>>]
    BY <2>3 DEF Recursive
  <2>i. \A i \in 1..n : i \in 0..n /\ i - 1 \in 0..n /\ (i # 1 => i - 1 \in 1..n)
    OBVIOUS
  <2>5. \E g : g = Step(g)
    <3> DEFINE g == [i \in 1..n |-> f[i]]
    <3>1. \A i \in 1..n : f[i] = f[i - 1] \o seqs[i]
      BY <2>2, <2>4, <2>i
    <3>2. f[1] = seqs[1]
      <4>1. 1 \in 1..n /\ 1 - 1 = 0
        BY <1>4
      <4>2. f[1] = <<>> \o seqs[1] /\ seqs[1] \in Seq(Nat)
        BY <1>0, <2>4, <3>1, <4>1
      <4> QED
        BY <4>2, ConcatEmptySeq
    <3>3. \A i \in 1..n : Step(g)[i] = g[i]
      BY <2>i, <3>1, <3>2
    <3>4. g = Step(g)
      BY <3>3
    <3> HIDE DEF g, Step
    <3> QED
      BY <3>4
  <2> DEFINE h == CHOOSE g : g = Step(g)
  <2>6. h = Step(h)
    BY <2>5
  <2>7. FlattenSeq(seqs) = h[n]
    BY <1>0, <1>4 DEF FlattenSeq
  <2> HIDE DEF h
  <2>8. \A i \in 1..n : h[i] = IF i = 1 THEN seqs[i] ELSE h[i - 1] \o seqs[i]
    BY <2>6
  <2> HIDE DEF Step
  <2> DEFINE P == {i \in 0..n : i = 0 \/ (h[i] \in Seq(Nat) /\ Total(h[i]) = u[i])}
  <2>9. 0 \in P
    OBVIOUS
  <2>10. ASSUME NEW i \in 1..n, i - 1 \in P PROVE i \in P
    <3>1. u[i] = u[i - 1] + Total(seqs[i]) /\ Total(seqs[i]) \in Nat
      BY <1>0, <1>1, <1>2, TotalIsNat
    <3>2. CASE i = 1
      <4>1. h[i] = seqs[i] /\ u[i] = Total(seqs[i])
        BY <1>2, <2>8, <3>1, <3>2
      <4> QED
        BY <1>0, <2>i, <4>1
    <3>3. CASE i # 1
      <4>0. h[i - 1] \in Seq(Nat) /\ Total(h[i - 1]) = u[i - 1]
        <5>1. i - 1 # 0
          BY <3>3
        <5> QED
          BY <2>10, <5>1 DEF P
      <4>1. h[i] = h[i - 1] \o seqs[i] /\ h[i - 1] \in Seq(Nat) /\ Total(h[i - 1]) = u[i - 1]
        BY <2>8, <3>3, <4>0
      <4>2. h[i] \in Seq(Nat) /\ Total(h[i]) = Total(h[i - 1]) + Total(seqs[i])
        BY <1>0, <4>1, TotalOfConcat
      <4> QED
        BY <2>i, <3>1, <4>1, <4>2
    <3> QED
      BY <3>2, <3>3
  <2> HIDE DEF P
  <2>11. \A i \in 0..n : i \in P
    BY <2>9, <2>10, Induction
  <2>12. n \in P /\ n # 0
    BY <1>4, <2>11
  <2> QED
    BY <1>2, <2>7, <2>12 DEF P, sizes
<1> QED
  BY <1>3, <1>4

\* Five bytes more in each of n sizes are 5 * n more in all of them.
LEMMA TotalOfLonger ==
    ASSUME NEW n \in Nat, NEW f \in [1..n -> Nat]
    PROVE  Total([i \in 1..n |-> 4 + f[i] + 1]) = 4 * n + n + Total(f)
<1> DEFINE g == [i \in 1..n |-> 4 + f[i] + 1]
           u == UpTo(f)
           v == UpTo(g)
<1>1. f \in Seq(Nat) /\ Len(f) = n /\ g \in Seq(Nat) /\ Len(g) = n
  OBVIOUS
<1>2. \A i \in 1..n : g[i] = 4 + f[i] + 1 /\ f[i] \in Nat
  OBVIOUS
<1> HIDE DEF g
<1>3. /\ u \in [0..n -> Nat] /\ u[0] = 0 /\ Total(f) = u[n]
      /\ v \in [0..n -> Nat] /\ v[0] = 0 /\ Total(g) = v[n]
      /\ \A i \in 1..n : u[i] = u[i - 1] + f[i] /\ v[i] = v[i - 1] + g[i]
  BY <1>1, UpToProperties DEF Total
<1> HIDE DEF u, v
<1> DEFINE P == {i \in 0..n : v[i] = 4 * i + i + u[i]}
<1>4. 0 \in P
  BY <1>3
<1>5. ASSUME NEW i \in 1..n, i - 1 \in P PROVE i \in P
  <2>1. v[i - 1] = 4 * (i - 1) + (i - 1) + u[i - 1] /\ u[i - 1] \in Nat /\ i \in 0..n
    BY <1>3, <1>5
  <2>2. u[i] = u[i - 1] + f[i] /\ v[i] = v[i - 1] + (4 + f[i] + 1) /\ f[i] \in Nat
    BY <1>2, <1>3
  <2>3. \A j, k \in Nat : (4 * (i - 1) + (i - 1) + j) + (4 + k + 1) = 4 * i + i + (j + k)
    OBVIOUS
  <2> QED
    BY <2>1, <2>2, <2>3
<1> HIDE DEF P
<1>6. \A i \in 0..n : i \in P
  BY <1>4, <1>5, Induction
<1> QED
  BY <1>3, <1>6 DEF P, g

-----------------------------------------------------------------------------
(* Every packet's prediction is the length of the fields it writes.          *)

Long(fields, n) == fields \in Seq(Nat) /\ n \in Nat /\ Total(fields) = n

\* Sequences of fields written one behind another are as long as they together.
LEMMA Behind ==
    \A a, b, m, n : Long(a, m) /\ Long(b, n) => Long(a \o b, m + n)
  BY TotalOfConcat DEF Long

LEMMA FieldsLong ==
    /\ \A n \in Nat : Long(Arg(n), 4 + n)
    /\ \A text \in [chars : Nat, bytes : Nat] : Long(String(text), 4 + text.bytes + 1)
    /\ Long(Header, 9) /\ Long(Arg(1), 5) /\ Long(Arg(4), 8) /\ Long(Arg(8), 12)
    /\ Long(<<4>>, 4) /\ Long(<<4, 4, 4>>, 12) /\ Long(<<>>, 0)
<1>1. \A n \in Nat : Arg(n) \in Seq(Nat) /\ Total(Arg(n)) = 4 + n
  BY TotalOfFields
<1>2. \A n \in Nat : Long(Arg(n), 4 + n)
  BY <1>1 DEF Long
<1>3. \A text \in [chars : Nat, bytes : Nat] : Long(String(text), 4 + text.bytes + 1)
  <2> SUFFICES ASSUME NEW text \in [chars : Nat, bytes : Nat]
               PROVE  Long(String(text), 4 + text.bytes + 1)
    OBVIOUS
  <2>1. text.bytes \in Nat
    OBVIOUS
  <2>2. String(text) \in Seq(Nat) /\ Total(String(text)) = 4 + text.bytes + 1
    BY TotalOfFields
  <2> QED
    BY <2>1, <2>2 DEF Long
<1>4. Long(Arg(1), 4 + 1) /\ Long(Arg(4), 4 + 4) /\ Long(Arg(8), 4 + 8)
  BY <1>2
<1> QED
  BY <1>2, <1>3, <1>4, TotalOfFields DEF Long

Framed(layout) == Long(layout.fields, layout.length)

\* The longer rows of fields.
LEMMA RowsLong ==
    /\ Long(<<32, 32, 32, 512, 20>>, 628)
    /\ Long(<<5, 1, 1, 1, 1, 1>>, 10)
    /\ Long(<<4, 4, 4, 4>>, 16)
<1>1. Long(<<32, 32, 32, 512, 20>>, 628)
  <2> DEFINE s == <<32, 32, 32, 512, 20>>
  <2>1. s \in Seq(Nat) /\ Len(s) = 5 /\ s[1] = 32 /\ s[2] = 32 /\ s[3] = 32 /\ s[4] = 512 /\ s[5] = 20
    OBVIOUS
  <2> HIDE DEF s
  <2>2. UpTo(s)[0] = 0 /\ \A i \in 1..5 : UpTo(s)[i] = UpTo(s)[i - 1] + s[i]
    <3>1. \A i \in 1..Len(s) : UpTo(s)[i] = UpTo(s)[i - 1] + s[i]
      BY <2>1, UpToProperties, Zenon
    <3>2. UpTo(s)[0] = 0
      BY <2>1, UpToProperties, Zenon
    <3> QED
      BY <2>1, <3>1, <3>2
  <2>3. 1 \in 1..5 /\ 2 \in 1..5 /\ 3 \in 1..5 /\ 4 \in 1..5 /\ 5 \in 1..5
    OBVIOUS
  <2>4. UpTo(s)[1] = UpTo(s)[1 - 1] + 32 /\ UpTo(s)[2] = UpTo(s)[2 - 1] + 32 /\ UpTo(s)[3] = UpTo(s)[3 - 1] + 32 /\ UpTo(s)[4] = UpTo(s)[4 - 1] + 512 /\ UpTo(s)[5] = UpTo(s)[5 - 1] + 20
    BY <2>1, <2>2, <2>3
  <2>5. UpTo(s)[5] = 628
    BY <2>2, <2>4
  <2> QED
    BY <2>1, <2>5 DEF Total, Long, s
<1>2. Long(<<5, 1, 1, 1, 1, 1>>, 10)
  <2> DEFINE s == <<5, 1, 1, 1, 1, 1>>
  <2>1. s \in Seq(Nat) /\ Len(s) = 6 /\ s[1] = 5 /\ s[2] = 1 /\ s[3] = 1 /\ s[4] = 1 /\ s[5] = 1 /\ s[6] = 1
    OBVIOUS
  <2> HIDE DEF s
  <2>2. UpTo(s)[0] = 0 /\ \A i \in 1..6 : UpTo(s)[i] = UpTo(s)[i - 1] + s[i]
    BY <2>1, UpToProperties
  <2>3. 1 \in 1..6 /\ 2 \in 1..6 /\ 3 \in 1..6 /\ 4 \in 1..6 /\ 5 \in 1..6 /\ 6 \in 1..6
    OBVIOUS
  <2>4. UpTo(s)[1] = UpTo(s)[1 - 1] + 5 /\ UpTo(s)[2] = UpTo(s)[2 - 1] + 1 /\ UpTo(s)[3] = UpTo(s)[3 - 1] + 1 /\ UpTo(s)[4] = UpTo(s)[4 - 1] + 1 /\ UpTo(s)[5] = UpTo(s)[5 - 1] + 1 /\ UpTo(s)[6] = UpTo(s)[6 - 1] + 1
    BY <2>1, <2>2, <2>3
  <2>5. UpTo(s)[6] = 10
    BY <2>2, <2>4
  <2> QED
    BY <2>1, <2>5 DEF Total, Long, s
<1>3. Long(<<4, 4, 4, 4>>, 16)
  <2> DEFINE s == <<4, 4, 4, 4>>
  <2>1. s \in Seq(Nat) /\ Len(s) = 4 /\ s[1] = 4 /\ s[2] = 4 /\ s[3] = 4 /\ s[4] = 4
    OBVIOUS
  <2> HIDE DEF s
  <2>2. UpTo(s)[0] = 0 /\ \A i \in 1..4 : UpTo(s)[i] = UpTo(s)[i - 1] + s[i]
    BY <2>1, UpToProperties
  <2>3. 1 \in 1..4 /\ 2 \in 1..4 /\ 3 \in 1..4 /\ 4 \in 1..4
    OBVIOUS
  <2>4. UpTo(s)[1] = UpTo(s)[1 - 1] + 4 /\ UpTo(s)[2] = UpTo(s)[2 - 1] + 4 /\ UpTo(s)[3] = UpTo(s)[3 - 1] + 4 /\ UpTo(s)[4] = UpTo(s)[4 - 1] + 4
    BY <2>1, <2>2, <2>3
  <2>5. UpTo(s)[4] = 16
    BY <2>2, <2>4
  <2> QED
    BY <2>1, <2>5 DEF Total, Long, s
<1> QED
  BY <1>1, <1>2, <1>3

\* The packets whose length does not depend on what they carry.
LEMMA FixedFramed == \A kind \in DOMAIN Fixed : Framed(Fixed[kind])
<1> USE FieldsLong, Behind DEF Framed
<1>1. Framed(CloseDatabasePacket)
  BY DEF CloseDatabasePacket
<1>2. Framed(CommitPacket)
  <2>1. Long(Header \o Arg(1), 9 + 5)
    BY Zenon
  <2> QED
    BY <2>1 DEF CommitPacket
<1>3. Framed(RollbackPacket)
  <2>1. Long(Header \o Arg(1), 9 + 5)
    BY Zenon
  <2> QED
    BY <2>1 DEF RollbackPacket
<1>4. Framed(GetEngineVersionPacket)
  <2>1. Long(Header \o Arg(1), 9 + 5)
    BY Zenon
  <2> QED
    BY <2>1 DEF GetEngineVersionPacket
<1>5. Framed(CloseQueryPacket)
  <2>1. Long(Header \o Arg(4) \o Arg(1), 9 + 8 + 5)
    BY Zenon
  <2> QED
    BY <2>1 DEF CloseQueryPacket
<1>6. Framed(GetDbParameterPacket)
  <2>1. Long(Header \o Arg(4), 9 + 8)
    BY Zenon
  <2> QED
    BY <2>1 DEF GetDbParameterPacket
<1>7. Framed(SetDbParameterPacket)
  <2>1. Long(Header \o Arg(4) \o Arg(4), 9 + 8 + 8)
    BY Zenon
  <2> QED
    BY <2>1 DEF SetDbParameterPacket
<1>8. Framed(LOBNewPacket)
  <2>1. Long(Header \o Arg(4), 9 + 8)
    BY Zenon
  <2> QED
    BY <2>1 DEF LOBNewPacket
<1>9. Framed(FetchPacket)
  <2>1. Long(Header \o Arg(4) \o Arg(4) \o Arg(4) \o Arg(1) \o Arg(4), 9 + 8 + 8 + 8 + 5 + 8)
    BY Zenon
  <2> QED
    BY <2>1 DEF FetchPacket
<1>10. Framed(FetchSchemaPacket)
  <2>1. Long(Header \o Arg(4) \o Arg(4) \o Arg(4) \o Arg(1) \o Arg(4), 9 + 8 + 8 + 8 + 5 + 8)
    BY Zenon
  <2> QED
    BY <2>1 DEF FetchSchemaPacket
<1>11. Framed(OpenDatabasePacket) /\ Framed(ClientInfoExchangePacket)
  BY RowsLong DEF OpenDatabasePacket, ClientInfoExchangePacket
<1> HIDE DEF Framed
<1>12. DOMAIN Fixed = {"CloseDatabase", "Commit", "Rollback", "GetEngineVersion", "CloseQuery", "GetDbParameter",
                       "SetDbParameter", "LOBNew", "OpenDatabase", "ClientInfoExchange", "Fetch", "FetchSchema"}
  BY DEF Fixed
<1>13. /\ Fixed["CloseDatabase"] = CloseDatabasePacket
       /\ Fixed["Commit"] = CommitPacket
       /\ Fixed["Rollback"] = RollbackPacket
       /\ Fixed["GetEngineVersion"] = GetEngineVersionPacket
       /\ Fixed["CloseQuery"] = CloseQueryPacket
       /\ Fixed["GetDbParameter"] = GetDbParameterPacket
       /\ Fixed["SetDbParameter"] = SetDbParameterPacket
       /\ Fixed["LOBNew"] = LOBNewPacket
       /\ Fixed["OpenDatabase"] = OpenDatabasePacket
       /\ Fixed["ClientInfoExchange"] = ClientInfoExchangePacket
       /\ Fixed["Fetch"] = FetchPacket
       /\ Fixed["FetchSchema"] = FetchSchemaPacket
  BY DEF Fixed
<1> QED
  BY <1>1, <1>2, <1>3, <1>4, <1>5, <1>6, <1>7, <1>8, <1>9, <1>10, <1>11, <1>12, <1>13, Zenon

\* The packets that carry texts, and perhaps more for a newer broker.
LEMMA TextsFramed ==
    ASSUME NEW p, NEW text \in [chars : Nat, bytes : Nat], p.text = text
    PROVE  /\ Framed(ExecuteQueryPacket(p))
           /\ Framed(PreparePacket(p))
           /\ Framed(LOBReadPacket(p))
           /\ p.data \in [chars : Nat, bytes : Nat] => Framed(LOBWritePacket(p))
           /\ (p.version \in Nat /\ text.chars = text.bytes) => Framed(GetSchemaPacket(p))
<1> DEFINE b == text.bytes
<1>0. b \in Nat /\ p.text.bytes = b /\ p.text \in [chars : Nat, bytes : Nat]
  OBVIOUS
<1>1. Long(String(p.text), 4 + b + 1) /\ Long(Arg(p.text.bytes), 4 + b)
  BY <1>0, FieldsLong
<1> HIDE DEF b
<1>2. Framed(ExecuteQueryPacket(p))
  <2>1. Long(Header \o Arg(4) \o String(p.text) \o Arg(1) \o Arg(1) \o Arg(1) \o Arg(4)
                       \o Arg(4) \o <<4>> \o <<4, 4, 4>> \o Arg(4),
             9 + 8 + (4 + b + 1) + 5 + 5 + 5 + 8 + 8 + 4 + 12 + 8)
    <3>1. Long(Header \o Arg(4) \o String(p.text) \o Arg(1) \o Arg(1) \o Arg(1),
               9 + 8 + (4 + b + 1) + 5 + 5 + 5)
      BY <1>1, FieldsLong, Behind, Zenon
    <3> QED
      BY <3>1, FieldsLong, Behind, Zenon
  <2> QED
    BY <1>0, <2>1 DEF Framed, ExecuteQueryPacket
<1>3. Framed(PreparePacket(p))
  <2>1. Long(Header \o String(p.text) \o Arg(1) \o Arg(1), 9 + (4 + b + 1) + 5 + 5)
    BY <1>1, FieldsLong, Behind, Zenon
  <2> QED
    BY <1>0, <2>1 DEF Framed, PreparePacket
<1>4. Framed(LOBReadPacket(p))
  <2>1. Long(Header \o Arg(p.text.bytes) \o Arg(8) \o Arg(4), 9 + (4 + b) + 12 + 8)
    BY <1>1, FieldsLong, Behind, Zenon
  <2> QED
    BY <1>0, <2>1 DEF Framed, LOBReadPacket
<1>5. ASSUME p.data \in [chars : Nat, bytes : Nat] PROVE Framed(LOBWritePacket(p))
  <2> DEFINE d == p.data.bytes
             layout == LOBWritePacket(p)
  <2>1. d \in Nat
    BY <1>5
  <2> HIDE DEF d
  <2>2. Long(Arg(d), 4 + d)
    BY <2>1, FieldsLong
  <2>3. Long(Header \o Arg(p.text.bytes) \o Arg(8) \o Arg(d), 9 + (4 + b) + 12 + (4 + d))
    BY <1>1, <2>2, FieldsLong, Behind, Zenon
  <2>4. layout.fields = Header \o Arg(p.text.bytes) \o Arg(8) \o Arg(d)
    BY DEF LOBWritePacket, d
  <2>5. layout.length = 9 + 4 + b + 4 + 8 + 4 + d
    BY <1>0 DEF LOBWritePacket, d
  <2> HIDE DEF layout
  <2>6. layout.length = 9 + (4 + b) + 12 + (4 + d)
    BY <1>0, <2>1, <2>5
  <2>7. Framed(layout)
    BY <2>3, <2>4, <2>6, Zenon DEF Framed
  <2> QED
    BY <2>7 DEF layout
<1>6. ASSUME p.version \in Nat, text.chars = text.bytes PROVE Framed(GetSchemaPacket(p))
  <2> DEFINE pattern == IF p.text = None THEN <<4>> ELSE String(p.text)
             patternLength == IF p.text = None THEN 4 ELSE 4 + b + 1
             shard == IF p.version > 4 THEN Arg(4) ELSE <<>>
             shardLength == IF p.version > 4 THEN 8 ELSE 0
  <2>1. Long(pattern, patternLength)
    BY <1>1, FieldsLong, Behind, Zenon
  <2>2. Long(shard, shardLength)
    BY FieldsLong, Zenon
  <2>3. patternLength \in Nat /\ shardLength \in Nat
    BY <1>0
  <2> HIDE DEF pattern, patternLength, shard, shardLength
  <2>4. Long(Header \o Arg(4) \o pattern \o <<4>> \o Arg(1) \o shard,
             9 + 8 + patternLength + 4 + 5 + shardLength)
    BY <2>1, <2>2, FieldsLong, Behind, Zenon
  <2>5. p.text.chars = b
    BY <1>6 DEF b
  <2> DEFINE layout == GetSchemaPacket(p)
  <2>6. layout.fields = Header \o Arg(4) \o pattern \o <<4>> \o Arg(1) \o shard
    BY DEF GetSchemaPacket, pattern, shard
  <2>7. layout.length = 9 + 8 + patternLength + 4 + 5 + shardLength
    <3>1. layout.length = 9 + 3 * 4 + (IF p.text = None THEN 0 ELSE b + 1) + 2 * 4 + 1
                            + (IF p.version > 4 THEN 2 * 4 ELSE 0)
      BY <2>5 DEF GetSchemaPacket
    <3> HIDE DEF layout
    <3>2. CASE p.text = None
      BY <1>0, <1>6, <3>1, <3>2 DEF patternLength, shardLength
    <3>3. CASE p.text # None
      BY <1>0, <1>6, <3>1, <3>3 DEF patternLength, shardLength
    <3> QED
      BY <3>2, <3>3
  <2> HIDE DEF layout
  <2>8. Framed(layout)
    BY <2>4, <2>6, <2>7, Zenon DEF Framed
  <2> QED
    BY <2>8 DEF layout
<1> QED
  BY <1>2, <1>3, <1>4, <1>5, <1>6

\* A batch announces each statement's length, text and end.
LEMMA BatchFramed ==
    ASSUME NEW p, NEW n \in Nat, NEW texts \in [1..n -> [chars : Nat, bytes : Nat]],
           p.texts = texts, p.version \in Nat
    PROVE  Framed(BatchExecuteNoQueryPacket(p))
<1> DEFINE sizes == [i \in 1..n |-> texts[i].bytes]
           strings == [i \in 1..n |-> String(texts[i])]
           timeout == IF p.version > 3 THEN Arg(4) ELSE <<>>
           layout == BatchExecuteNoQueryPacket(p)
<1>1. DOMAIN texts = 1..n /\ Len(texts) = n
  OBVIOUS
<1>2. sizes \in [1..n -> Nat] /\ Total(sizes) \in Nat
  <2>1. sizes \in [1..n -> Nat]
    OBVIOUS
  <2>2. sizes \in Seq(Nat)
    BY <2>1
  <2> QED
    BY <2>1, <2>2, TotalIsNat
<1>3. Long(FlattenSeq(strings), 4 * n + n + Total(sizes))
  <2>1. \A i \in 1..n : /\ String(texts[i]) \in Seq(Nat)
                        /\ Total(String(texts[i])) = 4 + sizes[i] + 1
    BY TotalOfFields
  <2>2. strings \in [1..n -> Seq(Nat)] /\ \A i \in 1..n : Total(strings[i]) = 4 + sizes[i] + 1
    BY <2>1
  <2> HIDE DEF strings, sizes
  <2>3. /\ FlattenSeq(strings) \in Seq(Nat)
        /\ Total(FlattenSeq(strings)) = Total([i \in 1..n |-> Total(strings[i])])
    BY <2>2, TotalOfFlattened
  <2>4. [i \in 1..n |-> Total(strings[i])] = [i \in 1..n |-> 4 + sizes[i] + 1]
    BY <2>2
  <2>5. Total([i \in 1..n |-> 4 + sizes[i] + 1]) = 4 * n + n + Total(sizes)
    BY <1>2, TotalOfLonger
  <2>6. 4 * n + n + Total(sizes) \in Nat
    BY <1>2
  <2> QED
    BY <2>3, <2>4, <2>5, <2>6, Zenon DEF Long
<1>4. Long(timeout, TimeoutLength(p.version)) /\ TimeoutLength(p.version) \in Nat
  <2>1. CASE p.version > 3
    BY <2>1, FieldsLong DEF TimeoutLength
  <2>2. CASE ~(p.version > 3)
    BY <2>2, FieldsLong DEF TimeoutLength
  <2> QED
    BY <2>1, <2>2
<1>5. /\ layout.fields = Header \o Arg(1) \o timeout \o FlattenSeq(strings)
      /\ layout.length = 9 + 4 + 1 + TimeoutLength(p.version) + 4 * n + n + Total(sizes)
  BY <1>1 DEF BatchExecuteNoQueryPacket
<1> HIDE DEF sizes, strings, timeout, layout
<1>6. Long(Header \o Arg(1) \o timeout \o FlattenSeq(strings),
           9 + 5 + TimeoutLength(p.version) + (4 * n + n + Total(sizes)))
  BY <1>3, <1>4, FieldsLong, Behind, Zenon
<1>7. layout.length = 9 + 5 + TimeoutLength(p.version) + (4 * n + n + Total(sizes))
  BY <1>2, <1>4, <1>5
<1>8. Framed(layout)
  BY <1>5, <1>6, <1>7, Zenon DEF Framed
<1> QED
  BY <1>8 DEF layout

\* Every value is written as long as it is predicted, whatever its type.
LEMMA ParamValueFramed ==
    ASSUME NEW param \in [type : ParamTypes, text : [chars : Nat, bytes : Nat]]
    PROVE  Long(WriteParamValue(param), ParamValueLength(param))
<1> DEFINE b == param.text.bytes
<1>0. b \in Nat /\ param.text \in [chars : Nat, bytes : Nat] /\ param.type \in ParamTypes
  OBVIOUS
<1>1. Long(String(param.text), 4 + b + 1) /\ Long(Arg(b), 4 + b)
  BY <1>0, FieldsLong
<1> HIDE DEF b
<1>2. CASE param.type = "text"
  <2>1. Long(Arg(1) \o String(param.text), 5 + (4 + b + 1))
    BY <1>1, FieldsLong, Behind, Zenon
  <2> QED
    BY <1>0, <1>2, <2>1 DEF WriteParamValue, ParamValueLength, b
<1>3. CASE param.type \in {"object", "resultset"}
  <2>1. Long(Arg(1) \o <<4, 1>>, 5 + 5)
    BY FieldsLong, Behind, Zenon DEF Arg
  <2> QED
    BY <1>3, <2>1 DEF WriteParamValue, ParamValueLength
<1>4. CASE param.type = "bit"
  <2>1. Long(Arg(1) \o Arg(b), 5 + (4 + b))
    BY <1>1, FieldsLong, Behind, Zenon
  <2> QED
    BY <1>0, <1>4, <2>1 DEF WriteParamValue, ParamValueLength, b
<1>5. CASE param.type = "lob"
  <2>1. Long(Arg(1) \o (<<4, 4, 4, 4>> \o String(param.text)), 5 + (16 + (4 + b + 1)))
    BY <1>1, FieldsLong, RowsLong, Behind, Zenon
  <2> QED
    BY <1>0, <1>5, <2>1 DEF WriteParamValue, ParamValueLength, b
<1>6. CASE param.type \in DOMAIN ParamSize
  <2> DEFINE size == ParamSize[param.type]
  <2>1. size \in Nat /\ param.type \notin {"text", "object", "resultset", "bit", "lob"}
    BY <1>6 DEF ParamSize
  <2>2. /\ WriteParamValue(param) = Arg(1) \o Arg(size)
        /\ ParamValueLength(param) = 4 + 1 + (4 + size)
    BY <2>1 DEF WriteParamValue, ParamValueLength
  <2> HIDE DEF size
  <2>3. Long(Arg(1) \o Arg(size), 5 + (4 + size))
    BY <2>1, FieldsLong, Behind, Zenon
  <2> QED
    BY <2>1, <2>2, <2>3
<1> QED
  BY <1>0, <1>2, <1>3, <1>4, <1>5, <1>6 DEF ParamTypes, ParamSize

\* An execute announces the length of each of its values.
LEMMA ExecuteFramed ==
    ASSUME NEW p, NEW n \in Nat,
           NEW params \in [1..n -> [type : ParamTypes, text : [chars : Nat, bytes : Nat]]],
           p.params = params
    PROVE  Framed(ExecutePacket(p))
<1> DEFINE sizes == [i \in 1..n |-> ParamValueLength(params[i])]
           values == [i \in 1..n |-> WriteParamValue(params[i])]
           layout == ExecutePacket(p)
<1>1. DOMAIN params = 1..n
  OBVIOUS
<1>2. \A i \in 1..n : /\ WriteParamValue(params[i]) \in Seq(Nat)
                      /\ ParamValueLength(params[i]) \in Nat
                      /\ Total(WriteParamValue(params[i])) = ParamValueLength(params[i])
  BY ParamValueFramed DEF Long
<1>3. /\ values \in [1..n -> Seq(Nat)] /\ sizes \in [1..n -> Nat]
      /\ \A i \in 1..n : Total(values[i]) = sizes[i]
  BY <1>2
<1>4. layout.length = 9 + 16 * 4 + 4 * 1 + Total(sizes)
  BY <1>1 DEF ExecutePacket
<1>5. layout.fields = Header \o Arg(4) \o Arg(1) \o Arg(4) \o Arg(4) \o <<4>> \o Arg(1) \o Arg(1)
                             \o Arg(1) \o <<4, 4, 4>> \o Arg(4) \o FlattenSeq(values)
  BY <1>1 DEF ExecutePacket
<1>6. sizes = [i \in 1..n |-> Total(values[i])]
  BY <1>3
<1> HIDE DEF sizes, values, layout
<1>7. FlattenSeq(values) \in Seq(Nat) /\ Total(FlattenSeq(values)) = Total(sizes)
  BY <1>3, <1>6, TotalOfFlattened
<1>8. Long(FlattenSeq(values), Total(sizes)) /\ Total(sizes) \in Nat
  BY <1>7, TotalIsNat DEF Long
<1>9. Long(Header \o Arg(4) \o Arg(1) \o Arg(4) \o Arg(4) \o <<4>> \o Arg(1) \o Arg(1)
                  \o Arg(1) \o <<4, 4, 4>> \o Arg(4) \o FlattenSeq(values),
           9 + 8 + 5 + 8 + 8 + 4 + 5 + 5 + 5 + 12 + 8 + Total(sizes))
  <2>1. Long(Header \o Arg(4) \o Arg(1) \o Arg(4) \o Arg(4) \o <<4>>, 9 + 8 + 5 + 8 + 8 + 4)
    BY FieldsLong, Behind, Zenon
  <2> QED
    <3>1. Long(Header \o Arg(4) \o Arg(1) \o Arg(4) \o Arg(4) \o <<4>> \o Arg(1) \o Arg(1) \o Arg(1),
               9 + 8 + 5 + 8 + 8 + 4 + 5 + 5 + 5)
      BY <2>1, FieldsLong, Behind, Zenon
    <3> QED
      BY <1>8, <3>1, FieldsLong, Behind, Zenon
<1>10. layout.length = 9 + 8 + 5 + 8 + 8 + 4 + 5 + 5 + 5 + 12 + 8 + Total(sizes)
  BY <1>4, <1>8
<1>11. Framed(layout)
  BY <1>5, <1>9, <1>10, Zenon DEF Framed
<1> QED
  BY <1>11 DEF layout

\* Every packet is framed: its fields are as long together as it predicts.
LEMMA EveryPacketIsFramed == \A p \in Packets : Framed(Layout(p))
<1> SUFFICES ASSUME NEW p \in Packets PROVE Framed(Layout(p))
  OBVIOUS
<1> USE FramingAssumption
<1>0. Texts \cup Patterns \cup {None} \subseteq [chars : Nat, bytes : Nat]
  BY DEF FramingAssumption, None
<1>1. CASE p \in [kind : DOMAIN Fixed]
  <2>1. p.kind \in DOMAIN Fixed
    BY <1>1
  <2>2. p.kind \notin {"ExecuteQuery", "Prepare", "Execute", "LOBRead", "LOBWrite", "GetSchema", "Batch"}
    BY <2>1 DEF Fixed
  <2>3. Layout(p) = Fixed[p.kind]
    BY <2>1, <2>2 DEF Layout
  <2> QED
    BY <2>1, <2>3, FixedFramed, Zenon
<1>2. CASE p \in [kind : {"ExecuteQuery", "Prepare", "LOBRead"}, text : Texts]
  <2>1. p.text \in [chars : Nat, bytes : Nat] /\ p.kind \in {"ExecuteQuery", "Prepare", "LOBRead"}
    BY <1>0, <1>2
  <2>2. Framed(ExecuteQueryPacket(p)) /\ Framed(PreparePacket(p)) /\ Framed(LOBReadPacket(p))
    BY <2>1, TextsFramed
  <2> QED
    BY <2>1, <2>2 DEF Layout, Fixed
<1>3. CASE p \in [kind : {"LOBWrite"}, text : Texts, data : Texts]
  <2>1. /\ p.text \in [chars : Nat, bytes : Nat] /\ p.data \in [chars : Nat, bytes : Nat]
        /\ p.kind = "LOBWrite"
    BY <1>0, <1>3
  <2>2. Framed(LOBWritePacket(p))
    BY <2>1, TextsFramed
  <2> QED
    BY <2>1, <2>2 DEF Layout, Fixed
<1>4. CASE p \in [kind : {"GetSchema"}, text : Patterns \cup {None}, version : Versions]
  <2>0. p.text \in Patterns \cup {None} /\ p.version \in Versions /\ p.kind = "GetSchema"
    BY <1>4
  <2>1. /\ p.text \in [chars : Nat, bytes : Nat] /\ p.text.chars = p.text.bytes
        /\ p.version \in Nat /\ p.kind = "GetSchema"
    <3>1. CASE p.text \in Patterns
      BY <1>0, <2>0, <3>1 DEF FramingAssumption
    <3>2. CASE p.text = None
      <4>1. None \in [chars : Nat, bytes : Nat] /\ None.chars = None.bytes
        BY DEF None
      <4>2. p.version \in Nat
        BY <2>0 DEF FramingAssumption
      <4> QED
        BY <2>0, <3>2, <4>1, <4>2, Zenon
    <3> QED
      BY <2>0, <3>1, <3>2
  <2>2. Framed(GetSchemaPacket(p))
    BY <2>1, TextsFramed
  <2> QED
    BY <2>1, <2>2 DEF Layout, Fixed
<1>5. CASE p \in [kind : {"Batch"}, texts : BoundedSeq(Texts, MaxTexts), version : Versions]
  <2>1. p.texts \in BoundedSeq(Texts, MaxTexts) /\ p.version \in Nat /\ p.kind = "Batch"
    BY <1>5 DEF FramingAssumption
  <2>2. PICK n \in 0..MaxTexts : p.texts \in [1..n -> Texts]
    BY <2>1 DEF BoundedSeq, SeqOf
  <2>3. n \in Nat /\ p.texts \in [1..n -> [chars : Nat, bytes : Nat]]
    BY <1>0, <2>2 DEF FramingAssumption
  <2>4. Framed(BatchExecuteNoQueryPacket(p))
    BY <2>1, <2>3, BatchFramed
  <2> QED
    BY <2>1, <2>4 DEF Layout, Fixed
<1>6. CASE p \in [kind : {"Execute"}, params : BoundedSeq(Param, MaxTexts)]
  <2>1. p.params \in BoundedSeq(Param, MaxTexts) /\ p.kind = "Execute"
    BY <1>6
  <2>2. PICK n \in 0..MaxTexts : p.params \in [1..n -> Param]
    BY <2>1 DEF BoundedSeq, SeqOf
  <2>3. /\ n \in Nat
        /\ p.params \in [1..n -> [type : ParamTypes, text : [chars : Nat, bytes : Nat]]]
    BY <1>0, <2>2 DEF FramingAssumption, Param
  <2>4. Framed(ExecutePacket(p))
    BY <2>3, ExecuteFramed
  <2> QED
    BY <2>1, <2>4 DEF Layout, Fixed
<1> QED
  BY <1>1, <1>2, <1>3, <1>4, <1>5, <1>6 DEF Packets

-----------------------------------------------------------------------------
(* The exchange.                                                             *)

\* What is written and what is still to be written are as long together as the
\* header says, so the buffer never grows.
WriterInv ==
    /\ phase = "writing" => offset + Total(todo) = declared /\ capacity = declared
    /\ RequestIsFramed

\* The first listener has not seen the length yet, the second one not the end.
ReaderInv ==
    /\ phase = "sent" => listener \in {"first", "remaining"} /\ response \in Responses
    /\ phase # "sent" => listener = "none"
    /\ listener = "first" => total < 4 /\ expected = 0
    /\ listener = "remaining" => expected = response /\ total < response
    /\ ParsedWhole

IInv == TypeOK /\ WriterInv /\ ReaderInv

LEMMA MaxOfTwo == \A a, b \in Nat : b <= a => Max({a, b}) = a
<1> SUFFICES ASSUME NEW a \in Nat, NEW b \in Nat, b <= a PROVE Max({a, b}) = a
  OBVIOUS
<1>1. a \in {a, b} /\ \A y \in {a, b} : a >= y
  OBVIOUS
<1>2. \A x \in {a, b} : (\A y \in {a, b} : x >= y) => x = a
  OBVIOUS
<1> QED
  BY <1>1, <1>2 DEF Max

LEMMA MaxOfResponses == Max(Responses) \in Responses
<1>1. PICK longest \in Responses : \A n \in Responses : n <= longest
  BY FramingAssumption DEF FramingAssumption
<1>2. \A n \in Responses : longest >= n
  BY <1>1, FramingAssumption DEF FramingAssumption
<1> QED
  BY <1>2 DEF Max

LEMMA InitHolds == Init => IInv
<1> SUFFICES ASSUME Init PROVE IInv
  OBVIOUS
<1>1. packet \in Packets
  BY DEF Init, Packets, Fixed
<1>2. todo \in Seq(Nat)
  BY DEF Init
<1> QED
  BY <1>1, <1>2 DEF Init, IInv, TypeOK, WriterInv, ReaderInv, RequestIsFramed, ParsedWhole

\* A new packet starts with all of its fields to be written.
LEMMA BeginKeeps == \A p \in Packets : IInv /\ Begin(p) => IInv'
<1> SUFFICES ASSUME NEW p \in Packets, IInv, Begin(p) PROVE IInv'
  OBVIOUS
<1>1. Long(Layout(p).fields, Layout(p).length)
  BY EveryPacketIsFramed DEF Framed
<1>2. /\ packet' = p /\ todo' \in Seq(Nat) /\ offset' = 0 /\ phase' = "writing"
      /\ declared' \in Nat /\ capacity' = declared' /\ Total(todo') = declared'
      /\ phase \in {"idle", "answered"} /\ UNCHANGED readerVars
  BY <1>1 DEF Begin, Long
<1>3. offset' + Total(todo') = declared'
  <2>1. \A x \in Nat : 0 + x = x
    OBVIOUS
  <2> QED
    BY <1>2, <2>1, Zenon
<1>4. TypeOK'
  BY <1>2 DEF IInv, TypeOK, readerVars
<1>5. WriterInv'
  BY <1>2, <1>3 DEF WriterInv, RequestIsFramed
<1>6. ReaderInv'
  BY <1>2 DEF IInv, ReaderInv, readerVars, ParsedWhole
<1> QED
  BY <1>4, <1>5, <1>6 DEF IInv

\* A field moves from what is to be written to what is written.
LEMMA WriteFieldKeeps == IInv /\ WriteField => IInv'
<1> SUFFICES ASSUME IInv, WriteField PROVE IInv'
  OBVIOUS
<1> DEFINE n == Head(todo)
<1>1. /\ phase = "writing" /\ todo \in Seq(Nat) /\ todo # <<>>
      /\ offset \in Nat /\ capacity \in Nat /\ declared \in Nat
      /\ offset + Total(todo) = declared /\ capacity = declared
  BY DEF IInv, TypeOK, WriterInv, WriteField
<1>2. /\ offset' = offset + n /\ capacity' = Max({capacity, offset + n}) /\ todo' = Tail(todo)
      /\ UNCHANGED <<packet, declared, phase, listener, response, total, expected>>
  BY DEF WriteField, Allocate, readerVars
<1>3. n \in Nat /\ Tail(todo) \in Seq(Nat) /\ todo = <<n>> \o Tail(todo)
  BY <1>1, HeadTailProperties
<1> HIDE DEF n
<1>4. Total(todo) = n + Total(Tail(todo)) /\ Total(Tail(todo)) \in Nat
  <2>1. <<n>> \in Seq(Nat) /\ Total(<<n>>) = n
    BY <1>3, TotalOfOne
  <2>2. Total(<<n>> \o Tail(todo)) = Total(<<n>>) + Total(Tail(todo))
    BY <1>3, <2>1, TotalOfConcat
  <2> QED
    BY <1>3, <2>1, <2>2, TotalIsNat
<1>5. offset + n \in Nat /\ offset + n <= capacity /\ (offset + n) + Total(Tail(todo)) = declared
  BY <1>1, <1>3, <1>4
<1>6. capacity' = capacity
  BY <1>1, <1>2, <1>5, MaxOfTwo
<1>7. TypeOK'
  BY <1>1, <1>2, <1>3, <1>5, <1>6 DEF IInv, TypeOK
<1>8. WriterInv'
  BY <1>1, <1>2, <1>5, <1>6 DEF WriterInv, RequestIsFramed
<1>9. ReaderInv'
  BY <1>1, <1>2 DEF IInv, ReaderInv, ParsedWhole
<1> QED
  BY <1>7, <1>8, <1>9 DEF IInv

\* A request is sent when no field of it is left.
LEMMA SendKeeps == IInv /\ Send => IInv'
<1> SUFFICES ASSUME IInv, Send PROVE IInv'
  OBVIOUS
<1>1. offset \in Nat /\ offset + Total(todo) = declared /\ capacity = declared /\ Total(todo) = 0
  BY TotalOfNone DEF IInv, TypeOK, WriterInv, Send
<1>2. TypeOK'
  BY DEF IInv, TypeOK, Send, writerVars
<1>3. WriterInv'
  BY <1>1 DEF WriterInv, RequestIsFramed, Send, writerVars
<1>4. ReaderInv'
  BY DEF ReaderInv, ParsedWhole, Send
<1> QED
  BY <1>2, <1>3, <1>4 DEF IInv

\* A piece of the response shows its length, completes it, or does neither.
LEMMA ReceiveKeeps == \A n \in Nat : IInv /\ Receive(n) => IInv'
<1> SUFFICES ASSUME NEW n \in Nat, IInv, Receive(n) PROVE IInv'
  OBVIOUS
<1>1. /\ phase = "sent" /\ total \in Nat /\ expected \in Nat /\ response \in Nat
      /\ total + n <= response /\ total' = total + n /\ response >= 8
      /\ UNCHANGED <<packet, todo, offset, capacity, declared, response>>
  BY FramingAssumption
     DEF FramingAssumption, IInv, TypeOK, ReaderInv, Receive, ReceiveFirst, ReceiveRemaining, writerVars
<1>2. CASE ReceiveFirst(n)
  <2>1. CASE ~LengthKnown(total') /\ UNCHANGED <<listener, expected, phase>>
    <3>1. total' < 4
      BY <1>1, <2>1 DEF LengthKnown
    <3> QED
      BY <1>1, <1>2, <2>1, <3>1
         DEF IInv, TypeOK, WriterInv, RequestIsFramed, ReaderInv, ParsedWhole, ReceiveFirst
  <2>2. CASE LengthKnown(total') /\ expected' = LengthOf(total')
    <3>1. expected' = response
      BY <1>1, <2>2 DEF LengthKnown, LengthOf
    <3>2. CASE total' >= expected'
      <4>1. listener' = "none" /\ phase' = "answered" /\ total' = response
        BY <1>1, <1>2, <2>2, <3>1, <3>2 DEF ReceiveFirst
      <4> QED
        BY <1>1, <3>1, <4>1
           DEF IInv, TypeOK, WriterInv, RequestIsFramed, ReaderInv, ParsedWhole
    <3>3. CASE ~(total' >= expected')
      <4>1. listener' = "remaining" /\ phase' = phase /\ total' < response
        BY <1>1, <1>2, <2>2, <3>1, <3>3 DEF ReceiveFirst
      <4> QED
        BY <1>1, <3>1, <4>1
           DEF IInv, TypeOK, WriterInv, RequestIsFramed, ReaderInv, ParsedWhole
    <3> QED
      BY <3>2, <3>3
  <2> QED
    BY <1>2, <2>1, <2>2 DEF ReceiveFirst
<1>3. CASE ReceiveRemaining(n)
  <2>1. expected' = expected /\ expected = response /\ listener = "remaining"
    BY <1>3 DEF IInv, ReaderInv, ReceiveRemaining
  <2>2. CASE AllThere(total')
    <3>1. listener' = "none" /\ phase' = "answered" /\ total' = response
      BY <1>3, <2>1, <2>2 DEF ReceiveRemaining, AllThere
    <3> QED
      BY <1>1, <2>1, <3>1
         DEF IInv, TypeOK, WriterInv, RequestIsFramed, ReaderInv, ParsedWhole
  <2>3. CASE ~AllThere(total')
    <3>1. listener' = "remaining" /\ phase' = phase /\ total' < response
      BY <1>1, <1>3, <2>1, <2>3 DEF ReceiveRemaining, AllThere
    <3> QED
      BY <1>1, <2>1, <3>1
         DEF IInv, TypeOK, WriterInv, RequestIsFramed, ReaderInv, ParsedWhole
  <2> QED
    BY <2>2, <2>3
<1> QED
  BY <1>2, <1>3 DEF Receive

LEMMA StepHolds == IInv /\ [Next]_vars => IInv'
<1> SUFFICES ASSUME IInv, [Next]_vars PROVE IInv'
  OBVIOUS
<1>1. ASSUME NEW p \in Packets, Begin(p) PROVE IInv'
  BY <1>1, BeginKeeps
<1>2. CASE WriteField
  BY <1>2, WriteFieldKeeps
<1>3. CASE Send
  BY <1>3, SendKeeps
<1>4. ASSUME NEW n \in 1..Max(Responses), Receive(n) PROVE IInv'
  <2>1. n \in Nat
    BY MaxOfResponses, FramingAssumption DEF FramingAssumption
  <2> QED
    BY <1>4, <2>1, ReceiveKeeps
<1>5. CASE UNCHANGED vars
  BY <1>5 DEF vars, writerVars, readerVars, IInv, TypeOK, WriterInv, RequestIsFramed, ReaderInv, ParsedWhole
<1> QED
  BY <1>1, <1>2, <1>3, <1>4, <1>5 DEF Next

-----------------------------------------------------------------------------
\* The writer's and the reader's invariants hold together throughout.
THEOREM InvariantHolds == Spec => []IInv
  BY InitHolds, StepHolds, PTL DEF Spec

\* The state keeps its types.
THEOREM TypeCorrect == Spec => []TypeOK
<1>1. IInv => TypeOK
  BY DEF IInv
<1> QED
  BY <1>1, InvariantHolds, PTL

\* Whatever a request carries, the server is told its true length, and the buffer
\* is neither too short for it nor too long.
THEOREM RequestsAreFramed == Spec => []RequestIsFramed
<1>1. IInv => RequestIsFramed
  BY DEF IInv, WriterInv
<1> QED
  BY <1>1, InvariantHolds, PTL

\* However TCP cuts a response, exactly the whole of it reaches the parser.
THEOREM ResponsesParsedWhole == Spec => []ParsedWhole
<1>1. IInv => ParsedWhole
  BY DEF IInv, ReaderInv
<1> QED
  BY <1>1, InvariantHolds, PTL
=============================================================================

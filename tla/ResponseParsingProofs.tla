----------------------- MODULE ResponseParsingProofs ------------------------
(***************************************************************************)
(* Proofs about the parsing of responses, for any calls and any number of   *)
(* values of a byte.                                                        *)
(***************************************************************************)
EXTENDS ResponseParsing, PacketCodecProofs

-----------------------------------------------------------------------------
(* What the server sends is bytes.                                           *)

Byte == 0..(Base - 1)

\* The server's numbers are laid out as the client's writer lays them out.
LEMMA OctetsWritten ==
    /\ \A n, size : Octets(n, size) = WriteNum(n, size)
    /\ \A n : Int4(n) = WriteInt(n)
<1>1. \A n, size : Octets(n, size) = WriteNum(n, size)
  BY DEF Octets, WriteNum
<1> QED
  BY <1>1 DEF Int4, WriteInt

\* Every type has its own number, which fits into the five bits of a byte that say it.
LEMMA TypeNumbers ==
    /\ \A type \in Types : CUBRIDDataType[type] \in 0..32
    /\ \A type \in Types \ {"null"} : CUBRIDDataType[type] # 0
    /\ \A type, other \in Types : CUBRIDDataType[type] = CUBRIDDataType[other] => type = other
BY DEF CUBRIDDataType, Types

\* The type of a value says what its bytes are.
LEMMA ValueOctetsOf ==
    ASSUME NEW type \in Types, NEW v
    PROVE  /\ type \in TextTypes \cup {"numeric"} => ValueOctets(type, v) = v \o <<0>>
           /\ type = "short" => ValueOctets(type, v) = Octets(v, 2)
           /\ type \in {"int", "resultset"} => ValueOctets(type, v) = Int4(v)
           /\ type = "bigint" => ValueOctets(type, v) = Long8(v)
           /\ type \in {"float", "double", "monetary", "bit", "varbit"} => ValueOctets(type, v) = v
           /\ type \in {"date", "time", "timestamp", "datetime"} => ValueOctets(type, v) = Shorts2(v)
           /\ type \in ZonedTypes => ValueOctets(type, v) = Shorts2(v[1]) \o v[2] \o <<0>>
           /\ type = "object" => ValueOctets(type, v) = Int4(v[1]) \o Octets(v[2], 2) \o Octets(v[3], 2)
           /\ type \in SetTypes =>
                 ValueOctets(type, v) = Int4(v[1]) \o Int4(v[2]) \o [i \in 1..(v[1] * v[2]) |-> 0]
           /\ type \in LobTypes => ValueOctets(type, v) = LobOctets(type, v)
<1> USE DEF TextTypes, ZonedTypes, SetTypes, LobTypes
<1> QED
  BY DEF ValueOctets

\* ValuesOf, type by type.
LEMMA ValuesOfType ==
    ASSUME NEW type \in Types
    PROVE  /\ type \in TextTypes \cup {"numeric", "bit", "varbit"} => ValuesOf(type) = Bytes
           /\ type = "short" => ValuesOf(type) = SignedWords
           /\ type \in {"int", "resultset"} => ValuesOf(type) = Ints
           /\ type = "bigint" => ValuesOf(type) = LongInts(Ints)
           /\ type = "float" => ValuesOf(type) = [1..4 -> 0..(Base - 1)]
           /\ type \in {"double", "monetary"} => ValuesOf(type) = [1..8 -> 0..(Base - 1)]
           /\ type \in {"date", "time"} => ValuesOf(type) = Fields(3)
           /\ type = "timestamp" => ValuesOf(type) = Fields(6)
           /\ type = "datetime" => ValuesOf(type) = Fields(7)
           /\ type \in {"timestamptz", "timestampltz"} => ValuesOf(type) = Fields(6) \X Bytes
           /\ type \in {"datetimetz", "datetimeltz"} => ValuesOf(type) = Fields(7) \X Bytes
           /\ type = "object" => ValuesOf(type) = Ints \X Words \X Words
           /\ type \in SetTypes => ValuesOf(type) = Lengths \X Lengths
           /\ type \in LobTypes => ValuesOf(type) = LobHandles
<1> USE DEF TextTypes, ZonedTypes, SetTypes, LobTypes
<1> QED
  BY DEF ValuesOf

\* Every type is one of these.
LEMMA EachType ==
    ASSUME NEW type \in Types
    PROVE  \/ type \in TextTypes \cup {"numeric"} \/ type = "short" \/ type \in {"int", "resultset"}
           \/ type = "bigint" \/ type \in {"bit", "varbit"} \/ type = "float"
           \/ type \in {"double", "monetary"} \/ type \in {"date", "time"} \/ type = "timestamp"
           \/ type = "datetime" \/ type \in {"timestamptz", "timestampltz"}
           \/ type \in {"datetimetz", "datetimeltz"} \/ type = "object" \/ type \in SetTypes
           \/ type \in LobTypes \/ type = "null"
BY DEF Types, CUBRIDDataType, TextTypes, SetTypes, LobTypes

\* Bytes, one after the other.
LEMMA ByteBytes ==
    ASSUME NEW b \in Byte
    PROVE  <<b>> \in Bytes /\ Len(<<b>>) = 1
BY DEF Bytes, Byte

\* Single bytes that responses hold.
LEMMA FewBytes ==
    /\ 0 \in Byte /\ 1 \in Byte /\ 20 \in Byte /\ <<>> \in Bytes /\ Len(<<>>) = 0
    /\ <<0>> \in Bytes /\ Len(<<0>>) = 1
    /\ \A type \in Types : CUBRIDDataType[type] \in Byte
<1>1. Base \in Nat /\ Base > 32
  BY Spans
<1>2. 0 \in Byte /\ 1 \in Byte /\ 20 \in Byte
  BY <1>1 DEF Byte
<1>3. <<>> \in Bytes
  BY DEF Bytes
<1>4. \A type \in Types : CUBRIDDataType[type] \in Byte
  BY <1>1, TypeNumbers DEF Byte
<1> QED
  BY <1>2, <1>3, <1>4, ByteBytes

\* Numbers of two and four bytes.
LEMMA NumBytes ==
    ASSUME NEW n \in Int
    PROVE  /\ Octets(n, 2) \in Bytes /\ Len(Octets(n, 2)) = 2
           /\ Int4(n) \in Bytes /\ Len(Int4(n)) = 4
BY WriteNumIsBytes, WriteIntIsBytes, OctetsWritten

\* Three sequences of bytes, one behind another.
LEMMA Concat3 ==
    ASSUME NEW x \in Bytes, NEW y \in Bytes, NEW z \in Bytes
    PROVE  x \o y \o z \in Bytes /\ Len(x \o y \o z) = Len(x) + Len(y) + Len(z)
<1>1. x \o y \in Bytes /\ Len(x \o y) = Len(x) + Len(y)
  BY BytesConcat
<1> QED
  BY <1>1, BytesConcat

\* BytesAt, for three.
LEMMA Split3 ==
    ASSUME NEW b \in Bytes, NEW o, NEW x \in Bytes, NEW y \in Bytes, NEW z \in Bytes, At(b, o, x \o y \o z)
    PROVE  At(b, o, x) /\ At(b, o + Len(x), y) /\ At(b, o + (Len(x) + Len(y)), z)
<1>1. x \o y \in Bytes /\ Len(x \o y) = Len(x) + Len(y)
  BY BytesConcat
<1>2. At(b, o, x \o y) /\ At(b, o + Len(x \o y), z)
  BY <1>1, BytesAt
<1> QED
  BY <1>1, <1>2, BytesAt

\* A text as the server sends it: four bytes of length and a last zero.
LEMMA TextBytes ==
    ASSUME NEW x \in Bytes
    PROVE  Text(x) \in Bytes /\ Len(Text(x)) = Len(x) + 5 /\ Len(x) \in Nat
<1>1. Len(x) \in Nat
  BY BytesProperties
<1>2. Int4(Len(x) + 1) \in Bytes /\ Len(Int4(Len(x) + 1)) = 4
  BY <1>1, NumBytes
<1> DEFINE length == Int4(Len(x) + 1)
<1>3. Text(x) = length \o x \o <<0>>
  BY DEF Text
<1> HIDE DEF length
<1>4. Text(x) \in Bytes /\ Len(Text(x)) = 4 + Len(x) + 1
  <2>1. length \in Bytes /\ <<0>> \in Bytes /\ Len(length) = 4 /\ Len(<<0>>) = 1
    BY <1>2, FewBytes DEF length
  <2> DEFINE zero == <<0>>
  <2> HIDE DEF zero
  <2>2. length \o x \o zero \in Bytes /\ Len(length \o x \o zero) = Len(length) + Len(x) + Len(zero)
    BY <2>1, Concat3 DEF zero
  <2> QED
    BY <1>3, <2>1, <2>2 DEF zero
<1> QED
  BY <1>1, <1>4

\* Numbers of two bytes, one after the other.
LEMMA ShortsBytes ==
    ASSUME NEW n \in Nat, NEW f \in [1..n -> Int]
    PROVE  /\ Shorts2(f) \in Bytes /\ Len(Shorts2(f)) = 2 * n
           /\ \A b \in Bytes : \A o :
                 At(b, o, Shorts2(f)) => \A i \in 1..n : At(b, o + 2 * (i - 1), Octets(f[i], 2))
<1> DEFINE parts == [i \in 1..n |-> Octets(f[i], 2)]
<1>1. Shorts2(f) = FlattenSeq(parts)
  BY DEF Shorts2
<1>2. \A i \in 1..n : parts[i] \in Bytes /\ Len(parts[i]) = 2
  BY NumBytes
<1>3. parts \in Seq(Bytes) /\ Len(parts) = n
  BY <1>2
<1>4. \A i \in 1..n : parts[i] = Octets(f[i], 2)
  OBVIOUS
<1> HIDE DEF parts
<1>5. /\ Start(parts, 0) = 0
      /\ \A k \in 1..n : Start(parts, k) = Start(parts, k - 1) + Len(parts[k])
      /\ FlattenSeq(parts) \in Bytes /\ Len(FlattenSeq(parts)) = Start(parts, n)
  BY <1>3, StartProperties
<1>6. \A k \in 0..n : Start(parts, k) = 2 * k
  <2> DEFINE P == {k \in Nat : Start(parts, k) = 2 * k}
  <2>1. 0 \in P
    BY <1>5
  <2>2. ASSUME NEW k \in 1..n, k - 1 \in P PROVE k \in P
    <3>1. Start(parts, k - 1) = 2 * (k - 1)
      BY <2>2
    <3>2. Start(parts, k) = Start(parts, k - 1) + 2
      BY <1>2, <1>5
    <3>3. Start(parts, k) = 2 * k
      BY <3>1, <3>2
    <3> QED
      BY <3>3
  <2> HIDE DEF P
  <2>3. \A k \in 0..n : k \in P
    BY <2>1, <2>2, Induction
  <2> QED
    BY <2>3 DEF P
<1>7. ASSUME NEW b \in Bytes, NEW o, At(b, o, FlattenSeq(parts)), NEW i \in 1..n
      PROVE  At(b, o + 2 * (i - 1), Octets(f[i], 2))
  <2>1. At(b, o + Start(parts, i - 1), parts[i])
    BY <1>3, <1>7, PartsAt
  <2>2. i - 1 \in 0..n
    OBVIOUS
  <2> QED
    BY <1>4, <1>6, <2>1, <2>2
<1>8. Len(FlattenSeq(parts)) = 2 * n
  <2>1. n \in 0..n
    OBVIOUS
  <2> QED
    BY <1>5, <1>6, <2>1
<1> QED
  BY <1>1, <1>5, <1>7, <1>8

\* Lengths, words and numbers are integers.
LEMMA SpansAreInts ==
    /\ Lengths \subseteq Nat /\ Lengths \subseteq Ints /\ Ints \subseteq Int
    /\ Words \subseteq Nat /\ SignedWords \subseteq Int
    /\ \A long \in LongInts(Ints) : long.hi \in Int /\ long.lo \in Int
<1>1. IntSpan \div 2 \in Nat /\ IntSpan \in Nat /\ Square \in Nat /\ Square \div 2 \in Nat
  BY Spans
<1>2. Words = 0..(Square - 1) /\ SignedWords = -(Square \div 2)..(Square \div 2 - 1)
  BY DEF Words, SignedWords, Square
<1>3. Lengths \subseteq Nat /\ Lengths \subseteq Ints /\ Ints \subseteq Int
  BY <1>1 DEF Lengths, Ints
<1>4. \A long \in LongInts(Ints) : long.hi \in Int /\ long.lo \in Int
  <2>1. \A highs : \A long \in LongInts(highs) : long.hi \in highs /\ long.lo \in Int
    BY <1>1 DEF LongInts
  <2> QED
    BY <1>3, <2>1
<1> QED
  BY <1>1, <1>2, <1>3, <1>4

\* What a LOB handle holds, and that its size is that of its locator.
LEMMA LobHandleFields ==
    ASSUME NEW lob \in LobHandles
    PROVE  /\ lob.size \in Nat /\ lob.locator \in Bytes /\ lob.size = Len(lob.locator) + 17
           /\ lob.length \in LongInts(Ints)
           /\ lob = [size |-> lob.size, length |-> lob.length, locator |-> lob.locator]
<1>1. lob \in [size : Nat, length : LongInts(Lengths), locator : Bytes] /\ lob.size = Len(lob.locator) + 17
  BY DEF LobHandles
<1>2. LongInts(Lengths) \subseteq LongInts(Ints)
  BY SpansAreInts DEF LongInts
<1> HIDE DEF Bytes
<1> QED
  BY <1>1, <1>2

\* A bigint takes eight bytes.
LEMMA LongBytes ==
    ASSUME NEW long \in LongInts(Ints)
    PROVE  Long8(long) \in Bytes /\ Len(Long8(long)) = 8
<1>1. /\ Int4(long.hi) \in Bytes /\ Len(Int4(long.hi)) = 4
      /\ Int4(long.lo) \in Bytes /\ Len(Int4(long.lo)) = 4
  BY SpansAreInts, NumBytes
<1>2. /\ Long8(long) \in Bytes
      /\ Len(Long8(long)) = Len(Int4(long.hi)) + Len(Int4(long.lo))
  BY <1>1, BytesConcat DEF Long8
<1> QED
  BY <1>1, <1>2

\* A LOB handle takes the bytes its size says.
LEMMA LobBytes ==
    ASSUME NEW type \in LobTypes, NEW lob \in LobHandles
    PROVE  LobOctets(type, lob) \in Bytes /\ Len(LobOctets(type, lob)) = lob.size
<1>1. LobNumber[type] \in Int
  BY DEF LobNumber, LobTypes
<1>2. lob.locator \in Bytes /\ lob.size = Len(lob.locator) + 17 /\ lob.length \in LongInts(Ints)
  BY LobHandleFields
<1>3. Int4(LobNumber[type]) \in Bytes /\ Len(Int4(LobNumber[type])) = 4
  BY <1>1, NumBytes
<1>4. Long8(lob.length) \in Bytes /\ Len(Long8(lob.length)) = 8
  BY <1>2, LongBytes
<1>5. Text(lob.locator) \in Bytes /\ Len(Text(lob.locator)) = Len(lob.locator) + 5 /\ Len(lob.locator) \in Nat
  BY <1>2, TextBytes
<1>6. /\ LobOctets(type, lob) \in Bytes
      /\ Len(LobOctets(type, lob)) =
            Len(Int4(LobNumber[type])) + Len(Long8(lob.length)) + Len(Text(lob.locator))
  BY <1>3, <1>4, <1>5, Concat3 DEF LobOctets
<1> QED
  BY <1>2, <1>3, <1>4, <1>5, <1>6

\* The parts of a date or a time are numbers.
LEMMA FieldsAreInts ==
    ASSUME NEW n \in Nat, NEW f \in Fields(n)
    PROVE  f \in [1..n -> Int]
<1>1. f \in [1..n -> Words] /\ Words \subseteq Int
  BY SpansAreInts DEF Fields
<1> QED
  BY <1>1

\* Values of n bytes.
LEMMA FixedBytes ==
    ASSUME NEW n \in Nat, NEW v \in [1..n -> 0..(Base - 1)]
    PROVE  v \in Bytes /\ Len(v) = n
<1>1. v \in [1..n -> Byte]
  BY DEF Byte
<1>2. v \in Seq(Byte) /\ Len(v) = n
  BY <1>1
<1> QED
  BY <1>2 DEF Bytes, Byte

\* So are n zeros.
LEMMA Zeros ==
    ASSUME NEW n \in Nat
    PROVE  [i \in 1..n |-> 0] \in Bytes /\ Len([i \in 1..n |-> 0]) = n
<1>1. [i \in 1..n |-> 0] \in [1..n -> 0..(Base - 1)]
  BY FewBytes DEF Byte
<1> QED
  BY <1>1, FixedBytes

\* A stored value is sent as bytes.
LEMMA ValueBytes ==
    ASSUME NEW type \in Types \ {"null"}, NEW v \in ValuesOf(type)
    PROVE  /\ ValueOctets(type, v) \in Bytes
           /\ type \in {"short"} => Len(ValueOctets(type, v)) = 2
           /\ type \in {"int", "resultset", "float"} => Len(ValueOctets(type, v)) = 4
           /\ type \in {"bigint", "double", "monetary", "object"} => Len(ValueOctets(type, v)) = 8
           /\ type \in {"date", "time"} => Len(ValueOctets(type, v)) = 6
           /\ type = "timestamp" => Len(ValueOctets(type, v)) = 12
           /\ type = "datetime" => Len(ValueOctets(type, v)) = 14
           /\ type \in {"timestamptz", "timestampltz"} => Len(ValueOctets(type, v)) = 12 + Len(v[2]) + 1
           /\ type \in {"datetimetz", "datetimeltz"} => Len(ValueOctets(type, v)) = 14 + Len(v[2]) + 1
           /\ type \in SetTypes => Len(ValueOctets(type, v)) = 8 + v[1] * v[2]
           /\ type \in LobTypes => Len(ValueOctets(type, v)) = v.size
           /\ type \in TextTypes \cup {"numeric"} => Len(ValueOctets(type, v)) = Len(v) + 1
<1> DEFINE x == ValueOctets(type, v)
<1>1. CASE type \in TextTypes \cup {"numeric"}
  <2>0. ValuesOf(type) = Bytes
    BY <1>1, ValuesOfType
  <2>01. x = v \o <<0>>
    BY <1>1, ValueOctetsOf
  <2>1. v \in Bytes /\ x = v \o <<0>>
    BY <2>0, <2>01
  <2>2. x \in Bytes /\ Len(x) = Len(v) + Len(<<0>>)
    BY <2>1, FewBytes, BytesConcat
  <2> QED
    BY <1>1, <2>2, FewBytes DEF TextTypes, SetTypes, LobTypes
<1>2. CASE type = "short"
  <2>0. ValuesOf(type) = SignedWords
    BY <1>2, ValuesOfType
  <2>01. x = Octets(v, 2)
    BY <1>2, ValueOctetsOf
  <2>1. v \in Int /\ x = Octets(v, 2)
    BY <2>0, <2>01, SpansAreInts
  <2>2. x \in Bytes /\ Len(x) = 2
    BY <2>1, NumBytes
  <2> QED
    BY <1>2, <2>2 DEF TextTypes, SetTypes, LobTypes
<1>3. CASE type \in {"int", "resultset"}
  <2>0. ValuesOf(type) = Ints
    BY <1>3, ValuesOfType
  <2>01. x = Int4(v)
    BY <1>3, ValueOctetsOf
  <2>1. v \in Int /\ x = Int4(v)
    BY <2>0, <2>01, SpansAreInts
  <2>2. x \in Bytes /\ Len(x) = 4
    BY <2>1, NumBytes
  <2> QED
    BY <1>3, <2>2 DEF TextTypes, SetTypes, LobTypes
<1>4. CASE type = "bigint"
  <2>0. ValuesOf(type) = LongInts(Ints)
    BY <1>4, ValuesOfType
  <2>01. x = Long8(v)
    BY <1>4, ValueOctetsOf
  <2>1. v \in LongInts(Ints) /\ x = Long8(v)
    BY <2>0, <2>01
  <2>2. x \in Bytes /\ Len(x) = 8
    BY <2>1, LongBytes
  <2> QED
    BY <1>4, <2>2 DEF TextTypes, SetTypes, LobTypes
<1>5. CASE type \in {"bit", "varbit"}
  <2>0. ValuesOf(type) = Bytes
    BY <1>5, ValuesOfType
  <2>01. x = v
    BY <1>5, ValueOctetsOf
  <2>1. v \in Bytes /\ x = v
    BY <2>0, <2>01
  <2> QED
    BY <1>5, <2>1 DEF TextTypes, SetTypes, LobTypes
<1>6. CASE type = "float"
  <2>0. ValuesOf(type) = [1..4 -> 0..(Base - 1)]
    BY <1>6, ValuesOfType
  <2>01. x = v
    BY <1>6, ValueOctetsOf
  <2>1. v \in [1..4 -> 0..(Base - 1)] /\ x = v
    BY <2>0, <2>01
  <2>2. x \in Bytes /\ Len(x) = 4
    BY <2>1, FixedBytes
  <2> QED
    BY <1>6, <2>2 DEF TextTypes, SetTypes, LobTypes
<1>7. CASE type \in {"double", "monetary"}
  <2>0. ValuesOf(type) = [1..8 -> 0..(Base - 1)]
    BY <1>7, ValuesOfType
  <2>01. x = v
    BY <1>7, ValueOctetsOf
  <2>1. v \in [1..8 -> 0..(Base - 1)] /\ x = v
    BY <2>0, <2>01
  <2>2. x \in Bytes /\ Len(x) = 8
    BY <2>1, FixedBytes
  <2> QED
    BY <1>7, <2>2 DEF TextTypes, SetTypes, LobTypes
<1>8. CASE type \in {"date", "time"}
  <2>0. ValuesOf(type) = Fields(3)
    BY <1>8, ValuesOfType
  <2>01. x = Shorts2(v)
    BY <1>8, ValueOctetsOf, ZenonT(40)
  <2>1. v \in Fields(3) /\ x = Shorts2(v)
    BY <2>0, <2>01
  <2>2. v \in [1..3 -> Int] /\ 3 \in Nat
    BY <2>1, FieldsAreInts
  <2>3. x \in Bytes /\ Len(x) = 2 * 3
    BY <2>1, <2>2, ShortsBytes
  <2> QED
    BY <1>8, <2>3 DEF TextTypes, SetTypes, LobTypes
<1>9. CASE type = "timestamp"
  <2>0. ValuesOf(type) = Fields(6)
    BY <1>9, ValuesOfType
  <2>01. x = Shorts2(v)
    BY <1>9, ValueOctetsOf
  <2>1. v \in Fields(6) /\ x = Shorts2(v)
    BY <2>0, <2>01
  <2>2. v \in [1..6 -> Int] /\ 6 \in Nat
    BY <2>1, FieldsAreInts
  <2>3. x \in Bytes /\ Len(x) = 2 * 6
    BY <2>1, <2>2, ShortsBytes
  <2> QED
    BY <1>9, <2>3 DEF TextTypes, SetTypes, LobTypes
<1>10. CASE type = "datetime"
  <2>0. ValuesOf(type) = Fields(7)
    BY <1>10, ValuesOfType
  <2>01. x = Shorts2(v)
    BY <1>10, ValueOctetsOf
  <2>1. v \in Fields(7) /\ x = Shorts2(v)
    BY <2>0, <2>01
  <2>2. v \in [1..7 -> Int] /\ 7 \in Nat
    BY <2>1, FieldsAreInts
  <2>3. x \in Bytes /\ Len(x) = 2 * 7
    BY <2>1, <2>2, ShortsBytes
  <2> QED
    BY <1>10, <2>3 DEF TextTypes, SetTypes, LobTypes
<1>11. CASE type \in {"timestamptz", "timestampltz"}
  <2>0. ValuesOf(type) = Fields(6) \X Bytes
    BY <1>11, ValuesOfType
  <2>01. x = Shorts2(v[1]) \o v[2] \o <<0>>
    BY <1>11, ValueOctetsOf, ZenonT(40) DEF ZonedTypes
  <2>1. v \in Fields(6) \X Bytes /\ x = Shorts2(v[1]) \o v[2] \o <<0>>
    BY <2>0, <2>01
  <2>2. v[1] \in Fields(6) /\ v[2] \in Bytes
    BY <2>1
  <2>3. v[1] \in [1..6 -> Int] /\ 6 \in Nat
    BY <2>2, FieldsAreInts
  <2>4. Shorts2(v[1]) \in Bytes /\ Len(Shorts2(v[1])) = 2 * 6
    BY <2>3, ShortsBytes
  <2> DEFINE stamp == Shorts2(v[1])
             zone == v[2]
             zero == <<0>>
  <2>6. x = stamp \o zone \o zero /\ stamp \in Bytes /\ zone \in Bytes /\ zero \in Bytes
    BY <2>1, <2>2, <2>4, FewBytes
  <2> HIDE DEF stamp, zone, zero
  <2>7. x \in Bytes /\ Len(x) = Len(stamp) + Len(zone) + Len(zero)
    BY <2>6, Concat3
  <2>5. x \in Bytes /\ Len(x) = Len(Shorts2(v[1])) + Len(v[2]) + Len(<<0>>)
    BY <2>7 DEF stamp, zone, zero
  <2> QED
    BY <1>11, <2>4, <2>5, FewBytes DEF TextTypes, SetTypes, LobTypes
<1>12. CASE type \in {"datetimetz", "datetimeltz"}
  <2>0. ValuesOf(type) = Fields(7) \X Bytes
    BY <1>12, ValuesOfType
  <2>01. x = Shorts2(v[1]) \o v[2] \o <<0>>
    BY <1>12, ValueOctetsOf, ZenonT(40) DEF ZonedTypes
  <2>1. v \in Fields(7) \X Bytes /\ x = Shorts2(v[1]) \o v[2] \o <<0>>
    BY <2>0, <2>01
  <2>2. v[1] \in Fields(7) /\ v[2] \in Bytes
    BY <2>1
  <2>3. v[1] \in [1..7 -> Int] /\ 7 \in Nat
    BY <2>2, FieldsAreInts
  <2>4. Shorts2(v[1]) \in Bytes /\ Len(Shorts2(v[1])) = 2 * 7
    BY <2>3, ShortsBytes
  <2> DEFINE stamp == Shorts2(v[1])
             zone == v[2]
             zero == <<0>>
  <2>6. x = stamp \o zone \o zero /\ stamp \in Bytes /\ zone \in Bytes /\ zero \in Bytes
    BY <2>1, <2>2, <2>4, FewBytes
  <2> HIDE DEF stamp, zone, zero
  <2>7. x \in Bytes /\ Len(x) = Len(stamp) + Len(zone) + Len(zero)
    BY <2>6, Concat3
  <2>5. x \in Bytes /\ Len(x) = Len(Shorts2(v[1])) + Len(v[2]) + Len(<<0>>)
    BY <2>7 DEF stamp, zone, zero
  <2> QED
    BY <1>12, <2>4, <2>5, FewBytes DEF TextTypes, SetTypes, LobTypes
<1>13. CASE type = "object"
  <2>0. ValuesOf(type) = Ints \X Words \X Words
    BY <1>13, ValuesOfType
  <2>01. x = Int4(v[1]) \o Octets(v[2], 2) \o Octets(v[3], 2)
    BY <1>13, ValueOctetsOf
  <2>1. v \in Ints \X Words \X Words /\ x = Int4(v[1]) \o Octets(v[2], 2) \o Octets(v[3], 2)
    BY <2>0, <2>01
  <2>2. v[1] \in Ints /\ v[2] \in Words /\ v[3] \in Words
    BY <2>1
  <2>3. /\ Int4(v[1]) \in Bytes /\ Len(Int4(v[1])) = 4
        /\ Octets(v[2], 2) \in Bytes /\ Len(Octets(v[2], 2)) = 2
        /\ Octets(v[3], 2) \in Bytes /\ Len(Octets(v[3], 2)) = 2
    <3>1. v[1] \in Int /\ v[2] \in Int /\ v[3] \in Int
      <4>1. Ints \subseteq Int /\ Words \subseteq Int
        BY SpansAreInts
      <4> QED
        BY <2>2, <4>1
    <3> QED
      BY <3>1, NumBytes
  <2> DEFINE page == Int4(v[1])
             slot == Octets(v[2], 2)
             volume == Octets(v[3], 2)
  <2>5. x = page \o slot \o volume /\ page \in Bytes /\ slot \in Bytes /\ volume \in Bytes
    BY <2>1, <2>3
  <2> HIDE DEF page, slot, volume
  <2>6. x \in Bytes /\ Len(x) = Len(page) + Len(slot) + Len(volume)
    BY <2>5, Concat3
  <2>7. Len(x) = 8
    <3>1. Len(page) = 4 /\ Len(slot) = 2 /\ Len(volume) = 2
      BY <2>3 DEF page, slot, volume
    <3> QED
      BY <2>6, <3>1
  <2> QED
    BY <1>13, <2>6, <2>7 DEF TextTypes, SetTypes, LobTypes
<1>14. CASE type \in SetTypes
  <2>0. ValuesOf(type) = Lengths \X Lengths
    BY <1>14, ValuesOfType
  <2>01. x = Int4(v[1]) \o Int4(v[2]) \o [i \in 1..(v[1] * v[2]) |-> 0]
    BY <1>14, ValueOctetsOf, ZenonT(40)
  <2>1. v \in Lengths \X Lengths /\ x = Int4(v[1]) \o Int4(v[2]) \o [i \in 1..(v[1] * v[2]) |-> 0]
    BY <2>0, <2>01
  <2>2. v[1] \in Nat /\ v[2] \in Nat
    BY <2>1, SpansAreInts
  <2>3. v[1] * v[2] \in Nat
    BY <2>2
  <2> DEFINE zeros == [i \in 1..(v[1] * v[2]) |-> 0]
  <2>4. zeros \in Bytes /\ Len(zeros) = v[1] * v[2]
    BY <2>3, Zeros
  <2>5. x = Int4(v[1]) \o Int4(v[2]) \o zeros
    BY <2>1
  <2>6. /\ Int4(v[1]) \in Bytes /\ Len(Int4(v[1])) = 4 /\ Int4(v[2]) \in Bytes /\ Len(Int4(v[2])) = 4
    BY <2>2, NumBytes
  <2> DEFINE size == Int4(v[1])
             count == Int4(v[2])
  <2> HIDE DEF zeros, size, count
  <2>7. size \in Bytes /\ count \in Bytes /\ Len(size) = 4 /\ Len(count) = 4
    BY <2>6 DEF size, count
  <2>8. x \in Bytes /\ Len(x) = Len(size) + Len(count) + Len(zeros)
    <3>1. x = size \o count \o zeros /\ zeros \in Bytes
      BY <2>4, <2>5 DEF size, count
    <3>2. size \in Bytes /\ count \in Bytes
      BY <2>7
    <3> QED
      BY <3>1, <3>2, Concat3
  <2>9. Len(x) = 8 + v[1] * v[2]
    BY <2>3, <2>4, <2>7, <2>8
  <2> QED
    BY <1>14, <2>8, <2>9 DEF TextTypes, SetTypes, LobTypes
<1>15. CASE type \in LobTypes
  <2>0. ValuesOf(type) = LobHandles
    BY <1>15, ValuesOfType
  <2>01. x = LobOctets(type, v)
    BY <1>15, ValueOctetsOf
  <2>1. v \in LobHandles /\ x = LobOctets(type, v)
    BY <2>0, <2>01
  <2>2. x \in Bytes /\ Len(x) = v.size
    BY <1>15, <2>1, LobBytes
  <2> QED
    BY <1>15, <2>2 DEF TextTypes, SetTypes, LobTypes
<1> HIDE DEF x
<1>16. type \in Types /\ type # "null"
  OBVIOUS
<1> QED
  BY <1>1, <1>2, <1>3, <1>4, <1>5, <1>6, <1>7, <1>8, <1>9, <1>10, <1>11, <1>12, <1>13, <1>14,
     <1>15, <1>16, EachType

-----------------------------------------------------------------------------
(* What is read of a value that lies in the buffer.                          *)

\* Two sequences of bytes one behind the other, and where they lie.
LEMMA Two ==
    ASSUME NEW x \in Bytes, NEW y \in Bytes, NEW all, all = x \o y
    PROVE  /\ all \in Bytes /\ Len(all) = Len(x) + Len(y) /\ Len(x) \in Nat /\ Len(y) \in Nat
           /\ \A b \in Bytes : \A o : At(b, o, all) => At(b, o, x) /\ At(b, o + Len(x), y)
BY BytesConcat, BytesAt

\* The same as facts of their own.
Pair(all, x, y) ==
    /\ all \in Bytes /\ Len(all) = Len(x) + Len(y) /\ Len(x) \in Nat /\ Len(y) \in Nat
    /\ \A b \in Bytes : \A o : At(b, o, all) => At(b, o, x) /\ At(b, o + Len(x), y)

Triple(all, x, y, z) ==
    /\ all \in Bytes /\ Len(all) = Len(x) + Len(y) + Len(z)
    /\ Len(x) \in Nat /\ Len(y) \in Nat /\ Len(z) \in Nat
    /\ \A b \in Bytes : \A o : At(b, o, all) =>
          At(b, o, x) /\ At(b, o + Len(x), y) /\ At(b, o + (Len(x) + Len(y)), z)

Quad(all, w, x, y, z) ==
    /\ all \in Bytes /\ Len(all) = Len(w) + Len(x) + Len(y) + Len(z)
    /\ Len(w) \in Nat /\ Len(x) \in Nat /\ Len(y) \in Nat /\ Len(z) \in Nat
    /\ \A b \in Bytes : \A o : At(b, o, all) =>
          /\ At(b, o, w) /\ At(b, o + Len(w), x) /\ At(b, o + (Len(w) + Len(x)), y)
          /\ At(b, o + (Len(w) + Len(x) + Len(y)), z)

\* Two, three and four pieces.
LEMMA PairIs ==
    ASSUME NEW x \in Bytes, NEW y \in Bytes, NEW all, all = x \o y
    PROVE  Pair(all, x, y)
BY Two DEF Pair

\* Triple says of three what Two says of two.
LEMMA TripleIs ==
    ASSUME NEW x \in Bytes, NEW y \in Bytes, NEW z \in Bytes, NEW all, all = x \o y \o z
    PROVE  Triple(all, x, y, z)
<1> DEFINE xy == x \o y
<1>1. Pair(xy, x, y)
  BY PairIs
<1> HIDE DEF xy
<1>2. Pair(all, xy, z)
  <2>1. xy \in Bytes /\ all = xy \o z
    BY <1>1 DEF Pair, xy
  <2> QED
    BY <2>1, PairIs
<1>3. ASSUME NEW b \in Bytes, NEW o, At(b, o, all)
      PROVE  At(b, o, x) /\ At(b, o + Len(x), y) /\ At(b, o + (Len(x) + Len(y)), z)
  BY <1>1, <1>2, <1>3 DEF Pair
<1>4. all \in Bytes /\ Len(all) = Len(x) + Len(y) + Len(z) /\ Len(x) \in Nat /\ Len(y) \in Nat /\ Len(z) \in Nat
  BY <1>1, <1>2 DEF Pair
<1> QED
  BY <1>3, <1>4 DEF Triple

\* And Quad of four.
LEMMA QuadIs ==
    ASSUME NEW w \in Bytes, NEW x \in Bytes, NEW y \in Bytes, NEW z \in Bytes, NEW all,
           all = w \o x \o y \o z
    PROVE  Quad(all, w, x, y, z)
<1> DEFINE wx == w \o x
<1>1. Pair(wx, w, x)
  BY PairIs
<1> HIDE DEF wx
<1>2. Triple(all, wx, y, z)
  <2>1. wx \in Bytes /\ all = wx \o y \o z
    BY <1>1 DEF Pair, wx
  <2> QED
    BY <2>1, TripleIs
<1>3. ASSUME NEW b \in Bytes, NEW o, At(b, o, all)
      PROVE  /\ At(b, o, w) /\ At(b, o + Len(w), x) /\ At(b, o + (Len(w) + Len(x)), y)
             /\ At(b, o + (Len(w) + Len(x) + Len(y)), z)
  <2>1. At(b, o, wx) /\ At(b, o + Len(wx), y) /\ At(b, o + (Len(wx) + Len(y)), z)
    BY <1>2, <1>3 DEF Triple
  <2>2. At(b, o, w) /\ At(b, o + Len(w), x)
    BY <1>1, <2>1 DEF Pair
  <2>3. Len(wx) = Len(w) + Len(x)
    BY <1>1 DEF Pair
  <2> QED
    BY <2>1, <2>2, <2>3
<1>4. /\ all \in Bytes /\ Len(all) = Len(w) + Len(x) + Len(y) + Len(z)
      /\ Len(w) \in Nat /\ Len(x) \in Nat /\ Len(y) \in Nat /\ Len(z) \in Nat
  BY <1>1, <1>2 DEF Pair, Triple
<1> QED
  BY <1>3, <1>4 DEF Quad

\* What the reader's methods for one field get where that field lies.
LEMMA ReadWhatIsAt ==
    ASSUME NEW b \in Bytes, NEW o
    PROVE  /\ \A n \in Ints : At(b, o, Int4(n)) => ParseInt(b, o) = ReadAs(n, o + 4)
           /\ \A n \in Words : At(b, o, Octets(n, 2)) => ParseShort(b, o) = ReadAs(n, o + 2)
           /\ \A n \in Byte : At(b, o, <<n>>) => ParseByte(b, o) = ReadAs(n, o + 1) /\ ByteAt(b, o) = n
           /\ \A x \in Bytes : At(b, o, x) => ParseBytes(b, o, Len(x)) = ReadAs(x, o + Len(x))
           /\ \A x : At(b, o, x) => o \in Nat
<1>1. \A n \in Ints : At(b, o, Int4(n)) => ParseInt(b, o) = ReadAs(n, o + 4)
  BY IntRead, OctetsWritten
<1>2. \A n \in Words : At(b, o, Octets(n, 2)) => ParseShort(b, o) = ReadAs(n, o + 2)
  BY ShortRead, OctetsWritten
<1>3. ASSUME NEW n \in Byte, At(b, o, <<n>>) PROVE ParseByte(b, o) = ReadAs(n, o + 1) /\ ByteAt(b, o) = n
  <2> DEFINE x == <<n>>
  <2>1. x \in Bytes /\ Len(x) = 1 /\ x[0 + 1] = n
    BY ByteBytes
  <2>2. At(b, o, x) /\ o \in Nat
    BY <1>3 DEF At
  <2> HIDE DEF x
  <2>3. 0 \in 0..(Len(x) - 1) /\ o + 0 = o
    BY <2>1, <2>2
  <2>4. ByteAt(b, o + 0) = x[0 + 1]
    BY <2>1, <2>2, <2>3, ByteRead
  <2> QED
    BY <2>1, <2>3, <2>4 DEF ParseByte
<1>4. \A x \in Bytes : At(b, o, x) => ParseBytes(b, o, Len(x)) = ReadAs(x, o + Len(x))
  BY SliceRead DEF ParseBytes
<1>5. \A x : At(b, o, x) => o \in Nat
  BY DEF At
<1> QED
  BY <1>1, <1>2, <1>3, <1>4, <1>5

\* A date is read field by field.
LEMMA ShortsRead ==
    ASSUME NEW b \in Bytes, NEW o, NEW n \in Nat, NEW f \in Fields(n), At(b, o, Shorts2(f))
    PROVE  Shorts(b, o, n) = f /\ o \in Nat /\ f \in [1..n -> Int]
<1>1. f \in [1..n -> Int] /\ f \in [1..n -> Words]
  BY FieldsAreInts DEF Fields
<1>2. \A i \in 1..n : At(b, o + 2 * (i - 1), Octets(f[i], 2))
  BY <1>1, ShortsBytes
<1>3. \A i \in 1..n : ParseShort(b, o + 2 * (i - 1)).value = f[i]
  <2> SUFFICES ASSUME NEW i \in 1..n PROVE ParseShort(b, o + 2 * (i - 1)).value = f[i]
    OBVIOUS
  <2>1. At(b, o + 2 * (i - 1), Octets(f[i], 2)) /\ f[i] \in Words
    BY <1>1, <1>2
  <2> DEFINE at == o + 2 * (i - 1)
  <2> HIDE DEF at
  <2>2. ParseShort(b, at) = ReadAs(f[i], at + 2)
    BY <2>1, ReadWhatIsAt DEF at
  <2> QED
    BY <2>2 DEF ReadAs, at
<1>4. o \in Nat
  BY DEF At
<1> QED
  BY <1>1, <1>3, <1>4 DEF Shorts

\* What a value should come out as, type by type.
LEMMA MeantOf ==
    ASSUME NEW sv, sv.type \in Types, sv.value # Null
    PROVE  LET v == sv.value
               date(f) == [f EXCEPT ![2] = @ - 1]
           IN  /\ sv.type \in TextTypes \cup {"numeric", "short", "int", "bigint", "float", "double", "monetary",
                                              "object", "bit", "varbit"} \cup LobTypes => Meant(sv) = v
               /\ sv.type = "date" => Meant(sv) = date(v) \o <<0, 0, 0, 0>>
               /\ sv.type = "time" => Meant(sv) = <<1970, 0, 1>> \o v \o <<0>>
               /\ sv.type = "timestamp" => Meant(sv) = date(v) \o <<0>>
               /\ sv.type = "datetime" => Meant(sv) = date(v)
               /\ sv.type \in {"timestamptz", "timestampltz"} => Meant(sv) = <<date(v[1]) \o <<0>>, v[2]>>
               /\ sv.type \in {"datetimetz", "datetimeltz"} => Meant(sv) = <<date(v[1]), v[2]>>
               /\ sv.type \in SetTypes \cup {"resultset"} => Meant(sv) = Null
<1> USE DEF Meant, TextTypes, SetTypes, LobTypes
<1>1. sv.type \in TextTypes \cup {"numeric", "short", "int", "bigint", "float", "double", "monetary",
                                  "object", "bit", "varbit"} \cup LobTypes => Meant(sv) = sv.value
  OBVIOUS
<1>2. sv.type \in SetTypes \cup {"resultset"} => Meant(sv) = Null
  OBVIOUS
<1> DEFINE date(f) == [f EXCEPT ![2] = @ - 1]
<1>3. sv.type = "date" => Meant(sv) = date(sv.value) \o <<0, 0, 0, 0>>
  OBVIOUS
<1>4. sv.type = "time" => Meant(sv) = <<1970, 0, 1>> \o sv.value \o <<0>>
  OBVIOUS
<1>5. sv.type = "timestamp" => Meant(sv) = date(sv.value) \o <<0>>
  OBVIOUS
<1>6. sv.type = "datetime" => Meant(sv) = date(sv.value)
  OBVIOUS
<1>7. sv.type \in {"timestamptz", "timestampltz"} =>
         Meant(sv) = <<date(sv.value[1]) \o <<0>>, sv.value[2]>>
  <2> DEFINE meant == <<date(sv.value[1]) \o <<0>>, sv.value[2]>>
             got == Meant(sv)
  <2>1. sv.type = "timestamptz" => got = meant
    OBVIOUS
  <2>2. sv.type = "timestampltz" => got = meant
    OBVIOUS
  <2> HIDE DEF got, meant
  <2>3. sv.type \in {"timestamptz", "timestampltz"} => got = meant
    BY <2>1, <2>2
  <2> QED
    BY <2>3 DEF got, meant
<1>8. sv.type \in {"datetimetz", "datetimeltz"} => Meant(sv) = <<date(sv.value[1]), sv.value[2]>>
  OBVIOUS
<1> HIDE DEF Meant
<1> QED
  BY <1>1, <1>2, <1>3, <1>4, <1>5, <1>6, <1>7, <1>8

\* Which values come out right, type by type.
LEMMA ReadableOf ==
    ASSUME NEW sv, sv.type \in Types, sv.value # Null, Readable(sv)
    PROVE  /\ sv.type = "short" => sv.value >= 0
           /\ sv.type = "bigint" => Fits(sv.value)
           /\ sv.type \in LobTypes => Fits(sv.value.length)
           /\ sv.type \in {"bit", "varbit"} => sv.value # <<>>
BY DEF Readable, LobTypes

\* The stored value is the one that is read, and the cursor is behind it.
Got(r, sv, end) == r.offset = end /\ (Readable(sv) => r.value = Meant(sv))

\* A day and no time of day.
LEMMA DayConcat ==
    ASSUME NEW p \in Int, NEW q \in Int, NEW r \in Int
    PROVE  <<p, q, r>> \o <<0, 0, 0, 0>> = <<p, q, r, 0, 0, 0, 0>>
<1> DEFINE x == <<p, q, r>>
           y == <<0, 0, 0, 0>>
           z == <<p, q, r, 0, 0, 0, 0>>
           D == Int
<1>1. /\ x \in Seq(D) /\ Len(x) = 3 /\ x[1] = p /\ x[2] = q /\ x[3] = r
      /\ y \in Seq(D) /\ Len(y) = 4 /\ y[1] = 0 /\ y[2] = 0 /\ y[3] = 0 /\ y[4] = 0
      /\ z \in Seq(D) /\ Len(z) = 7 /\ z[1] = p /\ z[2] = q /\ z[3] = r
      /\ z[4] = 0 /\ z[5] = 0 /\ z[6] = 0 /\ z[7] = 0
  OBVIOUS
<1> HIDE DEF x, y, z, D
<1>2. x \in Seq(D) /\ y \in Seq(D) /\ Len(x) = 3 /\ Len(y) = 4
  BY <1>1
<1>3. /\ x \o y \in Seq(D) /\ Len(x \o y) = Len(x) + Len(y)
      /\ \A i \in 1..(Len(x) + Len(y)) :
            (x \o y)[i] = IF i <= Len(x) THEN x[i] ELSE y[i - Len(x)]
  BY <1>2, ConcatProperties
<1>4. ASSUME NEW i \in 1..7 PROVE (x \o y)[i] = z[i]
  <2>1. (x \o y)[i] = IF i <= 3 THEN x[i] ELSE y[i - 3]
    BY <1>2, <1>3
  <2>2. CASE i <= 3
    <3>1. i = 1 \/ i = 2 \/ i = 3
      BY <2>2
    <3> QED
      BY <1>1, <2>1, <2>2, <3>1
  <2>3. CASE ~ (i <= 3)
    <3>1. (i = 4 \/ i = 5 \/ i = 6 \/ i = 7) /\ i - 3 \in 1..4
      BY <2>3
    <3>2. y[i - 3] = 0 /\ z[i] = 0
      <4>1. i - 3 = 1 \/ i - 3 = 2 \/ i - 3 = 3 \/ i - 3 = 4
        BY <3>1
      <4> QED
        BY <1>1, <3>1, <4>1
    <3> QED
      BY <2>1, <2>3, <3>2
  <2> QED
    BY <2>2, <2>3
<1>5. x \o y = z
  <2>1. Len(x \o y) = 7 /\ Len(z) = 7 /\ z \in Seq(D)
    BY <1>1, <1>2, <1>3
  <2> QED
    BY <1>3, <1>4, <2>1, SeqEqual
<1> QED
  BY <1>5 DEF x, y, z

\* _parseDate, _parseTime, _parseTimeStamp and _parseDateTime read what was stored.
LEMMA DateRead ==
    ASSUME NEW b \in Bytes, NEW o,
           NEW sv, sv.type \in {"date", "time", "timestamp", "datetime"}, sv.value # Null,
           sv.value \in ValuesOf(sv.type), At(b, o, Shorts2(sv.value))
    PROVE  /\ sv.type = "date" => Got(ParseDate(b, o), sv, o + 6)
           /\ sv.type = "time" => Got(ParseTime(b, o), sv, o + 6)
           /\ sv.type = "timestamp" => Got(ParseTimeStamp(b, o), sv, o + 12)
           /\ sv.type = "datetime" => Got(ParseDateTime(b, o), sv, o + 14)
<1> DEFINE v == sv.value
<1>1. sv.type \in Types
  BY DEF Types, CUBRIDDataType
<1>2. CASE sv.type = "date"
  <2>1. v \in Fields(3)
    BY <1>1, <1>2, ValuesOfType
  <2>2. Shorts(b, o, 3) = v /\ v \in [1..3 -> Int]
    BY <2>1, ShortsRead
  <2>3. Meant(sv) = [v EXCEPT ![2] = @ - 1] \o <<0, 0, 0, 0>>
    BY <1>1, <1>2, MeantOf
  <2> HIDE DEF v
  <2>4. [v EXCEPT ![2] = @ - 1] = <<v[1], v[2] - 1, v[3]>>
    BY <2>2
  <2>5. Meant(sv) = <<v[1], v[2] - 1, v[3], 0, 0, 0, 0>>
    <3>1. \A p, q, r \in Int : <<p, q, r>> \o <<0, 0, 0, 0>> = <<p, q, r, 0, 0, 0, 0>>
      BY DayConcat
    <3>2. v[1] \in Int /\ v[2] - 1 \in Int /\ v[3] \in Int
      BY <2>2
    <3> QED
      BY <2>3, <2>4, <3>1, <3>2
  <2> QED
    BY <1>2, <2>2, <2>5 DEF Got, ParseDate, ReadAs
<1>3. CASE sv.type = "time"
  <2>1. v \in Fields(3)
    BY <1>1, <1>3, ValuesOfType
  <2>2. Shorts(b, o, 3) = v
    BY <2>1, ShortsRead
  <2>3. Meant(sv) = <<1970, 0, 1>> \o v \o <<0>>
    BY <1>1, <1>3, MeantOf
  <2> HIDE DEF v
  <2> QED
    BY <1>3, <2>2, <2>3 DEF Got, ParseTime, ReadAs
<1>4. CASE sv.type = "timestamp"
  <2>1. v \in Fields(6)
    BY <1>1, <1>4, ValuesOfType
  <2>2. Shorts(b, o, 6) = v
    BY <2>1, ShortsRead
  <2>3. Meant(sv) = [v EXCEPT ![2] = @ - 1] \o <<0>>
    BY <1>1, <1>4, MeantOf
  <2> HIDE DEF v
  <2> QED
    BY <1>4, <2>2, <2>3 DEF Got, ParseTimeStamp, ReadAs
<1>5. CASE sv.type = "datetime"
  <2>1. v \in Fields(7)
    BY <1>1, <1>5, ValuesOfType
  <2>2. Shorts(b, o, 7) = v
    BY <2>1, ShortsRead
  <2>3. Meant(sv) = [v EXCEPT ![2] = @ - 1]
    BY <1>1, <1>5, MeantOf
  <2> HIDE DEF v
  <2> QED
    BY <1>5, <2>2, <2>3 DEF Got, ParseDateTime, ReadAs
<1> QED
  BY <1>2, <1>3, <1>4, <1>5

\* A date with a time zone: the zone takes what the date leaves.
LEMMA ZonedRead ==
    ASSUME NEW b \in Bytes, NEW o, NEW sv, sv.type \in ZonedTypes, sv.value # Null,
           sv.value \in ValuesOf(sv.type), At(b, o, ValueOctets(sv.type, sv.value)),
           NEW size, size = Len(ValueOctets(sv.type, sv.value))
    PROVE  /\ sv.type \in {"timestamptz", "timestampltz"} =>
                 Got(ParseZoned(b, o, size, ParseTimeStamp(b, o)), sv, o + size)
           /\ sv.type \in {"datetimetz", "datetimeltz"} =>
                 Got(ParseZoned(b, o, size, ParseDateTime(b, o)), sv, o + size)
<1> DEFINE stamp == Shorts2(sv.value[1])
           zone == sv.value[2]
           zero == <<0>>
<1>1. sv.type \in Types
  BY DEF Types, CUBRIDDataType, ZonedTypes
<1>2. ValueOctets(sv.type, sv.value) = stamp \o zone \o zero
  BY <1>1, ValueOctetsOf, ZenonT(40)
<1>3. ASSUME NEW n \in Nat, sv.value \in Fields(n) \X Bytes
      PROVE  /\ Shorts(b, o, n) = sv.value[1] /\ o \in Nat /\ Len(zone) \in Nat
             /\ size = 2 * n + Len(zone) + 1 /\ Slice(b, o + 2 * n, Len(zone)) = zone
  <2>1. sv.value[1] \in Fields(n) /\ zone \in Bytes
    BY <1>3
  <2>2. sv.value[1] \in [1..n -> Int]
    BY <2>1, FieldsAreInts
  <2>3. stamp \in Bytes /\ Len(stamp) = 2 * n
    BY <2>2, ShortsBytes
  <2>4. zero \in Bytes /\ Len(zero) = 1
    BY FewBytes
  <2> DEFINE all == ValueOctets(sv.type, sv.value)
  <2>5. all = stamp \o zone \o zero
    BY <1>2
  <2>6. At(b, o, all) /\ size = Len(all)
    OBVIOUS
  <2> HIDE DEF all, stamp, zone, zero
  <2>11. stamp \in Bytes /\ zone \in Bytes /\ zero \in Bytes
    BY <2>1, <2>3, <2>4
  <2>7. Len(all) = Len(stamp) + Len(zone) + Len(zero) /\ Len(zone) \in Nat
    BY <2>5, <2>11, TripleIs DEF Triple
  <2>8. At(b, o, stamp) /\ At(b, o + Len(stamp), zone)
    <3>1. At(b, o, stamp \o zone \o zero)
      BY <2>5, <2>6
    <3> QED
      BY <2>11, <3>1, Split3
  <2>9. Shorts(b, o, n) = sv.value[1] /\ o \in Nat
    BY <2>1, <2>8, ShortsRead DEF stamp
  <2>10. Slice(b, o + Len(stamp), Len(zone)) = zone
    BY <2>1, <2>8, SliceRead
  <2> QED
    BY <2>3, <2>4, <2>6, <2>7, <2>9, <2>10
<1>4. CASE sv.type \in {"timestamptz", "timestampltz"}
  <2>1. sv.value \in Fields(6) \X Bytes /\ 6 \in Nat
    BY <1>1, <1>4, ValuesOfType
  <2>2. /\ Shorts(b, o, 6) = sv.value[1] /\ o \in Nat /\ Len(zone) \in Nat
        /\ size = 2 * 6 + Len(zone) + 1 /\ Slice(b, o + 2 * 6, Len(zone)) = zone
    BY <1>3, <2>1
  <2>3. Meant(sv) = <<[sv.value[1] EXCEPT ![2] = @ - 1] \o <<0>>, zone>>
    BY <1>1, <1>4, MeantOf
  <2> HIDE DEF zone
  <2>4. ParseTimeStamp(b, o) = ReadAs([sv.value[1] EXCEPT ![2] = @ - 1] \o <<0>>, o + 12)
    BY <2>2 DEF ParseTimeStamp
  <2> DEFINE date == ParseTimeStamp(b, o)
  <2>5. date.value = [sv.value[1] EXCEPT ![2] = @ - 1] \o <<0>> /\ date.offset = o + 12
    BY <2>4 DEF ReadAs
  <2> HIDE DEF date
  <2>6. size - (date.offset - o) - 1 = Len(zone) /\ date.offset = o + 2 * 6
    BY <2>2, <2>5
  <2>7. ParseZoned(b, o, size, date) = ReadAs(<<date.value, zone>>, o + size)
    BY <2>2, <2>6 DEF ParseZoned
  <2>8. Got(ParseZoned(b, o, size, date), sv, o + size)
    BY <2>3, <2>5, <2>7 DEF Got, ReadAs
  <2> QED
    BY <1>4, <2>8 DEF date
<1>5. CASE sv.type \in {"datetimetz", "datetimeltz"}
  <2>1. sv.value \in Fields(7) \X Bytes /\ 7 \in Nat
    BY <1>1, <1>5, ValuesOfType
  <2>2. /\ Shorts(b, o, 7) = sv.value[1] /\ o \in Nat /\ Len(zone) \in Nat
        /\ size = 2 * 7 + Len(zone) + 1 /\ Slice(b, o + 2 * 7, Len(zone)) = zone
    BY <1>3, <2>1
  <2>3. Meant(sv) = <<[sv.value[1] EXCEPT ![2] = @ - 1], zone>>
    BY <1>1, <1>5, MeantOf
  <2> HIDE DEF zone
  <2>4. ParseDateTime(b, o) = ReadAs([sv.value[1] EXCEPT ![2] = @ - 1], o + 14)
    BY <2>2 DEF ParseDateTime
  <2> DEFINE date == ParseDateTime(b, o)
  <2>5. date.value = [sv.value[1] EXCEPT ![2] = @ - 1] /\ date.offset = o + 14
    BY <2>4 DEF ReadAs
  <2> HIDE DEF date
  <2>6. size - (date.offset - o) - 1 = Len(zone) /\ date.offset = o + 2 * 7
    BY <2>2, <2>5
  <2>7. ParseZoned(b, o, size, date) = ReadAs(<<date.value, zone>>, o + size)
    BY <2>2, <2>6 DEF ParseZoned
  <2>8. Got(ParseZoned(b, o, size, date), sv, o + size)
    BY <2>3, <2>5, <2>7 DEF Got, ReadAs
  <2> QED
    BY <1>5, <2>8 DEF date
<1> QED
  BY <1>4, <1>5

\* _parseLong ends behind the eight bytes, and reads what a double holds exactly.
LEMMA LongIsRead ==
    ASSUME NEW b \in Bytes, NEW o, NEW long \in LongInts(Ints), At(b, o, Long8(long))
    PROVE  ParseLong(b, o).offset = o + 8 /\ (Fits(long) => ParseLong(b, o).value = long)
<1>1. At(b, o, WriteInt(long.hi) \o WriteInt(long.lo))
  BY OctetsWritten DEF Long8
<1> QED
  BY <1>1, LongRead DEF Fits

\* readLob ends behind the handle, and reads it but for a length no double holds.
LEMMA LobRead ==
    ASSUME NEW b \in Bytes, NEW o, NEW sv, sv.type \in LobTypes, sv.value # Null,
           sv.value \in LobHandles, sv.value.size \in Lengths,
           At(b, o, LobOctets(sv.type, sv.value))
    PROVE  Got(ReadLob(b, o, sv.value.size), sv, o + sv.value.size)
<1> DEFINE lob == sv.value
           packed == LobOctets(sv.type, lob)
           kind == Int4(LobNumber[sv.type])
           length == Long8(lob.length)
           text == Text(lob.locator)
           size == Int4(Len(lob.locator) + 1)
           locator == lob.locator
           zero == <<0>>
<1>1. /\ lob.size \in Nat /\ locator \in Bytes /\ lob.size = Len(locator) + 17
      /\ lob.length \in LongInts(Ints)
      /\ lob = [size |-> lob.size, length |-> lob.length, locator |-> locator]
  BY LobHandleFields
<1>2. packed \in Bytes /\ Len(packed) = lob.size
  BY LobBytes
<1>3. Slice(b, o, lob.size) = packed
  BY <1>2, SliceRead
<1>4. At(packed, 0, packed)
  BY <1>2, AtWhole DEF Bytes
<1>5. kind \in Bytes /\ Len(kind) = 4
  <2>1. LobNumber[sv.type] \in Int
    BY DEF LobNumber, LobTypes
  <2> QED
    BY <2>1, NumBytes
<1>6. length \in Bytes /\ Len(length) = 8
  BY <1>1, LongBytes
<1>7. text \in Bytes
  BY <1>1, TextBytes
<1>8. packed = kind \o length \o text
  BY DEF LobOctets
<1>9. Len(locator) + 1 \in Lengths /\ Len(locator) + 1 \in Ints /\ Len(locator) \in Nat /\ Len(locator) + 1 \in Int
  <2>1. Len(locator) \in Nat
    BY <1>1, BytesProperties
  <2>2. IntSpan \div 2 \in Nat
    BY Spans
  <2>3. Len(locator) + 1 \in Lengths
    BY <1>1, <2>1, <2>2 DEF Lengths
  <2>4. Lengths \subseteq Ints
    BY SpansAreInts
  <2> QED
    BY <2>1, <2>3, <2>4
<1>10. size \in Bytes /\ Len(size) = 4
  BY <1>9, NumBytes
<1>11. text = size \o locator \o zero /\ zero \in Bytes
  BY FewBytes DEF Text
<1> HIDE DEF packed, kind, length, text, zero, locator
<1>12. At(packed, 0, kind \o length \o text)
  BY <1>4, <1>8
<1>13. At(packed, 0 + Len(kind), length) /\ At(packed, 0 + (Len(kind) + Len(length)), text)
  BY <1>2, <1>5, <1>6, <1>7, <1>12, Split3
<1>14. At(packed, 4, length) /\ At(packed, 12, text)
  BY <1>5, <1>6, <1>13
<1> HIDE DEF size
<1>15. At(packed, 12, size) /\ At(packed, 12 + Len(size), locator)
  <2>1. At(packed, 12, size \o locator \o zero)
    BY <1>11, <1>14
  <2> QED
    BY <1>1, <1>2, <1>10, <1>11, <2>1, Split3
<1>16. At(packed, 16, locator)
  BY <1>10, <1>15
<1>17. Fits(lob.length) => ParseLong(packed, 4).value = lob.length
  BY <1>1, <1>2, <1>14, LongIsRead DEF length
<1>18. ParseInt(packed, 12) = ReadAs(Len(locator) + 1, 12 + 4)
  <2>1. At(packed, 12, Int4(Len(locator) + 1))
    BY <1>15 DEF size, locator
  <2> QED
    BY <1>2, <1>9, <2>1, ReadWhatIsAt
<1>19. ParseInt(packed, 12).value - 1 = Len(locator)
  BY <1>9, <1>18 DEF ReadAs
<1>20. Slice(packed, 16, ParseInt(packed, 12).value - 1) = locator
  BY <1>1, <1>2, <1>16, <1>19, SliceRead
<1>21. /\ ReadLob(b, o, lob.size).offset = o + lob.size
       /\ ReadLob(b, o, lob.size).value =
             [size |-> lob.size, length |-> ParseLong(packed, 4).value, locator |-> locator]
  BY <1>3, <1>20 DEF ReadLob, ReadAs
<1>22. sv.type \in Types
  BY DEF LobTypes, Types, CUBRIDDataType
<1>23. Readable(sv) => Fits(lob.length)
  BY <1>22, ReadableOf
<1>24. Meant(sv) = lob
  BY <1>22, MeantOf
<1>25. Readable(sv) => ReadLob(b, o, lob.size).value = lob
  BY <1>1, <1>17, <1>21, <1>23 DEF locator
<1> QED
  BY <1>21, <1>24, <1>25 DEF Got

\* _parseObject reads an object's page, slot and volume.
LEMMA ObjectRead ==
    ASSUME NEW b \in Bytes, NEW o, NEW v \in Ints \X Words \X Words,
           At(b, o, Int4(v[1]) \o Octets(v[2], 2) \o Octets(v[3], 2))
    PROVE  ParseObject(b, o) = ReadAs(v, o + 8)
<1> DEFINE page == Int4(v[1])
           slot == Octets(v[2], 2)
           volume == Octets(v[3], 2)
<1>1. v[1] \in Ints /\ v[2] \in Words /\ v[3] \in Words /\ v = <<v[1], v[2], v[3]>>
  OBVIOUS
<1>2. Ints \subseteq Int /\ Words \subseteq Int
  BY SpansAreInts
<1>3. v[1] \in Int /\ v[2] \in Int /\ v[3] \in Int
  BY <1>1, <1>2
<1>4. /\ page \in Bytes /\ Len(page) = 4 /\ slot \in Bytes /\ Len(slot) = 2 /\ volume \in Bytes
  BY <1>3, NumBytes
<1>5. At(b, o, page \o slot \o volume) /\ o \in Nat
  BY DEF At
<1> HIDE DEF page, slot, volume
<1>6. At(b, o, page) /\ At(b, o + 4, slot) /\ At(b, o + 6, volume)
  <2>1. At(b, o, page) /\ At(b, o + Len(page), slot) /\ At(b, o + (Len(page) + Len(slot)), volume)
    BY <1>4, <1>5, Split3
  <2> QED
    BY <1>4, <2>1
<1>7. /\ ParseInt(b, o).value = v[1] /\ ParseShort(b, o + 4).value = v[2]
      /\ ParseShort(b, o + 6).value = v[3]
  <2>1. /\ ParseInt(b, o) = ReadAs(v[1], o + 4)
    BY <1>1, <1>6, ReadWhatIsAt DEF page
  <2>2. ParseShort(b, o + 4) = ReadAs(v[2], o + 4 + 2)
    BY <1>1, <1>6, ReadWhatIsAt DEF slot
  <2>3. ParseShort(b, o + 6) = ReadAs(v[3], o + 6 + 2)
    BY <1>1, <1>6, ReadWhatIsAt DEF volume
  <2> QED
    BY <2>1, <2>2, <2>3 DEF ReadAs
<1> QED
  BY <1>1, <1>7 DEF ParseObject

\* _parseSequence passes over the elements of a collection.
LEMMA SetRead ==
    ASSUME NEW b \in Bytes, NEW o, NEW v \in Lengths \X Lengths,
           At(b, o, Int4(v[1]) \o Int4(v[2]) \o [i \in 1..(v[1] * v[2]) |-> 0])
    PROVE  ParseSequence(b, o) = ReadAs(Null, o + (8 + v[1] * v[2]))
<1> DEFINE size == Int4(v[1])
           count == Int4(v[2])
           zeros == [i \in 1..(v[1] * v[2]) |-> 0]
<1>1. v[1] \in Lengths /\ v[2] \in Lengths
  OBVIOUS
<1>2. v[1] \in Nat /\ v[2] \in Nat /\ v[1] \in Ints /\ v[2] \in Ints
  BY <1>1, SpansAreInts
<1>3. v[1] * v[2] \in Nat
  BY <1>2
<1>4. size \in Bytes /\ Len(size) = 4 /\ count \in Bytes
  BY <1>2, NumBytes
<1>5. zeros \in Bytes
  BY <1>3, Zeros
<1>6. At(b, o, size \o count \o zeros) /\ o \in Nat
  BY DEF At
<1> HIDE DEF size, count, zeros
<1>7. At(b, o, size) /\ At(b, o + 4, count)
  <2>1. At(b, o, size) /\ At(b, o + Len(size), count)
    BY <1>4, <1>5, <1>6, Split3
  <2> QED
    BY <1>4, <2>1
<1>8. ParseInt(b, o) = ReadAs(v[1], o + 4)
  BY <1>2, <1>7, ReadWhatIsAt DEF size
<1>9. ParseInt(b, o + 4) = ReadAs(v[2], o + 4 + 4)
  BY <1>2, <1>7, ReadWhatIsAt DEF count
<1>10. ParseInt(b, o).value = v[1] /\ ParseInt(b, o + 4).value = v[2]
  BY <1>8, <1>9 DEF ReadAs
<1>11. ParseSequence(b, o) = ReadAs(Null, o + 8 + v[1] * v[2])
  BY <1>10 DEF ParseSequence
<1>12. o + 8 + v[1] * v[2] = o + (8 + v[1] * v[2])
  BY <1>3, <1>6
<1> QED
  BY <1>11, <1>12

\* _readValue reads the stored value that lies in the buffer, of any type, under both
\* query protocols, and goes on behind it: but not times with a zone under the old one.
THEOREM ValueRead ==
    ASSUME NEW protocol \in {"new", "old"}, NEW b \in Bytes, NEW o,
           NEW sv, sv.type \in Types \ {"null"}, sv.value # Null, sv.value \in ValuesOf(sv.type),
           protocol = "old" => sv.type \notin ZonedTypes,
           NEW size \in Lengths, size = Len(ValueOctets(sv.type, sv.value)),
           At(b, o, ValueOctets(sv.type, sv.value))
    PROVE  Got(ReadValue(protocol, CUBRIDDataType[sv.type], size, b, o), sv, o + size)
<1> DEFINE type == sv.type
           v == sv.value
           x == ValueOctets(type, v)
           r == ReadValue(protocol, CUBRIDDataType[type], size, b, o)
<1>1. type \in Types /\ type # "null"
  OBVIOUS
<1>2. At(b, o, x) /\ size = Len(x) /\ o \in Nat /\ x \in Bytes
  BY ValueBytes DEF At
<1>3. CASE type \in TextTypes \cup {"numeric"}
  <2>1. v \in Bytes /\ x = v \o <<0>> /\ size = Len(v) + 1
    <3>1. ValuesOf(type) = Bytes
      BY <1>1, <1>3, ValuesOfType
    <3>2. x = v \o <<0>>
      BY <1>1, <1>3, ValueOctetsOf
    <3>3. size = Len(v) + 1
      BY <1>1, <1>3, ValueBytes
    <3> QED
      BY <3>1, <3>2, <3>3
  <2>2. r = ParseNullTerminatedString(b, o, size)
    BY <1>3, ReadValueOf
  <2>3. Meant(sv) = v
    BY <1>3, MeantOf
  <2> HIDE DEF v, x, r
  <2>4. At(b, o, v)
    BY <1>2, <2>1, FewBytes, BytesAt
  <2>5. ParseNullTerminatedString(b, o, Len(v) + 1) = ReadAs(v, o + (Len(v) + 1))
    BY <2>1, <2>4, TextRead
  <2> QED
    BY <2>1, <2>2, <2>3, <2>5 DEF Got, ReadAs, r
<1>4. CASE type = "short"
  <2>1. v \in SignedWords /\ x = Octets(v, 2) /\ size = 2
    <3>1. ValuesOf(type) = SignedWords
      BY <1>1, <1>4, ValuesOfType
    <3>2. x = Octets(v, 2)
      BY <1>1, <1>4, ValueOctetsOf
    <3>3. size = 2
      BY <1>1, <1>4, ValueBytes
    <3> QED
      BY <3>1, <3>2, <3>3
  <2>2. r = ParseShort(b, o)
    BY <1>4, ReadValueOf
  <2>3. Meant(sv) = v /\ (Readable(sv) => v >= 0)
    BY <1>4, MeantOf, ReadableOf
  <2> HIDE DEF v, x, r
  <2>4. r.offset = o + size
    <3>1. ParseShort(b, o).offset = o + 2
      BY <1>2, NumIsInt
    <3> QED
      BY <2>1, <2>2, <3>1
  <2>5. ASSUME v >= 0 PROVE r.value = v
    <3>1. v \in Words
      <4>1. Square \div 2 \in Nat /\ Square = 2 * (Square \div 2)
        BY Spans
      <4>2. v \in -(Square \div 2)..(Square \div 2 - 1)
        BY <2>1 DEF SignedWords, Square
      <4>3. v \in 0..(Square - 1)
        BY <2>5, <4>1, <4>2
      <4> QED
        BY <4>3 DEF Words, Square
    <3>2. At(b, o, Octets(v, 2))
      BY <1>2, <2>1
    <3>3. ParseShort(b, o) = ReadAs(v, o + 2)
      BY <3>1, <3>2, ReadWhatIsAt
    <3> QED
      BY <2>2, <3>3 DEF ReadAs
  <2> QED
    BY <2>3, <2>4, <2>5 DEF Got, r, v
<1>5. CASE type = "int"
  <2>1. v \in Ints /\ x = Int4(v) /\ size = 4
    <3>1. ValuesOf(type) = Ints
      BY <1>1, <1>5, ValuesOfType
    <3>2. x = Int4(v)
      BY <1>1, <1>5, ValueOctetsOf
    <3>3. size = 4
      BY <1>1, <1>5, ValueBytes
    <3> QED
      BY <3>1, <3>2, <3>3
  <2>2. r = ParseInt(b, o)
    BY <1>5, ReadValueOf
  <2>3. Meant(sv) = v
    BY <1>5, MeantOf
  <2> HIDE DEF v, x, r
  <2>4. ParseInt(b, o) = ReadAs(v, o + 4)
    BY <1>2, <2>1, ReadWhatIsAt
  <2> QED
    BY <2>1, <2>2, <2>3, <2>4 DEF Got, ReadAs, r
<1>6. CASE type = "resultset"
  <2>1. v \in Ints /\ x = Int4(v) /\ size = 4
    <3>1. ValuesOf(type) = Ints
      BY <1>1, <1>6, ValuesOfType
    <3>2. x = Int4(v)
      BY <1>1, <1>6, ValueOctetsOf
    <3>3. size = 4
      BY <1>1, <1>6, ValueBytes
    <3> QED
      BY <3>1, <3>2, <3>3
  <2>2. r = ParseResultSet(b, o)
    BY <1>6, ReadValueOf
  <2>3. Meant(sv) = Null
    BY <1>6, MeantOf
  <2> HIDE DEF v, x, r
  <2> QED
    BY <2>1, <2>2, <2>3 DEF Got, ReadAs, ParseResultSet, r
<1>7. CASE type = "bigint"
  <2>1. v \in LongInts(Ints) /\ x = Long8(v) /\ size = 8
    <3>1. ValuesOf(type) = LongInts(Ints)
      BY <1>1, <1>7, ValuesOfType
    <3>2. x = Long8(v)
      BY <1>1, <1>7, ValueOctetsOf
    <3>3. size = 8
      BY <1>1, <1>7, ValueBytes
    <3> QED
      BY <3>1, <3>2, <3>3
  <2>2. r = ParseLong(b, o)
    BY <1>7, ReadValueOf
  <2>3. Meant(sv) = v /\ (Readable(sv) => Fits(v))
    BY <1>7, MeantOf, ReadableOf
  <2> HIDE DEF v, x, r
  <2>4. ParseLong(b, o).offset = o + 8 /\ (Fits(v) => ParseLong(b, o).value = v)
    BY <1>2, <2>1, LongIsRead
  <2> QED
    BY <2>1, <2>2, <2>3, <2>4 DEF Got, r, v
<1>8. CASE type \in {"bit", "varbit", "float", "double", "monetary"}
  <2>1. x = v /\ (type = "float" => size = 4) /\ (type \in {"double", "monetary"} => size = 8)
    BY <1>1, <1>8, ValueOctetsOf, ValueBytes
  <2>2. /\ type = "float" => r = ParseBytes(b, o, 4)
        /\ type \in {"double", "monetary"} => r = ParseBytes(b, o, 8)
        /\ type \in {"bit", "varbit"} => r = ParseBytes(b, o, size)
    <3>1. type = "float" => r = ParseBytes(b, o, 4)
      BY <1>1, ReadValueOf, SMTT(30)
    <3>2. type \in {"double", "monetary"} => r = ParseBytes(b, o, 8)
      BY <1>1, ReadValueOf
    <3>3. type \in {"bit", "varbit"} => r = ParseBytes(b, o, size)
      BY <1>1, ReadValueOf
    <3> QED
      BY <3>1, <3>2, <3>3
  <2>3. r = ParseBytes(b, o, size)
    BY <1>8, <2>1, <2>2
  <2>4. Meant(sv) = v
    BY <1>8, MeantOf
  <2> HIDE DEF v, x, r
  <2>5. ParseBytes(b, o, Len(x)) = ReadAs(x, o + Len(x))
    BY <1>2, ReadWhatIsAt
  <2> QED
    BY <1>2, <2>1, <2>3, <2>4, <2>5 DEF Got, ReadAs, r
<1>9. CASE type \in {"date", "time", "timestamp", "datetime"}
  <2>1. /\ x = Shorts2(v) /\ (type \in {"date", "time"} => size = 6)
        /\ (type = "timestamp" => size = 12) /\ (type = "datetime" => size = 14)
    BY <1>1, <1>9, ValueOctetsOf, ValueBytes
  <2>2. /\ type = "date" => r = ParseDate(b, o)
        /\ type = "time" => r = ParseTime(b, o)
        /\ type = "timestamp" => r = ParseTimeStamp(b, o)
        /\ type = "datetime" => r = ParseDateTime(b, o)
    <3>1. type = "date" => r = ParseDate(b, o)
      BY <1>1, ReadValueOf
    <3>2. type = "time" => r = ParseTime(b, o)
      BY <1>1, ReadValueOf
    <3>3. type = "timestamp" => r = ParseTimeStamp(b, o)
      BY <1>1, ReadValueOf
    <3>4. type = "datetime" => r = ParseDateTime(b, o)
      BY <1>1, ReadValueOf
    <3> QED
      BY <3>1, <3>2, <3>3, <3>4
  <2>3. At(b, o, Shorts2(v))
    BY <1>2, <2>1
  <2>4. /\ type = "date" => Got(ParseDate(b, o), sv, o + 6)
        /\ type = "time" => Got(ParseTime(b, o), sv, o + 6)
        /\ type = "timestamp" => Got(ParseTimeStamp(b, o), sv, o + 12)
        /\ type = "datetime" => Got(ParseDateTime(b, o), sv, o + 14)
    BY <1>9, <2>3, DateRead
  <2> HIDE DEF v, x, r
  <2> QED
    BY <1>9, <2>1, <2>2, <2>4 DEF r
<1>10. CASE type \in ZonedTypes
  <2>1. protocol = "new"
    BY <1>10
  <2>2. /\ type \in {"timestamptz", "timestampltz"} => r = ParseZoned(b, o, size, ParseTimeStamp(b, o))
        /\ type \in {"datetimetz", "datetimeltz"} => r = ParseZoned(b, o, size, ParseDateTime(b, o))
    BY <1>1, <2>1, ReadValueOf
  <2>3. /\ type \in {"timestamptz", "timestampltz"} =>
              Got(ParseZoned(b, o, size, ParseTimeStamp(b, o)), sv, o + size)
        /\ type \in {"datetimetz", "datetimeltz"} =>
              Got(ParseZoned(b, o, size, ParseDateTime(b, o)), sv, o + size)
    BY <1>10, ZonedRead
  <2> HIDE DEF v, x, r
  <2> QED
    BY <1>10, <2>2, <2>3 DEF ZonedTypes, r
<1>11. CASE type = "object"
  <2>1. /\ v \in Ints \X Words \X Words /\ size = 8
        /\ x = Int4(v[1]) \o Octets(v[2], 2) \o Octets(v[3], 2)
    <3>1. ValuesOf(type) = Ints \X Words \X Words
      BY <1>1, <1>11, ValuesOfType
    <3>2. x = Int4(v[1]) \o Octets(v[2], 2) \o Octets(v[3], 2)
      BY <1>1, <1>11, ValueOctetsOf, ZenonT(40)
    <3>3. size = 8
      BY <1>1, <1>11, ValueBytes
    <3> QED
      BY <3>1, <3>2, <3>3
  <2>2. r = ParseObject(b, o)
    BY <1>11, ReadValueOf
  <2>3. Meant(sv) = v
    BY <1>11, MeantOf
  <2> HIDE DEF v, x, r
  <2>4. At(b, o, Int4(v[1]) \o Octets(v[2], 2) \o Octets(v[3], 2))
    BY <1>2, <2>1
  <2>5. ParseObject(b, o) = ReadAs(v, o + 8)
    BY <2>1, <2>4, ObjectRead
  <2> QED
    BY <2>1, <2>2, <2>3, <2>5 DEF Got, ReadAs, r
<1>12. CASE type \in SetTypes
  <2>0. ValuesOf(type) = Lengths \X Lengths
    BY <1>1, <1>12, ValuesOfType
  <2>1. v \in Lengths \X Lengths /\ size = 8 + v[1] * v[2]
    BY <1>1, <1>12, <2>0, ValueBytes
  <2>2. x = Int4(v[1]) \o Int4(v[2]) \o [i \in 1..(v[1] * v[2]) |-> 0]
    BY <1>1, <1>12, ValueOctetsOf, ZenonT(40)
  <2>3. r = ParseSequence(b, o)
    BY <1>12, ReadValueOf
  <2>4. Meant(sv) = Null
    BY <1>12, MeantOf
  <2> HIDE DEF v, x, r
  <2>5. At(b, o, Int4(v[1]) \o Int4(v[2]) \o [i \in 1..(v[1] * v[2]) |-> 0])
    BY <1>2, <2>2
  <2>6. ParseSequence(b, o) = ReadAs(Null, o + (8 + v[1] * v[2]))
    BY <2>1, <2>5, SetRead
  <2> QED
    BY <2>1, <2>3, <2>4, <2>6 DEF Got, ReadAs, r
<1>13. CASE type \in LobTypes
  <2>1. v \in LobHandles /\ x = LobOctets(type, v) /\ size = v.size
    <3>1. ValuesOf(type) = LobHandles
      BY <1>1, <1>13, ValuesOfType
    <3>2. x = LobOctets(type, v)
      BY <1>1, <1>13, ValueOctetsOf, ZenonT(40)
    <3>3. size = v.size
      BY <1>1, <1>13, ValueBytes
    <3> QED
      BY <3>1, <3>2, <3>3
  <2>2. r = ReadLob(b, o, size)
    BY <1>13, ReadValueOf
  <2>3. At(b, o, LobOctets(type, v)) /\ v.size \in Lengths
    BY <1>2, <2>1
  <2>4. Got(ReadLob(b, o, v.size), sv, o + v.size)
    BY <1>13, <2>1, <2>3, LobRead
  <2> QED
    BY <2>1, <2>2, <2>4
<1> HIDE DEF v, x, r
<1>14. Got(r, sv, o + size)
  BY <1>1, <1>3, <1>4, <1>5, <1>6, <1>7, <1>8, <1>9, <1>10, <1>11, <1>12, <1>13, EachType DEF r, ZonedTypes
<1> QED
  BY <1>14 DEF r

-----------------------------------------------------------------------------
(* Values with their sizes: the cells of a row.                              *)

\* A stored value has a type that is not null, and bytes whose number can be said.
LEMMA StoredValue ==
    ASSUME NEW sv, IsStored(sv), sv.value # Null
    PROVE  /\ sv.type \in Types \ {"null"} /\ sv.value \in ValuesOf(sv.type)
           /\ ValueOctets(sv.type, sv.value) \in Bytes
           /\ Len(ValueOctets(sv.type, sv.value)) \in Nat
           /\ Len(ValueOctets(sv.type, sv.value)) \in Lengths
           /\ Len(ValueOctets(sv.type, sv.value)) + 1 \in Lengths
<1> DEFINE n == Len(ValueOctets(sv.type, sv.value))
<1>1. sv.type \in Types \ {"null"} /\ sv.value \in ValuesOf(sv.type) /\ n + 1 \in Lengths
  BY DEF IsStored
<1>2. ValueOctets(sv.type, sv.value) \in Bytes
  BY <1>1, ValueBytes
<1>3. n \in Nat
  BY <1>2, BytesProperties
<1>4. IntSpan \div 2 \in Nat
  BY Spans
<1> HIDE DEF n
<1>5. n \in Lengths
  BY <1>1, <1>3, <1>4 DEF Lengths
<1> QED
  BY <1>1, <1>2, <1>3, <1>5 DEF n

\* In a column without a type a value brings its own along.
LEMMA SizedLayout ==
    ASSUME NEW type \in Types, NEW sv, IsStored(sv), type \in {"null", sv.type}
    PROVE  LET all == Sized(type, sv)
               octets == ValueOctets(sv.type, sv.value)
           IN  /\ all \in Bytes
               /\ sv.value = Null => all = Int4(-1) /\ Len(all) = 4
               /\ sv.value # Null /\ type # "null" =>
                     /\ Len(all) = 4 + Len(octets)
                     /\ \A b \in Bytes : \A o : At(b, o, all) => At(b, o, Int4(Len(octets))) /\ At(b, o + 4, octets)
               /\ sv.value # Null /\ type = "null" =>
                     /\ Len(all) = 5 + Len(octets)
                     /\ \A b \in Bytes : \A o : At(b, o, all) =>
                           /\ At(b, o, Int4(1 + Len(octets))) /\ At(b, o + 4, <<CUBRIDDataType[sv.type]>>)
                           /\ At(b, o + 5, octets)
<1> DEFINE all == Sized(type, sv)
           octets == ValueOctets(sv.type, sv.value)
           number == <<CUBRIDDataType[sv.type]>>
<1>1. CASE sv.value = Null
  <2>1. all = Int4(-1)
    BY <1>1 DEF Sized
  <2>2. Int4(-1) \in Bytes /\ Len(Int4(-1)) = 4
    BY NumBytes
  <2> QED
    BY <1>1, <2>1, <2>2
<1>2. CASE sv.value # Null /\ type # "null"
  <2> DEFINE size == Int4(Len(octets))
  <2>1. octets \in Bytes /\ Len(octets) \in Nat
    BY <1>2, StoredValue
  <2>2. size \in Bytes /\ Len(size) = 4
    BY <2>1, NumBytes
  <2>3. all = size \o octets
    BY <1>2 DEF Sized
  <2> HIDE DEF all, octets, size
  <2>4. all \in Bytes /\ Len(all) = Len(size) + Len(octets)
    BY <2>1, <2>2, <2>3, Two
  <2>5. ASSUME NEW b \in Bytes, NEW o, At(b, o, all) PROVE At(b, o, size) /\ At(b, o + 4, octets)
    <3>1. At(b, o, size) /\ At(b, o + Len(size), octets)
      BY <2>1, <2>2, <2>3, <2>5, Two
    <3> QED
      BY <2>2, <3>1
  <2>6. Len(all) = 4 + Len(octets)
    BY <2>1, <2>2, <2>4
  <2> QED
    BY <1>2, <2>4, <2>5, <2>6 DEF all, octets, size
<1>3. CASE sv.value # Null /\ type = "null"
  <2> DEFINE typed == number \o octets
             size == Int4(1 + Len(octets))
  <2>1. octets \in Bytes /\ Len(octets) \in Nat /\ sv.type \in Types
    BY <1>3, StoredValue
  <2>2. number \in Bytes /\ Len(number) = 1
    BY <2>1, FewBytes, ByteBytes
  <2> HIDE DEF octets, number, typed, size
  <2>3. /\ typed \in Bytes /\ Len(typed) = 1 + Len(octets)
        /\ \A b \in Bytes : \A o : At(b, o, typed) => At(b, o, number) /\ At(b, o + 1, octets)
    <3>1. typed = number \o octets
      BY DEF typed
    <3>2. typed \in Bytes /\ Len(typed) = Len(number) + Len(octets)
      BY <2>1, <2>2, <3>1, Two
    <3>3. \A b \in Bytes : \A o : At(b, o, typed) => At(b, o, number) /\ At(b, o + Len(number), octets)
      BY <2>1, <2>2, <3>1, Two
    <3> QED
      BY <2>2, <3>2, <3>3
  <2>4. all = size \o typed
    <3>1. all = Int4(Len(typed)) \o typed
      BY <1>3 DEF Sized, typed, number, octets
    <3> QED
      BY <2>3, <3>1 DEF size
  <2>5. size \in Bytes /\ Len(size) = 4
    BY <2>1, NumBytes DEF size
  <2> HIDE DEF all
  <2>6. all \in Bytes /\ Len(all) = Len(size) + Len(typed)
    BY <2>3, <2>4, <2>5, Two
  <2>7. ASSUME NEW b \in Bytes, NEW o, At(b, o, all)
        PROVE  At(b, o, size) /\ At(b, o + 4, number) /\ At(b, o + 5, octets)
    <3>1. At(b, o, size) /\ At(b, o + 4, typed) /\ o \in Nat
      <4>1. At(b, o, size) /\ At(b, o + Len(size), typed)
        BY <2>3, <2>4, <2>5, <2>7, Two
      <4> QED
        BY <2>5, <2>7, <4>1 DEF At
    <3>2. At(b, o + 4, number) /\ At(b, (o + 4) + 1, octets)
      BY <2>3, <3>1
    <3>3. (o + 4) + 1 = o + 5
      BY <3>1
    <3> QED
      BY <3>1, <3>2, <3>3
  <2>8. Len(all) = 5 + Len(octets)
    BY <2>1, <2>3, <2>5, <2>6
  <2> QED
    BY <1>3, <2>6, <2>7, <2>8 DEF all, octets, number, size
<1> QED
  BY <1>1, <1>2, <1>3

\* A cell is read as it is stored, and the cursor is at the next one.
LEMMA CellRead ==
    ASSUME buffer \in Bytes, NEW o, NEW type \in Types, NEW sv, IsStored(sv), type \in {"null", sv.type},
           call.kind = "prepare" => sv.value = Null \/ sv.type \notin ZonedTypes,
           At(buffer, o, Sized(type, sv))
    PROVE  Got(ParseCell(CUBRIDDataType[type], o), sv, o + Len(Sized(type, sv)))
<1> DEFINE octets == ValueOctets(sv.type, sv.value)
           n == Len(octets)
           r == ParseCell(CUBRIDDataType[type], o)
<1>1. o \in Nat
  BY DEF At
<1>2. Protocol \in {"new", "old"} /\ (Protocol = "old" => call.kind = "prepare")
  BY DEF Protocol
<1>3. CASE sv.value = Null
  <2>1. At(buffer, o, Int4(-1)) /\ Len(Sized(type, sv)) = 4
    BY <1>3, SizedLayout
  <2>2. -1 \in Ints
    BY Spans DEF Ints
  <2>3. ParseInt(buffer, o).value = -1
    BY <2>1, <2>2, ReadWhatIsAt DEF ReadAs
  <2>4. r = ReadAs(Null, o + 4)
    BY <2>3 DEF ParseCell
  <2>5. Meant(sv) = Null
    BY <1>3 DEF Meant
  <2> QED
    BY <2>1, <2>4, <2>5 DEF Got, ReadAs
<1>4. CASE sv.value # Null /\ type # "null"
  <2>1. /\ Len(Sized(type, sv)) = 4 + n
        /\ At(buffer, o, Int4(n)) /\ At(buffer, o + 4, octets)
    BY <1>4, SizedLayout
  <2>2. /\ sv.type \in Types \ {"null"} /\ sv.value \in ValuesOf(sv.type) /\ octets \in Bytes
        /\ n \in Nat /\ n \in Lengths
    BY <1>4, StoredValue
  <2>3. ParseInt(buffer, o).value = n
    BY <2>1, <2>2, SpansAreInts, ReadWhatIsAt DEF ReadAs
  <2>4. Got(ReadValue(Protocol, CUBRIDDataType[sv.type], n, buffer, o + 4), sv, (o + 4) + n)
    BY <1>2, <1>4, <2>1, <2>2, ValueRead
  <2>5. type = sv.type /\ CUBRIDDataType[type] # CUBRIDDataType["null"]
    BY <1>4, TypeNumbers DEF Types, CUBRIDDataType
  <2>6. CASE n > 0
    <3>1. ~ (ParseInt(buffer, o).value <= 0)
      BY <2>2, <2>3, <2>6
    <3>2. r = ReadValue(Protocol, CUBRIDDataType[sv.type], n, buffer, o + 4)
      BY <2>3, <2>5, <3>1 DEF ParseCell
    <3>3. (o + 4) + n = o + (4 + n)
      BY <1>1, <2>2
    <3> QED
      BY <2>1, <2>4, <3>2, <3>3
  <2>7. CASE n = 0
    <3>1. r = ReadAs(Null, o + 4)
      BY <2>3, <2>7 DEF ParseCell
    <3>2. ~ Readable(sv)
      <4>1. octets = <<>>
        BY <2>2, <2>7, EmptySeq DEF Bytes
      <4>2. sv.type \in {"bit", "varbit"}
        <5>1. /\ sv.type \in TextTypes \cup {"numeric"} =>
                    octets = sv.value \o <<0>> /\ sv.value \in Bytes
          BY <2>2, ValuesOfType, ValueOctetsOf
        <5>2. sv.type \notin TextTypes \cup {"numeric"}
          <6>1. ASSUME sv.value \in Bytes PROVE Len(sv.value \o <<0>>) # 0
            <7>1. Len(sv.value \o <<0>>) = Len(sv.value) + Len(<<0>>) /\ Len(sv.value) \in Nat
              BY <6>1, FewBytes, BytesConcat
            <7> QED
              BY <7>1, FewBytes
          <6> QED
            BY <2>7, <5>1, <6>1
        <5>3. sv.type \in {"timestamptz", "timestampltz", "datetimetz", "datetimeltz"} =>
                 sv.value[2] \in Bytes
          BY <2>2, ValuesOfType DEF ZonedTypes
        <5>4. sv.type \in SetTypes => sv.value[1] * sv.value[2] \in Nat
          <6> SUFFICES ASSUME sv.type \in SetTypes PROVE sv.value[1] * sv.value[2] \in Nat
            OBVIOUS
          <6>1. ValuesOf(sv.type) = Lengths \X Lengths
            BY <2>2, ValuesOfType
          <6>2. sv.value[1] \in Lengths /\ sv.value[2] \in Lengths
            BY <2>2, <6>1
          <6>3. sv.value[1] \in Nat /\ sv.value[2] \in Nat
            BY <6>2, SpansAreInts
          <6> QED
            BY <6>3
        <5>5. sv.type \in LobTypes => sv.value.size = Len(sv.value.locator) + 17 /\ Len(sv.value.locator) \in Nat
          BY <2>2, ValuesOfType, LobHandleFields, BytesProperties
        <5>6. sv.type \in {"timestamptz", "timestampltz", "datetimetz", "datetimeltz"} => n # 0
          BY <2>2, <5>3, ValueBytes, BytesProperties
        <5>7. sv.type \in SetTypes => n # 0
          <6>1. sv.type \in SetTypes => n = 8 + sv.value[1] * sv.value[2]
            BY <2>2, ValueBytes
          <6> QED
            BY <5>4, <6>1
        <5>8. sv.type \in LobTypes => n # 0
          <6>1. sv.type \in LobTypes => n = sv.value.size
            BY <2>2, ValueBytes
          <6> QED
            BY <5>5, <6>1
        <5>9. sv.type \in {"short", "int", "resultset", "bigint", "float", "double", "monetary", "object",
                           "date", "time", "timestamp", "datetime"} => n # 0
          <6>1. sv.type = "short" => n = 2
            BY <2>2, ValueBytes
          <6>2. sv.type \in {"int", "resultset", "float"} => n = 4
            BY <2>2, ValueBytes
          <6>3. sv.type \in {"bigint", "double", "monetary", "object"} => n = 8
            BY <2>2, ValueBytes
          <6>4. sv.type \in {"date", "time"} => n = 6
            BY <2>2, ValueBytes
          <6>5. (sv.type = "timestamp" => n = 12) /\ (sv.type = "datetime" => n = 14)
            BY <2>2, ValueBytes
          <6> HIDE DEF n
          <6> QED
            BY <6>1, <6>2, <6>3, <6>4, <6>5
        <5> QED
          BY <2>2, <2>7, <5>2, <5>6, <5>7, <5>8, <5>9, EachType
      <4>3. octets = sv.value
        BY <2>2, <4>2, ValueOctetsOf
      <4> QED
        BY <1>4, <2>2, <4>1, <4>2, <4>3, ReadableOf
    <3> QED
      BY <2>1, <2>7, <3>1, <3>2 DEF Got, ReadAs
  <2> QED
    BY <2>2, <2>6, <2>7
<1>5. CASE sv.value # Null /\ type = "null"
  <2>1. /\ Len(Sized(type, sv)) = 5 + n
        /\ At(buffer, o, Int4(1 + n)) /\ At(buffer, o + 4, <<CUBRIDDataType[sv.type]>>)
        /\ At(buffer, o + 5, octets)
    BY <1>5, SizedLayout
  <2>2. /\ sv.type \in Types \ {"null"} /\ sv.value \in ValuesOf(sv.type) /\ octets \in Bytes
        /\ n \in Nat /\ n \in Lengths /\ n + 1 \in Lengths
    BY <1>5, StoredValue
  <2>3. ParseInt(buffer, o).value = 1 + n
    <3>1. 1 + n = n + 1
      BY <2>2
    <3>2. 1 + n \in Ints
      BY <2>2, <3>1, SpansAreInts
    <3> QED
      BY <2>1, <3>2, ReadWhatIsAt DEF ReadAs
  <2>4. ByteAt(buffer, o + 4) = CUBRIDDataType[sv.type]
    BY <2>1, <2>2, FewBytes, ReadWhatIsAt
  <2>5. Got(ReadValue(Protocol, CUBRIDDataType[sv.type], n, buffer, o + 5), sv, (o + 5) + n)
    BY <1>2, <1>5, <2>1, <2>2, ValueRead
  <2>6. r = ReadValue(Protocol, CUBRIDDataType[sv.type], n, buffer, o + 5)
    <3>1. ~ (1 + n <= 0) /\ (1 + n) - 1 = n
      BY <2>2
    <3> QED
      BY <1>5, <2>3, <2>4, <3>1 DEF ParseCell
  <2>7. (o + 5) + n = o + (5 + n)
    BY <1>1, <2>2
  <2> QED
    BY <2>1, <2>5, <2>6, <2>7
<1> QED
  BY <1>3, <1>4, <1>5

-----------------------------------------------------------------------------
(* Fields, one after the other.                                              *)

FieldKinds == {"byte", "short", "int", "oid", "sizedShort", "sizedInt", "string"}

\* ParseField, kind by kind.
LEMMA FieldOf ==
    ASSUME NEW kind, NEW at
    PROVE  /\ kind = "byte" => ParseField(kind, at) = ParseByte(buffer, at)
           /\ kind = "short" => ParseField(kind, at) = ParseShort(buffer, at)
           /\ kind = "int" => ParseField(kind, at) = ParseInt(buffer, at)
           /\ kind = "oid" => ParseField(kind, at) = ParseBytes(buffer, at, 8)
           /\ kind = "sizedShort" => ParseField(kind, at) = ParseShort(buffer, at + 4)
           /\ kind = "sizedInt" => ParseField(kind, at) = ParseInt(buffer, at + 4)
           /\ kind = "string" => ParseField(kind, at) =
                 ParseNullTerminatedString(buffer, at + 4, ParseInt(buffer, at).value)
BY DEF ParseField

\* After a field the reader is somewhere, and a number was read if one was to be.
LEMMA FieldOffset ==
    ASSUME buffer \in Bytes, NEW kind \in FieldKinds, NEW at \in Int
    PROVE  /\ ParseField(kind, at).offset \in Int
           /\ kind \in {"byte", "short", "int"} => ParseField(kind, at).value \in Int
<1>1. CASE kind \in {"byte", "short", "int"}
  <2>1. kind = "byte" => ParseField(kind, at) = ParseByte(buffer, at)
    BY FieldOf
  <2>2. kind = "short" => ParseField(kind, at) = ParseShort(buffer, at)
    BY FieldOf
  <2>3. kind = "int" => ParseField(kind, at) = ParseInt(buffer, at)
    BY FieldOf
  <2>4. ParseByte(buffer, at).offset \in Int /\ ParseByte(buffer, at).value \in Int
    BY NumIsInt, Spans
  <2>5. ParseShort(buffer, at).offset \in Int /\ ParseShort(buffer, at).value \in Int
    BY NumIsInt
  <2>6. ParseInt(buffer, at).offset \in Int /\ ParseInt(buffer, at).value \in Int
    BY NumIsInt
  <2> QED
    BY <1>1, <2>1, <2>2, <2>3, <2>4, <2>5, <2>6
<1>2. CASE kind = "oid"
  BY <1>2, FieldOf DEF ParseBytes, ReadAs
<1>3. CASE kind \in {"sizedShort", "sizedInt"}
  <2>1. at + 4 \in Int
    OBVIOUS
  <2>2. ParseShort(buffer, at + 4).offset \in Int /\ ParseInt(buffer, at + 4).offset \in Int
    BY <2>1, NumIsInt
  <2>3. /\ kind = "sizedShort" => ParseField(kind, at) = ParseShort(buffer, at + 4)
        /\ kind = "sizedInt" => ParseField(kind, at) = ParseInt(buffer, at + 4)
    BY FieldOf
  <2> QED
    BY <1>3, <2>2, <2>3
<1>4. CASE kind = "string"
  <2>1. ParseField(kind, at) = ParseNullTerminatedString(buffer, at + 4, ParseInt(buffer, at).value)
    BY <1>4, FieldOf
  <2>2. ParseInt(buffer, at).value \in Int
    BY NumIsInt
  <2> QED
    BY <1>4, <2>1, <2>2 DEF ParseNullTerminatedString, ReadAs
<1> QED
  BY <1>1, <1>2, <1>3, <1>4 DEF FieldKinds

\* Where each field ends.
LEMMA FieldEndsStep ==
    ASSUME buffer \in Bytes, NEW kinds \in Seq(FieldKinds), NEW at \in Int
    PROVE  /\ \A n \in 0..Len(kinds) : FieldEnds(kinds, at)[n] \in Int
           /\ FieldEnds(kinds, at)[0] = at
           /\ \A n \in 1..Len(kinds) :
                 FieldEnds(kinds, at)[n] = ParseField(kinds[n], FieldEnds(kinds, at)[n - 1]).offset
<1> DEFINE size == Len(kinds)
           End(n, x) == ParseField(kinds[n], x).offset
           Step(f) == [n \in 0..size |-> IF n = 0 THEN at ELSE End(n, f[n - 1])]
           next == [x \in (1..size) \X Int |-> End(x[1], x[2])]
<1>1. size \in Nat /\ \A n \in 1..size : kinds[n] \in FieldKinds
  OBVIOUS
<1>2. \A n \in 1..size, x \in Int : End(n, x) \in Int
  BY <1>1, FieldOffset
<1> HIDE DEF End
<1>3. next \in StepFunctions(size, Int)
  BY <1>2 DEF StepFunctions
<1>4. \A n \in 1..size, x \in Int : next[<<n, x>>] = End(n, x)
  OBVIOUS
<1> HIDE DEF next
<1>5. \A n \in 1..size : n \in 0..size /\ n - 1 \in 0..size /\ n # 0
  BY <1>1
<1>6. \E f : Recursive(f, size, Int, at, next)
  <2> HIDE DEF size
  <2> QED
    BY <1>1, <1>3, RecursiveFunctionExists, Zenon
<1>7. PICK f \in [0..size -> Int] : f[0] = at /\ \A n \in 1..size : f[n] = next[<<n, f[n - 1]>>]
  BY <1>6 DEF Recursive
<1>8. f = Step(f)
  <2>1. \A n \in 1..size : f[n] = End(n, f[n - 1])
    <3> SUFFICES ASSUME NEW n \in 1..size PROVE f[n] = End(n, f[n - 1])
      OBVIOUS
    <3>1. f[n - 1] \in Int
      BY <1>5, <1>7
    <3> QED
      BY <1>4, <1>7, <3>1
  <2>2. \A n \in 0..size : f[n] = Step(f)[n]
    BY <1>1, <1>7, <2>1
  <2> QED
    BY <1>7, <2>2
<1>9. FieldEnds(kinds, at) = CHOOSE g : g = Step(g)
  BY DEF FieldEnds, End
<1> DEFINE e == FieldEnds(kinds, at)
<1>10. e = Step(e)
  <2> HIDE DEF Step
  <2> QED
    BY <1>8, <1>9
<1>11. /\ \A g : \A n \in 1..size : Step(g)[n] = End(n, g[n - 1])
       /\ \A g : Step(g)[0] = at
  BY <1>1, <1>5
<1> HIDE DEF e, Step
<1>12. e[0] = at /\ \A n \in 1..size : e[n] = End(n, e[n - 1])
  BY <1>10, <1>11
<1>13. \A n \in 0..size : e[n] \in Int
  <2> DEFINE P == {n \in Nat : n \in 0..size => e[n] \in Int}
  <2>1. 0 \in P
    BY <1>12
  <2>2. ASSUME NEW n \in 1..size, n - 1 \in P PROVE n \in P
    <3>1. e[n - 1] \in Int
      BY <1>5, <2>2
    <3>2. End(n, e[n - 1]) \in Int
      BY <1>2, <3>1
    <3>3. e[n] = End(n, e[n - 1])
      BY <1>12
    <3> QED
      BY <3>2, <3>3
  <2> HIDE DEF P
  <2>3. \A n \in 0..size : n \in P
    BY <1>1, <2>1, <2>2, Induction
  <2> QED
    BY <2>3 DEF P
<1> QED
  BY <1>12, <1>13 DEF e, End

\* The same of several fields.
LEMMA ParseOffset ==
    ASSUME buffer \in Bytes, NEW kinds \in Seq(FieldKinds), NEW at \in Int
    PROVE  /\ Parse(kinds, at).offset \in Int
           /\ \A n \in 1..Len(kinds) :
                 kinds[n] \in {"byte", "short", "int"} => Parse(kinds, at).value[n] \in Int
<1> DEFINE e == FieldEnds(kinds, at)
<1>1. Len(kinds) \in Nat /\ \A n \in 1..Len(kinds) : kinds[n] \in FieldKinds
  OBVIOUS
<1>2. \A n \in 0..Len(kinds) : e[n] \in Int
  BY FieldEndsStep
<1>3. /\ Parse(kinds, at).offset = e[Len(kinds)]
      /\ Parse(kinds, at).value = [n \in 1..Len(kinds) |-> ParseField(kinds[n], e[n - 1]).value]
  BY DEF Parse, ReadAs
<1> HIDE DEF e
<1>4. Parse(kinds, at).offset \in Int
  <2>1. Len(kinds) \in 0..Len(kinds)
    BY <1>1
  <2> QED
    BY <1>2, <1>3, <2>1
<1>5. ASSUME NEW n \in 1..Len(kinds), kinds[n] \in {"byte", "short", "int"}
      PROVE  Parse(kinds, at).value[n] \in Int
  <2>1. n - 1 \in 0..Len(kinds)
    BY <1>1
  <2>2. ParseField(kinds[n], e[n - 1]).value \in Int
    BY <1>1, <1>2, <1>5, <2>1, FieldOffset
  <2> QED
    BY <1>3, <2>2
<1> QED
  BY <1>4, <1>5

\* A field of each kind, as the server sends it.
FieldOctets(kind, v) ==
    CASE kind = "byte" -> <<v>>
      [] kind = "short" -> Octets(v, 2)
      [] kind = "int" -> Int4(v)
      [] kind = "oid" -> v
      [] kind = "sizedShort" -> Int4(2) \o Octets(v, 2)
      [] kind = "sizedInt" -> Int4(4) \o Int4(v)
      [] kind = "string" -> Text(v)
FieldValues(kind) ==
    CASE kind = "byte" -> Byte
      [] kind \in {"short", "sizedShort"} -> Words
      [] kind \in {"int", "sizedInt"} -> Ints
      [] kind = "oid" -> {Oid}
      [] kind = "string" -> Texts

\* The eight bytes of an oid that no call asks for.
LEMMA OidBytes == Oid \in Bytes /\ Len(Oid) = 8
<1> DEFINE zero == Int4(0)
<1>1. zero \in Bytes /\ Len(zero) = 4
  BY NumBytes
<1>2. Oid = zero \o zero
  BY DEF Oid
<1> HIDE DEF zero
<1>3. Oid \in Bytes /\ Len(Oid) = Len(zero) + Len(zero)
  BY <1>1, <1>2, Two
<1> QED
  BY <1>1, <1>3

\* The texts the server sends.
LEMMA TextsAreBytes ==
    ASSUME NEW x \in Texts
    PROVE  x \in Bytes /\ Len(x) \in Nat /\ Len(x) + 1 \in Lengths /\ Len(x) + 1 \in Ints
<1>1. x \in Bytes /\ Len(x) + 1 \in Lengths
  BY DEF Texts
<1> QED
  BY <1>1, BytesProperties, SpansAreInts

\* A text lies behind its length.
LEMMA TextIsRead ==
    ASSUME NEW b \in Bytes, NEW o, NEW x \in Texts, At(b, o, Text(x))
    PROVE  /\ ParseInt(b, o) = ReadAs(Len(x) + 1, o + 4)
           /\ ParseNullTerminatedString(b, o + 4, Len(x) + 1) = ReadAs(x, o + Len(Text(x)))
<1> DEFINE size == Int4(Len(x) + 1)
           zero == <<0>>
<1>1. x \in Bytes /\ Len(x) \in Nat /\ Len(x) + 1 \in Ints /\ Len(x) + 1 \in Int
  BY TextsAreBytes
<1>2. size \in Bytes /\ Len(size) = 4 /\ zero \in Bytes
  BY <1>1, NumBytes, FewBytes
<1>3. At(b, o, size \o x \o zero) /\ o \in Nat
  BY DEF Text, At
<1>4. Len(Text(x)) = Len(x) + 5
  BY <1>1, TextBytes
<1> HIDE DEF size, zero
<1>5. At(b, o, size) /\ At(b, o + 4, x)
  <2>1. At(b, o, size) /\ At(b, o + Len(size), x)
    BY <1>1, <1>2, <1>3, Split3
  <2> QED
    BY <1>2, <2>1
<1>6. ParseInt(b, o) = ReadAs(Len(x) + 1, o + 4)
  BY <1>1, <1>5, ReadWhatIsAt DEF size
<1>7. ParseNullTerminatedString(b, o + 4, Len(x) + 1) = ReadAs(x, (o + 4) + (Len(x) + 1))
  BY <1>1, <1>5, TextRead
<1>8. (o + 4) + (Len(x) + 1) = o + Len(Text(x))
  BY <1>1, <1>3, <1>4
<1> QED
  BY <1>6, <1>7, <1>8

\* A field that lies in the buffer is read, and the cursor is behind it.
LEMMA FieldRead ==
    ASSUME buffer \in Bytes, NEW o, NEW kind \in FieldKinds, NEW v \in FieldValues(kind),
           At(buffer, o, FieldOctets(kind, v))
    PROVE  /\ ParseField(kind, o) = ReadAs(v, o + Len(FieldOctets(kind, v)))
           /\ FieldOctets(kind, v) \in Bytes /\ Len(FieldOctets(kind, v)) \in Nat
<1> DEFINE x == FieldOctets(kind, v)
<1>1. At(buffer, o, x) /\ o \in Nat
  BY DEF At
<1>2. CASE kind = "byte"
  <2>1. x = <<v>> /\ v \in Byte
    BY <1>2 DEF FieldOctets, FieldValues
  <2>2. x \in Bytes /\ Len(x) = 1
    BY <2>1, ByteBytes
  <2>3. ParseField(kind, o) = ParseByte(buffer, o)
    BY <1>2, FieldOf
  <2>4. ParseByte(buffer, o) = ReadAs(v, o + 1)
    BY <1>1, <2>1, ReadWhatIsAt
  <2> QED
    BY <2>2, <2>3, <2>4
<1>3. CASE kind = "short"
  <2>1. x = Octets(v, 2) /\ v \in Words /\ v \in Int
    BY <1>3, SpansAreInts DEF FieldOctets, FieldValues
  <2>2. x \in Bytes /\ Len(x) = 2
    BY <2>1, NumBytes
  <2>3. ParseField(kind, o) = ParseShort(buffer, o)
    BY <1>3, FieldOf
  <2>4. ParseShort(buffer, o) = ReadAs(v, o + 2)
    BY <1>1, <2>1, ReadWhatIsAt
  <2> QED
    BY <2>2, <2>3, <2>4
<1>4. CASE kind = "int"
  <2>1. x = Int4(v) /\ v \in Ints /\ v \in Int
    BY <1>4, SpansAreInts DEF FieldOctets, FieldValues
  <2>2. x \in Bytes /\ Len(x) = 4
    BY <2>1, NumBytes
  <2>3. ParseField(kind, o) = ParseInt(buffer, o)
    BY <1>4, FieldOf
  <2>4. ParseInt(buffer, o) = ReadAs(v, o + 4)
    BY <1>1, <2>1, ReadWhatIsAt
  <2> QED
    BY <2>2, <2>3, <2>4
<1>5. CASE kind = "oid"
  <2>1. x = v /\ v = Oid
    BY <1>5 DEF FieldOctets, FieldValues
  <2>2. x \in Bytes /\ Len(x) = 8
    BY <2>1, OidBytes
  <2>3. ParseField(kind, o) = ParseBytes(buffer, o, 8)
    BY <1>5, FieldOf
  <2>4. ParseBytes(buffer, o, Len(x)) = ReadAs(x, o + Len(x))
    BY <1>1, <2>2, ReadWhatIsAt
  <2> HIDE DEF x
  <2>5. ParseBytes(buffer, o, 8) = ReadAs(v, o + Len(x))
    BY <2>1, <2>2, <2>4
  <2> QED
    BY <2>2, <2>3, <2>5 DEF x
<1>6. CASE kind = "sizedShort"
  <2> DEFINE size == Int4(2)
             number == Octets(v, 2)
  <2>1. x = size \o number /\ v \in Words /\ v \in Int
    BY <1>6, SpansAreInts DEF FieldOctets, FieldValues
  <2>2. size \in Bytes /\ Len(size) = 4 /\ number \in Bytes /\ Len(number) = 2
    BY <2>1, NumBytes
  <2>3. ParseField(kind, o) = ParseShort(buffer, o + 4)
    BY <1>6, FieldOf
  <2> HIDE DEF x, size, number
  <2>4. x \in Bytes /\ Len(x) = Len(size) + Len(number)
    BY <2>1, <2>2, Two
  <2>5. At(buffer, o + 4, number)
    <3>1. At(buffer, o + Len(size), number)
      BY <1>1, <2>1, <2>2, Two
    <3> QED
      BY <2>2, <3>1
  <2>6. ParseShort(buffer, o + 4) = ReadAs(v, (o + 4) + 2)
    BY <2>1, <2>5, ReadWhatIsAt DEF number
  <2>7. (o + 4) + 2 = o + Len(x) /\ Len(x) \in Nat
    BY <1>1, <2>2, <2>4
  <2> QED
    BY <2>3, <2>4, <2>6, <2>7 DEF x
<1>7. CASE kind = "sizedInt"
  <2> DEFINE size == Int4(4)
             number == Int4(v)
  <2>1. x = size \o number /\ v \in Ints /\ v \in Int
    BY <1>7, SpansAreInts DEF FieldOctets, FieldValues
  <2>2. size \in Bytes /\ Len(size) = 4 /\ number \in Bytes /\ Len(number) = 4
    BY <2>1, NumBytes
  <2>3. ParseField(kind, o) = ParseInt(buffer, o + 4)
    BY <1>7, FieldOf
  <2> HIDE DEF x, size, number
  <2>4. x \in Bytes /\ Len(x) = Len(size) + Len(number)
    BY <2>1, <2>2, Two
  <2>5. At(buffer, o + 4, number)
    <3>1. At(buffer, o + Len(size), number)
      BY <1>1, <2>1, <2>2, Two
    <3> QED
      BY <2>2, <3>1
  <2>6. ParseInt(buffer, o + 4) = ReadAs(v, (o + 4) + 4)
    BY <2>1, <2>5, ReadWhatIsAt DEF number
  <2>7. (o + 4) + 4 = o + Len(x) /\ Len(x) \in Nat
    BY <1>1, <2>2, <2>4
  <2> QED
    BY <2>3, <2>4, <2>6, <2>7 DEF x
<1>8. CASE kind = "string"
  <2>1. x = Text(v) /\ v \in Texts
    BY <1>8 DEF FieldOctets, FieldValues
  <2>2. At(buffer, o, Text(v))
    BY <1>1, <2>1
  <2>3. /\ ParseInt(buffer, o) = ReadAs(Len(v) + 1, o + 4)
        /\ ParseNullTerminatedString(buffer, o + 4, Len(v) + 1) = ReadAs(v, o + Len(Text(v)))
    BY <2>1, <2>2, TextIsRead
  <2>4. ParseField(kind, o) = ParseNullTerminatedString(buffer, o + 4, ParseInt(buffer, o).value)
    BY <1>8, FieldOf
  <2>5. Text(v) \in Bytes /\ Len(Text(v)) \in Nat
    BY <2>1, TextsAreBytes, TextBytes, BytesProperties
  <2> QED
    BY <2>1, <2>3, <2>4, <2>5 DEF ReadAs
<1> HIDE DEF x
<1> QED
  BY <1>2, <1>3, <1>4, <1>5, <1>6, <1>7, <1>8 DEF FieldKinds, x

\* Fields that lie in the buffer one after the other are read, and the cursor is
\* behind them all.
LEMMA ParseRead ==
    ASSUME buffer \in Bytes, NEW kinds \in Seq(FieldKinds), NEW values, NEW ends, ends[0] \in Int,
           values = [n \in 1..Len(kinds) |-> values[n]],
           \A n \in 1..Len(kinds) :
              /\ values[n] \in FieldValues(kinds[n])
              /\ At(buffer, ends[n - 1], FieldOctets(kinds[n], values[n]))
              /\ ends[n] = ends[n - 1] + Len(FieldOctets(kinds[n], values[n]))
    PROVE  Parse(kinds, ends[0]) = ReadAs(values, ends[Len(kinds)])
<1> DEFINE e == FieldEnds(kinds, ends[0])
           size == Len(kinds)
<1>1. size \in Nat /\ \A n \in 1..size : kinds[n] \in FieldKinds
  OBVIOUS
<1>2. e[0] = ends[0] /\ \A n \in 1..size : e[n] = ParseField(kinds[n], e[n - 1]).offset
  BY FieldEndsStep
<1> HIDE DEF e
<1>3. ASSUME NEW n \in 1..size
      PROVE  ParseField(kinds[n], ends[n - 1]) = ReadAs(values[n], ends[n])
  BY <1>1, <1>3, FieldRead
<1>4. \A n \in 0..size : e[n] = ends[n]
  <2> DEFINE P == {n \in Nat : e[n] = ends[n]}
  <2>1. 0 \in P
    BY <1>2
  <2>2. ASSUME NEW n \in 1..size, n - 1 \in P PROVE n \in P
    <3>1. e[n - 1] = ends[n - 1]
      BY <2>2
    <3>2. ParseField(kinds[n], ends[n - 1]).offset = ends[n]
      <4>1. ParseField(kinds[n], ends[n - 1]) = ReadAs(values[n], ends[n])
        BY <1>3
      <4> QED
        BY <4>1 DEF ReadAs
    <3>3. e[n] = ends[n]
      BY <1>2, <3>1, <3>2
    <3> QED
      BY <3>3
  <2> HIDE DEF P
  <2>3. \A n \in 0..size : n \in P
    BY <1>1, <2>1, <2>2, Induction
  <2> QED
    BY <2>3 DEF P
<1>5. Parse(kinds, ends[0]) = ReadAs([n \in 1..size |-> ParseField(kinds[n], e[n - 1]).value], e[size])
  BY DEF Parse, e
<1>6. \A n \in 1..size : ParseField(kinds[n], e[n - 1]).value = values[n]
  <2> SUFFICES ASSUME NEW n \in 1..size PROVE ParseField(kinds[n], e[n - 1]).value = values[n]
    OBVIOUS
  <2>1. n - 1 \in 0..size
    BY <1>1
  <2>2. e[n - 1] = ends[n - 1]
    BY <1>4, <2>1
  <2>3. ParseField(kinds[n], ends[n - 1]).value = values[n]
    <3>1. ParseField(kinds[n], ends[n - 1]) = ReadAs(values[n], ends[n])
      BY <1>3
    <3> QED
      BY <3>1 DEF ReadAs
  <2> QED
    BY <2>2, <2>3
<1>7. e[size] = ends[size]
  <2>1. size \in 0..size
    BY <1>1
  <2> QED
    BY <1>4, <2>1
<1>8. [n \in 1..size |-> ParseField(kinds[n], e[n - 1]).value] = values
  BY <1>6
<1> QED
  BY <1>5, <1>7, <1>8

\* A few fields, each read where the one before it ends.
LEMMA NoField ==
    ASSUME buffer \in Bytes, NEW at \in Int
    PROVE  Parse(<<>>, at) = ReadAs(<<>>, at)
<1> DEFINE kinds == <<>>
<1>1. kinds \in Seq(FieldKinds) /\ Len(kinds) = 0
  OBVIOUS
<1> HIDE DEF kinds
<1>2. FieldEnds(kinds, at)[0] = at
  BY <1>1, FieldEndsStep
<1>3. Parse(kinds, at) = ReadAs([n \in 1..0 |-> ParseField(kinds[n], FieldEnds(kinds, at)[n - 1]).value], at)
  BY <1>1, <1>2 DEF Parse
<1>4. [n \in 1..0 |-> ParseField(kinds[n], FieldEnds(kinds, at)[n - 1]).value] = <<>>
  OBVIOUS
<1> QED
  BY <1>3, <1>4 DEF kinds

\* Parse of one field,
LEMMA OneField ==
    ASSUME buffer \in Bytes, NEW at \in Int, NEW k1 \in FieldKinds,
           NEW v1, NEW e1, ParseField(k1, at) = ReadAs(v1, e1)
    PROVE  Parse(<<k1>>, at) = ReadAs(<<v1>>, e1)
<1> DEFINE kinds == <<k1>>
           e == FieldEnds(kinds, at)
<1>1. kinds \in Seq(FieldKinds) /\ Len(kinds) = 1 /\ kinds[1] = k1
  OBVIOUS
<1> HIDE DEF kinds
<1>2. e[0] = at /\ \A n \in 1..1 : e[n] = ParseField(kinds[n], e[n - 1]).offset
  BY <1>1, FieldEndsStep
<1> HIDE DEF e
<1>3. e[1] = e1 /\ ParseField(kinds[1], e[1 - 1]) = ReadAs(v1, e1)
  <2>1. 1 \in 1..1 /\ 1 - 1 = 0
    OBVIOUS
  <2>2. ParseField(kinds[1], e[1 - 1]) = ReadAs(v1, e1)
    BY <1>1, <1>2, <2>1
  <2>3. e[1] = ParseField(kinds[1], e[1 - 1]).offset
    BY <1>2, <2>1
  <2> QED
    BY <2>2, <2>3 DEF ReadAs
<1>4. Parse(kinds, at) = ReadAs([n \in 1..1 |-> ParseField(kinds[n], e[n - 1]).value], e1)
  BY <1>1, <1>3 DEF Parse, e
<1>5. [n \in 1..1 |-> ParseField(kinds[n], e[n - 1]).value] = <<v1>>
  <2>1. \A n \in 1..1 : ParseField(kinds[n], e[n - 1]).value = <<v1>>[n]
    BY <1>3 DEF ReadAs
  <2> QED
    BY <2>1
<1> QED
  BY <1>4, <1>5 DEF kinds

\* of two, where the second begins at the end of the first,
LEMMA TwoFields ==
    ASSUME buffer \in Bytes, NEW at \in Int, NEW k1 \in FieldKinds, NEW k2 \in FieldKinds,
           NEW v1, NEW e1, ParseField(k1, at) = ReadAs(v1, e1),
           NEW v2, NEW e2, ParseField(k2, e1) = ReadAs(v2, e2)
    PROVE  Parse(<<k1, k2>>, at) = ReadAs(<<v1, v2>>, e2)
<1> DEFINE kinds == <<k1, k2>>
           e == FieldEnds(kinds, at)
<1>1. kinds \in Seq(FieldKinds) /\ Len(kinds) = 2 /\ kinds[1] = k1 /\ kinds[2] = k2
  OBVIOUS
<1> HIDE DEF kinds
<1>2. e[0] = at /\ \A n \in 1..2 : e[n] = ParseField(kinds[n], e[n - 1]).offset
  BY <1>1, FieldEndsStep, ZenonT(40)
<1> HIDE DEF e
<1>3. e[1] = e1 /\ ParseField(kinds[1], e[1 - 1]) = ReadAs(v1, e1)
  <2>1. 1 \in 1..2 /\ 1 - 1 = 0
    OBVIOUS
  <2>2. ParseField(kinds[1], e[1 - 1]) = ReadAs(v1, e1)
    BY <1>1, <1>2, <2>1
  <2>3. e[1] = ParseField(kinds[1], e[1 - 1]).offset
    BY <1>2, <2>1
  <2> QED
    BY <2>2, <2>3 DEF ReadAs
<1>4. e[2] = e2 /\ ParseField(kinds[2], e[2 - 1]) = ReadAs(v2, e2)
  <2>1. 2 \in 1..2 /\ 2 - 1 = 1
    OBVIOUS
  <2>2. ParseField(kinds[2], e[2 - 1]) = ReadAs(v2, e2)
    BY <1>1, <1>3, <2>1
  <2>3. e[2] = ParseField(kinds[2], e[2 - 1]).offset
    BY <1>2, <2>1
  <2> QED
    BY <2>2, <2>3 DEF ReadAs
<1>5. Parse(kinds, at) = ReadAs([n \in 1..2 |-> ParseField(kinds[n], e[n - 1]).value], e2)
  BY <1>1, <1>4 DEF Parse, e
<1>6. [n \in 1..2 |-> ParseField(kinds[n], e[n - 1]).value] = <<v1, v2>>
  <2>1. \A n \in 1..2 : ParseField(kinds[n], e[n - 1]).value = <<v1, v2>>[n]
    BY <1>3, <1>4 DEF ReadAs
  <2> QED
    BY <2>1
<1> QED
  BY <1>5, <1>6 DEF kinds

\* of three,
LEMMA ThreeFields ==
    ASSUME buffer \in Bytes, NEW at \in Int, NEW k1 \in FieldKinds, NEW k2 \in FieldKinds, NEW k3 \in FieldKinds,
           NEW v1, NEW e1, ParseField(k1, at) = ReadAs(v1, e1),
           NEW v2, NEW e2, ParseField(k2, e1) = ReadAs(v2, e2),
           NEW v3, NEW e3, ParseField(k3, e2) = ReadAs(v3, e3)
    PROVE  Parse(<<k1, k2, k3>>, at) = ReadAs(<<v1, v2, v3>>, e3)
<1> DEFINE kinds == <<k1, k2, k3>>
           e == FieldEnds(kinds, at)
<1>1. kinds \in Seq(FieldKinds) /\ Len(kinds) = 3 /\ kinds[1] = k1 /\ kinds[2] = k2 /\ kinds[3] = k3
  OBVIOUS
<1> HIDE DEF kinds
<1>2. e[0] = at /\ \A n \in 1..3 : e[n] = ParseField(kinds[n], e[n - 1]).offset
  BY <1>1, FieldEndsStep, ZenonT(40)
<1> HIDE DEF e
<1>3. e[1] = e1 /\ ParseField(kinds[1], e[1 - 1]) = ReadAs(v1, e1)
  <2>1. 1 \in 1..3 /\ 1 - 1 = 0
    OBVIOUS
  <2>2. ParseField(kinds[1], e[1 - 1]) = ReadAs(v1, e1)
    BY <1>1, <1>2, <2>1
  <2>3. e[1] = ParseField(kinds[1], e[1 - 1]).offset
    BY <1>2, <2>1
  <2> QED
    BY <2>2, <2>3 DEF ReadAs
<1>4. e[2] = e2 /\ ParseField(kinds[2], e[2 - 1]) = ReadAs(v2, e2)
  <2>1. 2 \in 1..3 /\ 2 - 1 = 1
    OBVIOUS
  <2>2. ParseField(kinds[2], e[2 - 1]) = ReadAs(v2, e2)
    BY <1>1, <1>3, <2>1
  <2>3. e[2] = ParseField(kinds[2], e[2 - 1]).offset
    BY <1>2, <2>1
  <2> QED
    BY <2>2, <2>3 DEF ReadAs
<1>5. e[3] = e3 /\ ParseField(kinds[3], e[3 - 1]) = ReadAs(v3, e3)
  <2>1. 3 \in 1..3 /\ 3 - 1 = 2
    OBVIOUS
  <2>2. ParseField(kinds[3], e[3 - 1]) = ReadAs(v3, e3)
    BY <1>1, <1>4, <2>1
  <2>3. e[3] = ParseField(kinds[3], e[3 - 1]).offset
    BY <1>2, <2>1
  <2> QED
    BY <2>2, <2>3 DEF ReadAs
<1>6. Parse(kinds, at) = ReadAs([n \in 1..3 |-> ParseField(kinds[n], e[n - 1]).value], e3)
  BY <1>1, <1>5 DEF Parse, e
<1>7. [n \in 1..3 |-> ParseField(kinds[n], e[n - 1]).value] = <<v1, v2, v3>>
  <2>1. \A n \in 1..3 : ParseField(kinds[n], e[n - 1]).value = <<v1, v2, v3>>[n]
    BY <1>3, <1>4, <1>5 DEF ReadAs
  <2> QED
    BY <2>1
<1> QED
  BY <1>6, <1>7 DEF kinds

\* of four,
LEMMA FourFields ==
    ASSUME buffer \in Bytes, NEW at \in Int, NEW k1 \in FieldKinds, NEW k2 \in FieldKinds, NEW k3 \in FieldKinds, NEW k4 \in FieldKinds,
           NEW v1, NEW e1, ParseField(k1, at) = ReadAs(v1, e1),
           NEW v2, NEW e2, ParseField(k2, e1) = ReadAs(v2, e2),
           NEW v3, NEW e3, ParseField(k3, e2) = ReadAs(v3, e3),
           NEW v4, NEW e4, ParseField(k4, e3) = ReadAs(v4, e4)
    PROVE  Parse(<<k1, k2, k3, k4>>, at) = ReadAs(<<v1, v2, v3, v4>>, e4)
<1> DEFINE kinds == <<k1, k2, k3, k4>>
           e == FieldEnds(kinds, at)
<1>1. kinds \in Seq(FieldKinds) /\ Len(kinds) = 4 /\ kinds[1] = k1 /\ kinds[2] = k2 /\ kinds[3] = k3 /\ kinds[4] = k4
  OBVIOUS
<1> HIDE DEF kinds
<1>2. e[0] = at /\ \A n \in 1..4 : e[n] = ParseField(kinds[n], e[n - 1]).offset
  BY <1>1, FieldEndsStep, ZenonT(40)
<1> HIDE DEF e
<1>3. e[1] = e1 /\ ParseField(kinds[1], e[1 - 1]) = ReadAs(v1, e1)
  <2>1. 1 \in 1..4 /\ 1 - 1 = 0
    OBVIOUS
  <2>2. ParseField(kinds[1], e[1 - 1]) = ReadAs(v1, e1)
    BY <1>1, <1>2, <2>1
  <2>3. e[1] = ParseField(kinds[1], e[1 - 1]).offset
    BY <1>2, <2>1
  <2> QED
    BY <2>2, <2>3 DEF ReadAs
<1>4. e[2] = e2 /\ ParseField(kinds[2], e[2 - 1]) = ReadAs(v2, e2)
  <2>1. 2 \in 1..4 /\ 2 - 1 = 1
    OBVIOUS
  <2>2. ParseField(kinds[2], e[2 - 1]) = ReadAs(v2, e2)
    BY <1>1, <1>3, <2>1
  <2>3. e[2] = ParseField(kinds[2], e[2 - 1]).offset
    BY <1>2, <2>1
  <2> QED
    BY <2>2, <2>3 DEF ReadAs
<1>5. e[3] = e3 /\ ParseField(kinds[3], e[3 - 1]) = ReadAs(v3, e3)
  <2>1. 3 \in 1..4 /\ 3 - 1 = 2
    OBVIOUS
  <2>2. ParseField(kinds[3], e[3 - 1]) = ReadAs(v3, e3)
    BY <1>1, <1>4, <2>1
  <2>3. e[3] = ParseField(kinds[3], e[3 - 1]).offset
    BY <1>2, <2>1
  <2> QED
    BY <2>2, <2>3 DEF ReadAs
<1>6. e[4] = e4 /\ ParseField(kinds[4], e[4 - 1]) = ReadAs(v4, e4)
  <2>1. 4 \in 1..4 /\ 4 - 1 = 3
    OBVIOUS
  <2>2. ParseField(kinds[4], e[4 - 1]) = ReadAs(v4, e4)
    BY <1>1, <1>5, <2>1
  <2>3. e[4] = ParseField(kinds[4], e[4 - 1]).offset
    BY <1>2, <2>1
  <2> QED
    BY <2>2, <2>3 DEF ReadAs
<1>7. Parse(kinds, at) = ReadAs([n \in 1..4 |-> ParseField(kinds[n], e[n - 1]).value], e4)
  BY <1>1, <1>6 DEF Parse, e
<1>8. [n \in 1..4 |-> ParseField(kinds[n], e[n - 1]).value] = <<v1, v2, v3, v4>>
  <2>1. \A n \in 1..4 : ParseField(kinds[n], e[n - 1]).value = <<v1, v2, v3, v4>>[n]
    BY <1>3, <1>4, <1>5, <1>6 DEF ReadAs
  <2> QED
    BY <2>1
<1> QED
  BY <1>7, <1>8 DEF kinds

\* and of five.
LEMMA FiveFields ==
    ASSUME buffer \in Bytes, NEW at \in Int, NEW k1 \in FieldKinds, NEW k2 \in FieldKinds, NEW k3 \in FieldKinds, NEW k4 \in FieldKinds, NEW k5 \in FieldKinds,
           NEW v1, NEW e1, ParseField(k1, at) = ReadAs(v1, e1),
           NEW v2, NEW e2, ParseField(k2, e1) = ReadAs(v2, e2),
           NEW v3, NEW e3, ParseField(k3, e2) = ReadAs(v3, e3),
           NEW v4, NEW e4, ParseField(k4, e3) = ReadAs(v4, e4),
           NEW v5, NEW e5, ParseField(k5, e4) = ReadAs(v5, e5)
    PROVE  Parse(<<k1, k2, k3, k4, k5>>, at) = ReadAs(<<v1, v2, v3, v4, v5>>, e5)
<1> DEFINE kinds == <<k1, k2, k3, k4, k5>>
           e == FieldEnds(kinds, at)
<1>1. kinds \in Seq(FieldKinds) /\ Len(kinds) = 5 /\ kinds[1] = k1 /\ kinds[2] = k2 /\ kinds[3] = k3 /\ kinds[4] = k4 /\ kinds[5] = k5
  OBVIOUS
<1> HIDE DEF kinds
<1>2. e[0] = at /\ \A n \in 1..5 : e[n] = ParseField(kinds[n], e[n - 1]).offset
  BY <1>1, FieldEndsStep, ZenonT(40)
<1> HIDE DEF e
<1>3. e[1] = e1 /\ ParseField(kinds[1], e[1 - 1]) = ReadAs(v1, e1)
  <2>1. 1 \in 1..5 /\ 1 - 1 = 0
    OBVIOUS
  <2>2. ParseField(kinds[1], e[1 - 1]) = ReadAs(v1, e1)
    BY <1>1, <1>2, <2>1
  <2>3. e[1] = ParseField(kinds[1], e[1 - 1]).offset
    BY <1>2, <2>1
  <2> QED
    BY <2>2, <2>3 DEF ReadAs
<1>4. e[2] = e2 /\ ParseField(kinds[2], e[2 - 1]) = ReadAs(v2, e2)
  <2>1. 2 \in 1..5 /\ 2 - 1 = 1
    OBVIOUS
  <2>2. ParseField(kinds[2], e[2 - 1]) = ReadAs(v2, e2)
    BY <1>1, <1>3, <2>1
  <2>3. e[2] = ParseField(kinds[2], e[2 - 1]).offset
    BY <1>2, <2>1
  <2> QED
    BY <2>2, <2>3 DEF ReadAs
<1>5. e[3] = e3 /\ ParseField(kinds[3], e[3 - 1]) = ReadAs(v3, e3)
  <2>1. 3 \in 1..5 /\ 3 - 1 = 2
    OBVIOUS
  <2>2. ParseField(kinds[3], e[3 - 1]) = ReadAs(v3, e3)
    BY <1>1, <1>4, <2>1
  <2>3. e[3] = ParseField(kinds[3], e[3 - 1]).offset
    BY <1>2, <2>1
  <2> QED
    BY <2>2, <2>3 DEF ReadAs
<1>6. e[4] = e4 /\ ParseField(kinds[4], e[4 - 1]) = ReadAs(v4, e4)
  <2>1. 4 \in 1..5 /\ 4 - 1 = 3
    OBVIOUS
  <2>2. ParseField(kinds[4], e[4 - 1]) = ReadAs(v4, e4)
    BY <1>1, <1>5, <2>1
  <2>3. e[4] = ParseField(kinds[4], e[4 - 1]).offset
    BY <1>2, <2>1
  <2> QED
    BY <2>2, <2>3 DEF ReadAs
<1>7. e[5] = e5 /\ ParseField(kinds[5], e[5 - 1]) = ReadAs(v5, e5)
  <2>1. 5 \in 1..5 /\ 5 - 1 = 4
    OBVIOUS
  <2>2. ParseField(kinds[5], e[5 - 1]) = ReadAs(v5, e5)
    BY <1>1, <1>6, <2>1
  <2>3. e[5] = ParseField(kinds[5], e[5 - 1]).offset
    BY <1>2, <2>1
  <2> QED
    BY <2>2, <2>3 DEF ReadAs
<1>8. Parse(kinds, at) = ReadAs([n \in 1..5 |-> ParseField(kinds[n], e[n - 1]).value], e5)
  BY <1>1, <1>7 DEF Parse, e
<1>9. [n \in 1..5 |-> ParseField(kinds[n], e[n - 1]).value] = <<v1, v2, v3, v4, v5>>
  <2>1. \A n \in 1..5 : ParseField(kinds[n], e[n - 1]).value = <<v1, v2, v3, v4, v5>>[n]
    BY <1>3, <1>4, <1>5, <1>6, <1>7 DEF ReadAs
  <2> QED
    BY <2>1
<1> QED
  BY <1>8, <1>9 DEF kinds

-----------------------------------------------------------------------------
(* Lists of values of any kind.                                              *)

Listed(list) == Len(list) \in Nat /\ list = [i \in 1..Len(list) |-> list[i]]

\* A list that is appended to keeps what it has.
LEMMA AppendAny ==
    ASSUME NEW list, Listed(list), NEW e
    PROVE  /\ Listed(Append(list, e)) /\ Len(Append(list, e)) = Len(list) + 1
           /\ \A i \in 1..Len(list) : Append(list, e)[i] = list[i]
           /\ Append(list, e)[Len(list) + 1] = e
<1> DEFINE S == {list[i] : i \in 1..Len(list)} \cup {e}
           n == Len(list)
<1>1. n \in Nat /\ list = [i \in 1..n |-> list[i]]
  BY DEF Listed
<1>2. e \in S /\ \A i \in 1..n : list[i] \in S
  OBVIOUS
<1> HIDE DEF S
<1>3. list \in [1..n -> S]
  BY <1>1, <1>2
<1>4. list \in Seq(S)
  BY <1>1, <1>3
<1> DEFINE new == Append(list, e)
<1>5. /\ new \in Seq(S) /\ Len(new) = n + 1 /\ new[n + 1] = e
      /\ \A i \in 1..n : new[i] = list[i]
  BY <1>2, <1>4, AppendProperties
<1> HIDE DEF new
<1>6. Len(new) \in Nat /\ new = [i \in 1..Len(new) |-> new[i]]
  BY <1>1, <1>5
<1> QED
  BY <1>5, <1>6 DEF Listed, new

\* A list is numbered from one.
LEMMA ListedDomain ==
    ASSUME NEW list, Listed(list)
    PROVE  DOMAIN list = 1..Len(list)
<1> DEFINE f == [i \in 1..Len(list) |-> list[i]]
<1>1. list = f /\ DOMAIN f = 1..Len(list)
  BY DEF Listed
<1> QED
  BY <1>1

\* Where each cell ends.
LEMMA CellEndsStep ==
    ASSUME buffer \in Bytes, NEW columns, Len(columns) \in Nat, NEW at \in Int
    PROVE  /\ \A n \in 0..Len(columns) : CellEnds(columns, at)[n] \in Int
           /\ CellEnds(columns, at)[0] = at
           /\ \A n \in 1..Len(columns) : CellEnds(columns, at)[n] =
                 ParseCell(columns[n].ColumnType, CellEnds(columns, at)[n - 1]).offset
<1> DEFINE size == Len(columns)
           End(n, x) == ParseCell(columns[n].ColumnType, x).offset
           Step(f) == [n \in 0..size |-> IF n = 0 THEN at ELSE End(n, f[n - 1])]
           next == [x \in (1..size) \X Int |-> End(x[1], x[2])]
<1>1. size \in Nat
  OBVIOUS
<1>2. ASSUME NEW type, NEW x \in Int PROVE ParseCell(type, x).offset \in Int
  <2> DEFINE n == ParseInt(buffer, x).value
             own == ByteAt(buffer, x + 4)
  <2>0. n \in Int
    BY NumIsInt
  <2> HIDE DEF n, own
  <2>1. n \in Int /\ n - 1 \in Int /\ x + 4 \in Int /\ x + 5 \in Int
    BY <2>0
  <2>2. /\ ReadAs(Null, x + 4).offset \in Int
        /\ ReadValue(Protocol, own, n - 1, buffer, x + 5).offset \in Int
        /\ ReadValue(Protocol, type, n, buffer, x + 4).offset \in Int
    BY <2>1, ReadValueOffset DEF ReadAs
  <2>3. ParseCell(type, x) =
           IF n <= 0 THEN ReadAs(Null, x + 4)
           ELSE IF type = CUBRIDDataType["null"]
           THEN ReadValue(Protocol, own, n - 1, buffer, x + 5)
           ELSE ReadValue(Protocol, type, n, buffer, x + 4)
    BY DEF ParseCell, n, own
  <2> QED
    BY <2>2, <2>3
<1>3. \A n \in 1..size, x \in Int : End(n, x) \in Int
  BY <1>2
<1> HIDE DEF End
<1>4. next \in StepFunctions(size, Int)
  BY <1>3 DEF StepFunctions
<1>5. \A n \in 1..size, x \in Int : next[<<n, x>>] = End(n, x)
  OBVIOUS
<1> HIDE DEF next
<1>6. \A n \in 1..size : n \in 0..size /\ n - 1 \in 0..size /\ n # 0
  BY <1>1
<1>7. \E f : Recursive(f, size, Int, at, next)
  <2> HIDE DEF size
  <2> QED
    BY <1>1, <1>4, RecursiveFunctionExists, Zenon
<1>8. PICK f \in [0..size -> Int] : f[0] = at /\ \A n \in 1..size : f[n] = next[<<n, f[n - 1]>>]
  BY <1>7 DEF Recursive
<1>9. f = Step(f)
  <2>1. \A n \in 1..size : f[n] = End(n, f[n - 1])
    <3> SUFFICES ASSUME NEW n \in 1..size PROVE f[n] = End(n, f[n - 1])
      OBVIOUS
    <3>1. f[n - 1] \in Int
      BY <1>6, <1>8
    <3> QED
      BY <1>5, <1>8, <3>1
  <2>2. \A n \in 0..size : f[n] = Step(f)[n]
    BY <1>1, <1>8, <2>1
  <2> QED
    BY <1>8, <2>2
<1>10. CellEnds(columns, at) = CHOOSE g : g = Step(g)
  BY DEF CellEnds, End
<1> DEFINE e == CellEnds(columns, at)
<1>11. e = Step(e)
  <2> HIDE DEF Step
  <2> QED
    BY <1>9, <1>10
<1>12. /\ \A g : \A n \in 1..size : Step(g)[n] = End(n, g[n - 1])
       /\ \A g : Step(g)[0] = at
  BY <1>1, <1>6
<1> HIDE DEF e, Step
<1>13. e[0] = at /\ \A n \in 1..size : e[n] = End(n, e[n - 1])
  BY <1>11, <1>12
<1>14. \A n \in 0..size : e[n] \in Int
  <2> DEFINE P == {n \in Nat : n \in 0..size => e[n] \in Int}
  <2>1. 0 \in P
    BY <1>13
  <2>2. ASSUME NEW n \in 1..size, n - 1 \in P PROVE n \in P
    <3>1. e[n - 1] \in Int
      BY <1>6, <2>2
    <3>2. End(n, e[n - 1]) \in Int
      BY <1>3, <3>1
    <3>3. e[n] = End(n, e[n - 1])
      BY <1>13
    <3> QED
      BY <3>2, <3>3
  <2> HIDE DEF P
  <2>3. \A n \in 0..size : n \in P
    BY <1>1, <2>1, <2>2, Induction
  <2> QED
    BY <2>3 DEF P
<1> QED
  BY <1>13, <1>14 DEF e, End

\* Cells that follow each other are read, and the cursor is behind them all.
LEMMA CellsRead ==
    ASSUME buffer \in Bytes, NEW columns, Len(columns) \in Nat, NEW row, NEW ends, ends[0] \in Int,
           \A j \in 1..Len(columns) : Got(ParseCell(columns[j].ColumnType, ends[j - 1]), row[j], ends[j])
    PROVE  /\ ParseCells(columns, ends[0]).offset = ends[Len(columns)]
           /\ \A j \in 1..Len(columns) :
                 Readable(row[j]) => ParseCells(columns, ends[0]).value[j] = Meant(row[j])
<1> DEFINE e == CellEnds(columns, ends[0])
           size == Len(columns)
<1>1. size \in Nat
  OBVIOUS
<1>2. e[0] = ends[0] /\ \A n \in 1..size : e[n] = ParseCell(columns[n].ColumnType, e[n - 1]).offset
  BY CellEndsStep
<1>3. /\ ParseCells(columns, ends[0]).offset = e[size]
      /\ ParseCells(columns, ends[0]).value =
            [j \in 1..size |-> ParseCell(columns[j].ColumnType, e[j - 1]).value]
  BY DEF ParseCells, ReadAs
<1> HIDE DEF e
<1>4. \A n \in 0..size : e[n] = ends[n]
  <2> DEFINE P == {n \in Nat : e[n] = ends[n]}
  <2>1. 0 \in P
    BY <1>2
  <2>2. ASSUME NEW n \in 1..size, n - 1 \in P PROVE n \in P
    <3>1. e[n - 1] = ends[n - 1]
      BY <2>2
    <3>2. ParseCell(columns[n].ColumnType, ends[n - 1]).offset = ends[n]
      BY DEF Got
    <3>3. e[n] = ends[n]
      BY <1>2, <3>1, <3>2
    <3> QED
      BY <3>3
  <2> HIDE DEF P
  <2>3. \A n \in 0..size : n \in P
    BY <1>1, <2>1, <2>2, Induction
  <2> QED
    BY <2>3 DEF P
<1>5. e[size] = ends[size]
  <2>1. size \in 0..size
    BY <1>1
  <2> QED
    BY <1>4, <2>1
<1>6. ASSUME NEW j \in 1..size, Readable(row[j])
      PROVE  ParseCells(columns, ends[0]).value[j] = Meant(row[j])
  <2>1. j - 1 \in 0..size
    BY <1>1
  <2>2. e[j - 1] = ends[j - 1]
    BY <1>4, <2>1
  <2>3. ParseCell(columns[j].ColumnType, ends[j - 1]).value = Meant(row[j])
    BY <1>6 DEF Got
  <2> QED
    BY <1>3, <2>2, <2>3
<1> QED
  BY <1>3, <1>5, <1>6

-----------------------------------------------------------------------------
(* Groups of fields.                                                         *)

\* The values are a list as long as that of the fields.
LEMMA ParseShape ==
    ASSUME buffer \in Bytes, NEW kinds \in Seq(FieldKinds), NEW at \in Int
    PROVE  /\ Listed(Parse(kinds, at).value) /\ Len(Parse(kinds, at).value) = Len(kinds)
           /\ Parse(kinds, at) = ReadAs(Parse(kinds, at).value, Parse(kinds, at).offset)
<1> DEFINE e(n) == ParseField(kinds[n], FieldEnds(kinds, at)[n - 1]).value
           size == Len(kinds)
           v == [n \in 1..size |-> e(n)]
<1>1. size \in Nat /\ Parse(kinds, at) = ReadAs(v, FieldEnds(kinds, at)[size])
  BY DEF Parse
<1> HIDE DEF e, size
<1>2. Len(v) = size /\ v = [n \in 1..size |-> v[n]]
  BY <1>1
<1> HIDE DEF v
<1>3. Listed(v)
  BY <1>1, <1>2 DEF Listed
<1>4. Parse(kinds, at).value = v /\ Parse(kinds, at).offset = FieldEnds(kinds, at)[size]
  BY <1>1 DEF ReadAs
<1> QED
  BY <1>1, <1>2, <1>3, <1>4 DEF size

\* The fields of the second group are read where the first one ends.
LEMMA ParseJoin ==
    ASSUME buffer \in Bytes, NEW k1 \in Seq(FieldKinds), NEW k2 \in Seq(FieldKinds), NEW at \in Int,
           NEW mid, mid = Parse(k1, at).offset
    PROVE  /\ k1 \o k2 \in Seq(FieldKinds) /\ Len(k1 \o k2) = Len(k1) + Len(k2)
           /\ Parse(k1 \o k2, at).offset = Parse(k2, mid).offset
           /\ \A i \in 1..Len(k1) : Parse(k1 \o k2, at).value[i] = Parse(k1, at).value[i]
           /\ \A i \in 1..Len(k2) : Parse(k1 \o k2, at).value[Len(k1) + i] = Parse(k2, mid).value[i]
<1> DEFINE kinds == k1 \o k2
           n1 == Len(k1)
           n2 == Len(k2)
           e == FieldEnds(kinds, at)
           e1 == FieldEnds(k1, at)
           e2 == FieldEnds(k2, mid)
<1> HIDE DEF FieldKinds
<1>1. /\ kinds \in Seq(FieldKinds) /\ Len(kinds) = n1 + n2 /\ n1 \in Nat /\ n2 \in Nat
      /\ \A i \in 1..n1 : kinds[i] = k1[i]
      /\ \A i \in 1..n2 : kinds[n1 + i] = k2[i]
  OBVIOUS
<1> HIDE DEF kinds
<1>2. mid \in Int
  BY ParseOffset
<1>3. e[0] = at /\ \A n \in 1..Len(kinds) : e[n] = ParseField(kinds[n], e[n - 1]).offset
  BY <1>1, FieldEndsStep
<1>4. e1[0] = at /\ \A n \in 1..n1 : e1[n] = ParseField(k1[n], e1[n - 1]).offset
  BY FieldEndsStep
<1>5. e2[0] = mid /\ \A n \in 1..n2 : e2[n] = ParseField(k2[n], e2[n - 1]).offset
  BY <1>2, FieldEndsStep
<1>6. /\ mid = e1[n1] /\ Parse(k2, mid).offset = e2[n2] /\ Parse(kinds, at).offset = e[Len(kinds)]
      /\ \A i \in 1..n1 : Parse(k1, at).value[i] = ParseField(k1[i], e1[i - 1]).value
      /\ \A i \in 1..n2 : Parse(k2, mid).value[i] = ParseField(k2[i], e2[i - 1]).value
      /\ \A i \in 1..Len(kinds) : Parse(kinds, at).value[i] = ParseField(kinds[i], e[i - 1]).value
  BY DEF Parse, ReadAs
<1> HIDE DEF e, e1, e2, n1, n2
<1>7. \A n \in 0..n1 : e[n] = e1[n]
  <2> DEFINE P == {n \in Nat : e[n] = e1[n]}
  <2>1. 0 \in P
    BY <1>3, <1>4
  <2>2. ASSUME NEW n \in 1..n1, n - 1 \in P PROVE n \in P
    <3>1. n \in 1..Len(kinds) /\ n \in Nat
      BY <1>1
    <3>2. e[n - 1] = e1[n - 1]
      BY <2>2
    <3>3. kinds[n] = k1[n]
      BY <1>1
    <3>4. e[n] = e1[n]
      BY <1>3, <1>4, <3>1, <3>2, <3>3
    <3> QED
      BY <3>1, <3>4
  <2> HIDE DEF P
  <2>3. \A n \in 0..n1 : n \in P
    BY <1>1, <2>1, <2>2, Induction
  <2> QED
    BY <2>3 DEF P
<1>8. e[n1] = mid
  <2>1. n1 \in 0..n1
    BY <1>1
  <2> QED
    BY <1>6, <1>7, <2>1
<1>9. \A n \in 0..n2 : e[n1 + n] = e2[n]
  <2> DEFINE P == {n \in Nat : e[n1 + n] = e2[n]}
  <2>1. 0 \in P
    BY <1>1, <1>5, <1>8
  <2>2. ASSUME NEW n \in 1..n2, n - 1 \in P PROVE n \in P
    <3>1. n1 + n \in 1..Len(kinds) /\ n \in Nat /\ (n1 + n) - 1 = n1 + (n - 1)
      BY <1>1
    <3>2. e[(n1 + n) - 1] = e2[n - 1]
      BY <2>2, <3>1
    <3>3. kinds[n1 + n] = k2[n]
      BY <1>1
    <3>4. e[n1 + n] = ParseField(kinds[n1 + n], e[(n1 + n) - 1]).offset
      BY <1>3, <3>1
    <3>5. e[n1 + n] = e2[n]
      BY <1>5, <3>2, <3>3, <3>4
    <3> QED
      BY <3>1, <3>5
  <2> HIDE DEF P
  <2>3. \A n \in 0..n2 : n \in P
    BY <1>1, <2>1, <2>2, Induction
  <2> QED
    BY <2>3 DEF P
<1>10. Parse(kinds, at).offset = Parse(k2, mid).offset
  <2>1. n2 \in 0..n2
    BY <1>1
  <2> QED
    BY <1>1, <1>6, <1>9, <2>1
<1>11. ASSUME NEW i \in 1..n1 PROVE Parse(kinds, at).value[i] = Parse(k1, at).value[i]
  <2>1. i \in 1..Len(kinds) /\ i - 1 \in 0..n1
    BY <1>1
  <2> QED
    BY <1>1, <1>6, <1>7, <2>1
<1>12. ASSUME NEW i \in 1..n2 PROVE Parse(kinds, at).value[n1 + i] = Parse(k2, mid).value[i]
  <2>1. n1 + i \in 1..Len(kinds) /\ i - 1 \in 0..n2 /\ (n1 + i) - 1 = n1 + (i - 1)
    BY <1>1
  <2>2. e[(n1 + i) - 1] = e2[i - 1]
    BY <1>9, <2>1
  <2>3. kinds[n1 + i] = k2[i]
    BY <1>1
  <2>4. Parse(kinds, at).value[n1 + i] = ParseField(kinds[n1 + i], e[(n1 + i) - 1]).value
    BY <1>6, <2>1
  <2> QED
    BY <1>6, <2>2, <2>3, <2>4
<1> QED
  BY <1>1, <1>10, <1>11, <1>12 DEF kinds, n1, n2

\* A field of each kind, where it lies in the buffer.
LEMMA FieldAt ==
    ASSUME buffer \in Bytes, NEW o
    PROVE  /\ \A n \in Byte : At(buffer, o, <<n>>) => ParseField("byte", o) = ReadAs(n, o + 1)
           /\ \A n \in Words : At(buffer, o, Octets(n, 2)) => ParseField("short", o) = ReadAs(n, o + 2)
           /\ \A n \in Ints : At(buffer, o, Int4(n)) => ParseField("int", o) = ReadAs(n, o + 4)
           /\ At(buffer, o, Oid) => ParseField("oid", o) = ReadAs(Oid, o + 8)
           /\ \A x \in Texts : At(buffer, o, Text(x)) => ParseField("string", o) = ReadAs(x, o + Len(Text(x)))
<1>1. \A n \in Byte : At(buffer, o, <<n>>) => ParseField("byte", o) = ReadAs(n, o + 1)
  BY ReadWhatIsAt, FieldOf
<1>2. \A n \in Words : At(buffer, o, Octets(n, 2)) => ParseField("short", o) = ReadAs(n, o + 2)
  BY ReadWhatIsAt, FieldOf
<1>3. \A n \in Ints : At(buffer, o, Int4(n)) => ParseField("int", o) = ReadAs(n, o + 4)
  BY ReadWhatIsAt, FieldOf
<1>4. ASSUME At(buffer, o, Oid) PROVE ParseField("oid", o) = ReadAs(Oid, o + 8)
  <2>1. ParseBytes(buffer, o, Len(Oid)) = ReadAs(Oid, o + Len(Oid))
    BY <1>4, OidBytes, ReadWhatIsAt
  <2> QED
    BY <2>1, OidBytes, FieldOf
<1>5. ASSUME NEW x \in Texts, At(buffer, o, Text(x))
      PROVE  ParseField("string", o) = ReadAs(x, o + Len(Text(x)))
  <2>1. /\ ParseInt(buffer, o) = ReadAs(Len(x) + 1, o + 4)
        /\ ParseNullTerminatedString(buffer, o + 4, Len(x) + 1) = ReadAs(x, o + Len(Text(x)))
    BY <1>5, TextIsRead
  <2>2. ParseInt(buffer, o).value = Len(x) + 1
    BY <2>1 DEF ReadAs
  <2> QED
    BY <2>1, <2>2, FieldOf
<1> QED
  BY <1>1, <1>2, <1>3, <1>4, <1>5

\* A run of bytes.
LEMMA BytesRun ==
    ASSUME buffer \in Bytes, NEW at \in Int, NEW n \in Nat
    PROVE  /\ [i \in 1..n |-> "byte"] \in Seq(FieldKinds) /\ Len([i \in 1..n |-> "byte"]) = n
           /\ Parse([i \in 1..n |-> "byte"], at).offset = at + n
<1> DEFINE kinds == [i \in 1..n |-> "byte"]
           e == FieldEnds(kinds, at)
<1>1. kinds \in Seq(FieldKinds) /\ Len(kinds) = n /\ \A i \in 1..n : kinds[i] = "byte"
  BY DEF FieldKinds
<1> HIDE DEF kinds
<1>2. e[0] = at /\ \A i \in 1..n : e[i] = ParseField(kinds[i], e[i - 1]).offset
  BY <1>1, FieldEndsStep
<1>3. Parse(kinds, at).offset = e[n]
  BY <1>1 DEF Parse, ReadAs
<1> HIDE DEF e
<1>4. \A x \in Int : ParseField("byte", x).offset = x + 1
  BY FieldOf, NumIsInt
<1> DEFINE P == {i \in Nat : e[i] = at + i}
<1>5. 0 \in P
  BY <1>2
<1>6. ASSUME NEW i \in 1..n, i - 1 \in P PROVE i \in P
  <2>1. e[i - 1] = at + (i - 1) /\ at + (i - 1) \in Int /\ (at + (i - 1)) + 1 = at + i
    BY <1>6
  <2>2. e[i] = ParseField("byte", e[i - 1]).offset
    BY <1>1, <1>2
  <2>3. e[i] = at + i
    BY <1>4, <2>1, <2>2
  <2> QED
    BY <2>3
<1>7. n \in P
  <2> HIDE DEF P
  <2>1. \A i \in 0..n : i \in P
    BY <1>5, <1>6, Induction
  <2> QED
    BY <2>1
<1> QED
  BY <1>1, <1>3, <1>7 DEF kinds

-----------------------------------------------------------------------------
(* Columns.                                                                  *)

\* The bytes that tell the type are told apart by the mask.
LEMMA Masks ==
    /\ Masked \in Byte /\ Masked > 0 /\ Masked \div Masked = 1
    /\ \A n \in Nat : n < Masked => n \div Masked = 0
    /\ Indicator \in Nat /\ \A v \in 0..7 : Indicator + v \in Byte
<1>1. Base \in Nat /\ Base > 32
  BY Spans
<1> DEFINE m == Base \div 2
           k == Base \div 4
<1>2. m \in Nat /\ m < Base /\ m > 0
  BY <1>1
<1>3. k \in Nat /\ \A v \in 0..7 : k + v < Base
  BY <1>1
<1>4. Masked = m /\ Indicator = k
  BY DEF Masked, Indicator
<1> HIDE DEF m, k
<1>5. m \div m = 1 /\ \A n \in Nat : n < m => n \div m = 0
  <2>1. 1 \in Int /\ 0 \in Int /\ 0 \in 0..(m - 1)
    BY <1>2
  <2>2. (1 * m + 0) \div m = 1
    BY <1>2, <2>1, DivisionUnique
  <2>3. 1 * m + 0 = m
    BY <1>2
  <2>4. ASSUME NEW n \in Nat, n < m PROVE n \div m = 0
    <3>1. n \in 0..(m - 1) /\ 0 * m + n = n
      BY <1>2, <2>4
    <3>2. (0 * m + n) \div m = 0
      BY <1>2, <2>1, <3>1, DivisionUnique
    <3> QED
      BY <3>1, <3>2
  <2> QED
    BY <2>2, <2>3, <2>4
<1> QED
  BY <1>1, <1>2, <1>3, <1>4, <1>5 DEF Byte

\* A type takes one byte, or two, of which the first has the mask's bit.
LEMMA TypeRead ==
    ASSUME NEW col, col.type \in Types, col.wide \in BOOLEAN,
           col.wide \/ CUBRIDDataType[col.type] < Masked
    PROVE  /\ TypeOctets(col) \in Bytes
           /\ buffer \in Bytes => \A o : At(buffer, o, TypeOctets(col)) =>
                 ParseColumnType(o) = ReadAs(CUBRIDDataType[col.type], o + Len(TypeOctets(col)))
<1> DEFINE n == CUBRIDDataType[col.type]
           x == <<Masked>>
           y == <<n>>
           all == TypeOctets(col)
<1>1. n \in Byte /\ n \in Nat /\ Masked \in Byte /\ Masked \in Nat
  BY FewBytes, TypeNumbers, Masks DEF Byte
<1>2. x \in Bytes /\ Len(x) = 1 /\ y \in Bytes /\ Len(y) = 1
  BY <1>1, ByteBytes
<1>3. <<Masked, n>> = x \o y
  OBVIOUS
<1>4. all = IF col.wide THEN x \o y ELSE y
  BY <1>3 DEF TypeOctets
<1> HIDE DEF all, n
<1>5. ASSUME NEW o, buffer \in Bytes
      PROVE  /\ At(buffer, o, x) => ParseByte(buffer, o) = ReadAs(Masked, o + 1)
             /\ At(buffer, o, y) => ParseByte(buffer, o) = ReadAs(n, o + 1)
             /\ At(buffer, o, x) => o \in Nat
  BY <1>1, <1>5, ReadWhatIsAt
<1> HIDE DEF x, y
<1>6. CASE col.wide
  <2>1. all = x \o y
    BY <1>4, <1>6
  <2>2. all \in Bytes /\ Len(all) = Len(x) + Len(y)
    BY <1>2, <2>1, Two
  <2>3. ASSUME NEW o, buffer \in Bytes, At(buffer, o, all)
        PROVE  ParseColumnType(o) = ReadAs(n, o + Len(all))
    <3>1. At(buffer, o, x) /\ At(buffer, o + Len(x), y)
      BY <1>2, <2>1, <2>3, Two
    <3>2. o + Len(x) = o + 1 /\ (o + 1) + 1 = o + Len(all)
      BY <1>2, <1>5, <2>2, <2>3, <3>1
    <3>3. ParseByte(buffer, o) = ReadAs(Masked, o + 1)
      BY <1>5, <2>3, <3>1
    <3>4. ParseByte(buffer, o + 1) = ReadAs(n, o + Len(all))
      BY <1>5, <2>3, <3>1, <3>2
    <3>5. ParseByte(buffer, o).value = Masked /\ ParseByte(buffer, o).offset = o + 1
      BY <3>3 DEF ReadAs
    <3>6. (Masked \div Masked) % 2 = 1
      BY Masks
    <3>7. ParseColumnType(o) = ParseByte(buffer, o + 1)
      BY <3>5, <3>6 DEF ParseColumnType
    <3> QED
      BY <3>4, <3>7
  <2> QED
    BY <2>2, <2>3 DEF all, n
<1>7. CASE ~ col.wide
  <2>1. all = y
    BY <1>4, <1>7
  <2>2. n \div Masked = 0
    BY <1>1, <1>7, Masks DEF n
  <2>3. ASSUME NEW o, buffer \in Bytes, At(buffer, o, all)
        PROVE  ParseColumnType(o) = ReadAs(n, o + Len(all))
    <3>1. ParseByte(buffer, o) = ReadAs(n, o + 1)
      BY <1>5, <2>1, <2>3
    <3>2. ParseByte(buffer, o).value = n
      BY <3>1 DEF ReadAs
    <3>3. (n \div Masked) % 2 # 1
      BY <2>2
    <3>4. ParseColumnType(o) = ParseByte(buffer, o)
      BY <3>2, <3>3 DEF ParseColumnType
    <3> QED
      BY <1>2, <2>1, <3>1, <3>4
  <2> QED
    BY <1>2, <2>1, <2>3 DEF all, n
<1> QED
  BY <1>6, <1>7

\* Four bytes tell more than a few.
LEMMA FewInts == (-16)..15 \subseteq Ints /\ 0..15 \subseteq Lengths
<1>1. IntSpan \in Nat /\ IntSpan > 32 /\ IntSpan \div 2 \in Nat /\ IntSpan = 2 * (IntSpan \div 2)
  <2>1. Base \in Nat /\ Base > 32 /\ Square \in Nat /\ Cube \in Nat /\ Square > 32 * Base /\ Cube > 32 * Square
        /\ IntSpan > 32 * Cube /\ IntSpan \in Nat
    BY Spans
  <2>2. IntSpan > 32
    BY <2>1
  <2> QED
    BY <2>1, <2>2, Spans
<1> DEFINE half == IntSpan \div 2
<1>2. half \in Nat /\ half > 16
  BY <1>1
<1>3. Ints = (-half)..(half - 1) /\ Lengths = 0..(half - 1)
  BY DEF Ints, Lengths
<1> HIDE DEF half
<1> QED
  BY <1>2, <1>3

\* What the columns of every statement have besides their type and name.
LEMMA ColumnParts ==
    /\ Octets(0, 2) \in Bytes /\ Len(Octets(0, 2)) = 2 /\ Int4(10) \in Bytes /\ Len(Int4(10)) = 4
    /\ Text(<<>>) \in Bytes /\ Len(Text(<<>>)) = 5 /\ <<>> \in Texts /\ <<1>> \in Texts
    /\ <<1>> \in Bytes /\ Len(<<1>>) = 1 /\ 10 \in Ints /\ 0 \in Words /\ 0 \in Ints /\ 1 \in Ints
    /\ <<0, 0, 0, 0, 0, 0, 0>> \in Bytes /\ Len(<<0, 0, 0, 0, 0, 0, 0>>) = 7
    /\ Text(<<1>>) \in Bytes /\ Len(Text(<<1>>)) = 6
<1>1. Octets(0, 2) \in Bytes /\ Len(Octets(0, 2)) = 2 /\ Int4(10) \in Bytes /\ Len(Int4(10)) = 4
  BY NumBytes
<1>2. 0 \in Byte /\ 1 \in Byte /\ <<>> \in Bytes /\ Len(<<>>) = 0
  BY FewBytes
<1>3. <<1>> \in Bytes /\ Len(<<1>>) = 1
  BY <1>2, ByteBytes
<1>4. 10 \in Ints /\ 0 \in Ints /\ 1 \in Ints /\ 1 \in Lengths /\ 2 \in Lengths
  BY FewInts
<1>8. 0 \in Words
  BY Spans DEF Words, Square
<1>9. <<>> \in Texts /\ <<1>> \in Texts
  BY <1>2, <1>3, <1>4 DEF Texts
<1>10. Text(<<>>) \in Bytes /\ Len(Text(<<>>)) = 5
  <2> DEFINE none == <<>>
  <2>1. none \in Bytes /\ Len(none) = 0
    BY <1>2
  <2> HIDE DEF none
  <2>2. Text(none) \in Bytes /\ Len(Text(none)) = Len(none) + 5
    BY <2>1, TextBytes
  <2>3. Text(none) \in Bytes /\ Len(Text(none)) = 5
    BY <2>1, <2>2
  <2> QED
    BY <2>3 DEF none
<1>11. Text(<<1>>) \in Bytes /\ Len(Text(<<1>>)) = 6
  <2>1. Text(<<1>>) \in Bytes /\ Len(Text(<<1>>)) = Len(<<1>>) + 5
    BY <1>3, TextBytes
  <2> QED
    BY <1>3, <2>1
<1>12. <<0, 0, 0, 0, 0, 0, 0>> \in Bytes /\ Len(<<0, 0, 0, 0, 0, 0, 0>>) = 7
  BY <1>2 DEF Bytes, Byte
<1> QED
  BY <1>1, <1>3, <1>4, <1>8, <1>9, <1>10, <1>11, <1>12

\* A column of a statement is read to its end, with its name.
LEMMA ColumnRead ==
    ASSUME NEW col, IsColumn(col)
    PROVE  /\ ColumnOctets(col) \in Bytes
           /\ buffer \in Bytes /\ stage # "requestSchema" => \A o : At(buffer, o, ColumnOctets(col)) =>
                 LET type == ParseColumnType(o)
                     r == Parse(ColumnFields, type.offset)
                 IN  /\ type.value = CUBRIDDataType[col.type] /\ r.value[3] = col.name
                     /\ r.offset = o + Len(ColumnOctets(col))
<1> DEFINE t == TypeOctets(col)
           scale == Octets(0, 2)
           precision == Int4(10)
           name == Text(col.name)
           none == Text(<<>>)
           nullable == <<1>>
           flags == <<0, 0, 0, 0, 0, 0, 0>>
           all == ColumnOctets(col)
           a == t \o scale \o precision \o name
           b == a \o name \o none \o nullable
<1>1. all = b \o none \o flags
  BY DEF ColumnOctets
<1>2. col.type \in Types /\ col.wide \in BOOLEAN /\ col.name \in Texts
      /\ (col.wide \/ CUBRIDDataType[col.type] < Masked)
  BY DEF IsColumn
<1>3. t \in Bytes
  BY <1>2, TypeRead
<1>4. scale \in Bytes /\ Len(scale) = 2 /\ precision \in Bytes /\ Len(precision) = 4
  BY ColumnParts
<1>5. none \in Bytes
  BY ColumnParts
<1>6. nullable \in Bytes /\ Len(nullable) = 1
  BY ColumnParts
<1>7. flags \in Bytes /\ Len(flags) = 7
  BY ColumnParts
<1>8. name \in Bytes
  BY <1>2, TextsAreBytes, TextBytes
<1> HIDE DEF t, scale, precision, name, none, nullable, flags, a, b, all
<1>9. Quad(a, t, scale, precision, name)
  BY <1>3, <1>4, <1>8, QuadIs DEF a
<1>10. Quad(b, a, name, none, nullable)
  <2>1. a \in Bytes
    BY <1>9 DEF Quad
  <2> QED
    BY <1>5, <1>6, <1>8, <2>1, QuadIs DEF b
<1>11. Triple(all, b, none, flags)
  <2>1. b \in Bytes
    BY <1>10 DEF Quad
  <2> QED
    BY <1>1, <1>5, <1>7, <2>1, TripleIs
<1>12. Len(t) \in Nat /\ Len(name) \in Nat /\ Len(none) \in Nat /\ Len(a) \in Nat /\ Len(b) \in Nat
  BY <1>9, <1>10 DEF Quad
<1>13. ASSUME buffer \in Bytes, stage # "requestSchema", NEW o, At(buffer, o, all)
       PROVE  /\ ParseColumnType(o).value = CUBRIDDataType[col.type]
              /\ Parse(ColumnFields, ParseColumnType(o).offset).value[3] = col.name
              /\ Parse(ColumnFields, ParseColumnType(o).offset).offset = o + Len(all)
  <2>1. o \in Nat
    BY <1>13 DEF At
  <2>2. At(buffer, o, b) /\ At(buffer, o + Len(b), none)
    BY <1>11, <1>13 DEF Triple
  <2>3. /\ At(buffer, o, a) /\ At(buffer, o + Len(a), name) /\ At(buffer, o + (Len(a) + Len(name)), none)
        /\ At(buffer, o + (Len(a) + Len(name) + Len(none)), nullable)
    BY <1>10, <1>13, <2>2 DEF Quad
  <2>4. /\ At(buffer, o, t) /\ At(buffer, o + Len(t), scale) /\ At(buffer, o + (Len(t) + Len(scale)), precision)
        /\ At(buffer, o + (Len(t) + Len(scale) + Len(precision)), name)
    BY <1>9, <1>13, <2>3 DEF Quad
  <2> DEFINE o1 == o + Len(t)
             o2 == o1 + 2
             o3 == o2 + 4
             o4 == o3 + Len(name)
             o5 == o4 + Len(name)
             o6 == o5 + Len(none)
             o7 == o6 + 1
             o8 == o7 + Len(none)
  <2>5. /\ o + Len(a) = o4 /\ o + (Len(a) + Len(name)) = o5 /\ o + (Len(a) + Len(name) + Len(none)) = o6
        /\ o + Len(b) = o7 /\ o + Len(all) = o8 + 7
        /\ o + (Len(t) + Len(scale)) = o2 /\ o + (Len(t) + Len(scale) + Len(precision)) = o3
    <3>1. /\ Len(a) = Len(t) + Len(scale) + Len(precision) + Len(name)
          /\ Len(b) = Len(a) + Len(name) + Len(none) + Len(nullable)
          /\ Len(all) = Len(b) + Len(none) + Len(flags)
      BY <1>9, <1>10, <1>11 DEF Quad, Triple
    <3> QED
      BY <1>4, <1>6, <1>7, <1>12, <2>1, <3>1
  <2>6. /\ o1 \in Int /\ o4 \in Int /\ o8 \in Int /\ o + Len(t) = o1 /\ o2 = o1 + 2 /\ o3 = o2 + 4
        /\ o4 = o3 + Len(name) /\ o5 = o4 + Len(name) /\ o6 = o5 + Len(none) /\ o7 = o6 + 1 /\ o8 = o7 + Len(none)
    BY <2>1, <1>12
  <2> HIDE DEF o1, o2, o3, o4, o5, o6, o7, o8
  <2>7. ParseColumnType(o) = ReadAs(CUBRIDDataType[col.type], o1)
    <3>1. ParseColumnType(o) = ReadAs(CUBRIDDataType[col.type], o + Len(TypeOctets(col)))
      BY <1>2, <1>13, <2>4, TypeRead DEF t
    <3> QED
      BY <2>6, <3>1 DEF t
  <2>8. At(buffer, o1, scale) /\ At(buffer, o2, precision) /\ At(buffer, o3, name) /\ At(buffer, o4, name)
        /\ At(buffer, o5, none) /\ At(buffer, o6, nullable) /\ At(buffer, o7, none)
    BY <2>2, <2>3, <2>4, <2>5, <2>6
  <2>9. ParseField("short", o1) = ReadAs(0, o2)
    BY <1>13, <2>6, <2>8, ColumnParts, FieldAt DEF scale
  <2>10. ParseField("int", o2) = ReadAs(10, o3)
    BY <1>13, <2>6, <2>8, ColumnParts, FieldAt DEF precision
  <2>11. ParseField("string", o3) = ReadAs(col.name, o4) /\ ParseField("string", o4) = ReadAs(col.name, o5)
    BY <1>2, <1>13, <2>6, <2>8, FieldAt DEF name
  <2>12. ParseField("string", o5) = ReadAs(<<>>, o6) /\ ParseField("string", o7) = ReadAs(<<>>, o8)
    BY <1>13, <2>6, <2>8, ColumnParts, FieldAt DEF none
  <2>13. ParseField("byte", o6) = ReadAs(1, o7)
    BY <1>13, <2>6, <2>8, FewBytes, FieldAt DEF nullable
  <2> DEFINE k1 == <<"short", "int", "string">>
             k2 == <<"string", "string", "byte", "string">>
             k3 == [i \in 1..7 |-> "byte"]
  <2>14. Parse(k1, o1) = ReadAs(<<0, 10, col.name>>, o4)
    <3>1. "short" \in FieldKinds /\ "int" \in FieldKinds /\ "string" \in FieldKinds
      BY DEF FieldKinds
    <3>2. ParseField("string", o3) = ReadAs(col.name, o4)
      BY <2>11
    <3>3. buffer \in Bytes /\ o1 \in Int
      BY <1>13, <2>6
    <3> QED
      BY <2>9, <2>10, <3>1, <3>2, <3>3, ThreeFields
  <2>15. Parse(k2, o4) = ReadAs(<<col.name, <<>>, 1, <<>>>>, o8)
    <3>1. "byte" \in FieldKinds /\ "string" \in FieldKinds
      BY DEF FieldKinds
    <3>2. ParseField("string", o4) = ReadAs(col.name, o5)
      BY <2>11
    <3>3. ParseField("string", o5) = ReadAs(<<>>, o6)
      BY <2>12
    <3>4. ParseField("string", o7) = ReadAs(<<>>, o8)
      BY <2>12
    <3> QED
      BY <1>13, <2>6, <2>13, <3>1, <3>2, <3>3, <3>4, FourFields
  <2>16. k3 \in Seq(FieldKinds) /\ Parse(k3, o8).offset = o8 + 7
    BY <1>13, <2>6, BytesRun
  <2>17. k1 \in Seq(FieldKinds) /\ k2 \in Seq(FieldKinds) /\ Len(k1) = 3 /\ 3 \in 1..Len(k1)
    BY DEF FieldKinds
  <2>18. ColumnFields = k1 \o (k2 \o k3)
    BY <1>13 DEF ColumnFields
  <2> HIDE DEF k1, k2, k3
  <2>19. Parse(k1, o1).offset = o4 /\ Parse(k1, o1).value[3] = col.name /\ Parse(k2, o4).offset = o8
    BY <2>14, <2>15 DEF ReadAs
  <2>20. k2 \o k3 \in Seq(FieldKinds) /\ Parse(k2 \o k3, o4).offset = Parse(k3, o8).offset
    <3>1. /\ buffer \in Bytes /\ o4 \in Int /\ k2 \in Seq(FieldKinds) /\ k3 \in Seq(FieldKinds)
          /\ o8 = Parse(k2, o4).offset
      BY <1>13, <2>6, <2>16, <2>17, <2>19
    <3> QED
      BY <3>1, ParseJoin
  <2>21. /\ Parse(ColumnFields, o1).offset = Parse(k2 \o k3, o4).offset
         /\ Parse(ColumnFields, o1).value[3] = Parse(k1, o1).value[3]
    <3> DEFINE k23 == k2 \o k3
    <3>1. k23 \in Seq(FieldKinds) /\ k1 \in Seq(FieldKinds) /\ o4 = Parse(k1, o1).offset /\ o1 \in Int
      BY <2>6, <2>17, <2>19, <2>20
    <3>2. ColumnFields = k1 \o k23 /\ 3 \in 1..Len(k1)
      BY <2>17, <2>18
    <3> HIDE DEF k23
    <3>3. /\ Parse(k1 \o k23, o1).offset = Parse(k23, o4).offset
          /\ \A i \in 1..Len(k1) : Parse(k1 \o k23, o1).value[i] = Parse(k1, o1).value[i]
      BY <1>13, <3>1, ParseJoin
    <3> QED
      BY <3>2, <3>3 DEF k23
  <2>22. ParseColumnType(o).offset = o1 /\ ParseColumnType(o).value = CUBRIDDataType[col.type]
    BY <2>7 DEF ReadAs
  <2> QED
    BY <2>5, <2>16, <2>19, <2>20, <2>21, <2>22
<1> QED
  BY <1>11, <1>13 DEF all, Triple

-----------------------------------------------------------------------------
(* Rows.                                                                     *)

\* The function of a list of bytes is a sequence of bytes.
LEMMA ListOfBytes ==
    ASSUME NEW n \in Nat, NEW f, f = [i \in 1..n |-> f[i]], \A i \in 1..n : f[i] \in Bytes
    PROVE  f \in Seq(Bytes) /\ Len(f) = n
<1> HIDE DEF Bytes
<1>1. f \in [1..n -> Bytes]
  OBVIOUS
<1> QED
  BY <1>1

\* What a list is, by its length.
LEMMA ListFacts ==
    ASSUME NEW list, IsList(list)
    PROVE  /\ Len(list) \in Lengths /\ Len(list) \in Nat /\ Len(list) \in Ints /\ DOMAIN list = 1..Len(list)
           /\ Listed(list)
<1> DEFINE f == [i \in 1..Len(list) |-> list[i]]
<1>1. Len(list) \in Lengths /\ list = f
  BY DEF IsList
<1>2. Len(list) \in Nat /\ Len(list) \in Ints
  BY <1>1, SpansAreInts
<1>3. DOMAIN f = 1..Len(list)
  OBVIOUS
<1> QED
  BY <1>1, <1>2, <1>3 DEF Listed

\* The values of a row, each behind its size.
RowCells(c, row) == [j \in DOMAIN row |-> Sized(c.columns[j].type, row[j])]

\* The cells of a row, each with the type its column says or its own.
LEMMA CellsBytes ==
    ASSUME NEW c, IsStatement(c), NEW row, IsRow(c, row)
    PROVE  /\ RowCells(c, row) \in Seq(Bytes) /\ Len(RowCells(c, row)) = Len(c.columns) /\ Len(c.columns) \in Nat
           /\ \A j \in 1..Len(c.columns) :
                 /\ RowCells(c, row)[j] = Sized(c.columns[j].type, row[j])
                 /\ IsStored(row[j]) /\ c.columns[j].type \in Types /\ c.columns[j].type \in {"null", row[j].type}
<1> DEFINE n == Len(c.columns)
           cells == RowCells(c, row)
<1>1. IsList(row) /\ Len(row) = n /\ IsList(c.columns)
  BY DEF IsRow, IsStatement
<1>2. n \in Nat /\ DOMAIN row = 1..n
  BY <1>1, ListFacts
<1>3. cells = [j \in 1..n |-> Sized(c.columns[j].type, row[j])]
  BY <1>2 DEF RowCells
<1>4. \A j \in 1..n : IsStored(row[j]) /\ c.columns[j].type \in {"null", row[j].type}
  BY <1>1 DEF IsRow
<1>5. \A j \in 1..n : c.columns[j].type \in Types
  BY DEF IsStatement, IsColumn
<1> HIDE DEF cells, n
<1>6. \A j \in 1..n : cells[j] = Sized(c.columns[j].type, row[j])
  BY <1>3
<1>7. \A j \in 1..n : cells[j] \in Bytes
  BY <1>4, <1>5, <1>6, SizedLayout
<1>8. cells = [j \in 1..n |-> cells[j]]
  BY <1>3
<1>9. cells \in Seq(Bytes) /\ Len(cells) = n
  BY <1>2, <1>7, <1>8, ListOfBytes
<1> QED
  BY <1>2, <1>4, <1>5, <1>6, <1>9 DEF cells, n

\* A row: its number, its oid and its cells.
LEMMA RowBytes ==
    ASSUME NEW c, IsStatement(c), NEW row, IsRow(c, row)
    PROVE  /\ Triple(RowOctets(c, row), Int4(1), Oid, FlattenSeq(RowCells(c, row)))
           /\ Len(Int4(1)) = 4 /\ Len(Oid) = 8
<1> DEFINE one == Int4(1)
           cells == FlattenSeq(RowCells(c, row))
           row_ == RowOctets(c, row)
<1>1. one \in Bytes /\ Len(one) = 4
  BY NumBytes
<1>2. Oid \in Bytes /\ Len(Oid) = 8
  BY OidBytes
<1>3. cells \in Bytes
  BY CellsBytes, StartProperties
<1>4. row_ = one \o Oid \o cells
  BY DEF RowOctets, All, RowCells
<1> HIDE DEF one, cells, row_
<1>5. Triple(row_, one, Oid, cells)
  BY <1>1, <1>2, <1>3, <1>4, TripleIs
<1> QED
  BY <1>1, <1>2, <1>5 DEF one, cells, row_

\* The index and the OID of a row.
LEMMA RowHead ==
    ASSUME buffer \in Bytes, NEW o \in Int
    PROVE  Parse(<<"int", "oid">>, o).offset = o + 12
<1> DEFINE v1 == ParseField("int", o).value
           v2 == ParseField("oid", o + 4).value
           e2 == (o + 4) + 8
<1>1. ParseField("int", o) = ReadAs(v1, o + 4)
  BY FieldOf DEF ParseInt, ParseNum, ReadAs
<1>2. ParseField("oid", o + 4) = ReadAs(v2, e2)
  BY FieldOf DEF ParseBytes, ReadAs
<1>3. "int" \in FieldKinds /\ "oid" \in FieldKinds
  BY DEF FieldKinds
<1>4. e2 = o + 12
  OBVIOUS
<1> HIDE DEF v1, v2, e2
<1>5. Parse(<<"int", "oid">>, o) = ReadAs(<<v1, v2>>, e2)
  BY <1>1, <1>2, <1>3, TwoFields
<1> QED
  BY <1>4, <1>5 DEF ReadAs

\* A row is read to its end, with the values that can be read.
LEMMA RowRead ==
    ASSUME buffer \in Bytes, IsStatement(call), NEW row, IsRow(call, row), NEW o,
           At(buffer, o, RowOctets(call, row)),
           NEW columns, Len(columns) = Len(call.columns),
           \A j \in 1..Len(columns) : columns[j].ColumnType = CUBRIDDataType[call.columns[j].type],
           call.kind = "prepare" =>
               \A j \in 1..Len(columns) : row[j].value = Null \/ row[j].type \notin ZonedTypes
    PROVE  LET r == ParseCells(columns, Parse(<<"int", "oid">>, o).offset)
           IN  /\ r.offset = o + Len(RowOctets(call, row))
               /\ \A j \in 1..Len(columns) : Readable(row[j]) => r.value[j] = Meant(row[j])
<1> DEFINE n == Len(columns)
           cells == RowCells(call, row)
           ends == [j \in 0..n |-> (o + 12) + Start(cells, j)]
           octets == RowOctets(call, row)
           one == Int4(1)
<1>1. /\ cells \in Seq(Bytes) /\ Len(cells) = n /\ n \in Nat
      /\ \A j \in 1..n :
            /\ cells[j] = Sized(call.columns[j].type, row[j])
            /\ IsStored(row[j]) /\ call.columns[j].type \in Types /\ call.columns[j].type \in {"null", row[j].type}
  BY CellsBytes
<1>2. Triple(octets, one, Oid, FlattenSeq(cells)) /\ Len(one) = 4 /\ Len(Oid) = 8
  BY RowBytes
<1> HIDE DEF cells, octets, one
<1>3. o \in Nat
  BY DEF At, octets
<1>4. At(buffer, o + 12, FlattenSeq(cells))
  <2>1. At(buffer, o + (Len(one) + Len(Oid)), FlattenSeq(cells))
    BY <1>2 DEF Triple, octets
  <2>2. Len(one) + Len(Oid) = 12
    BY <1>2
  <2> QED
    BY <2>1, <2>2
<1>5. /\ \A k \in 0..n : Start(cells, k) \in Nat
      /\ Start(cells, 0) = 0
      /\ \A k \in 1..n : Start(cells, k) = Start(cells, k - 1) + Len(cells[k])
      /\ Len(FlattenSeq(cells)) = Start(cells, n)
  BY <1>1, StartProperties
<1>6. Parse(<<"int", "oid">>, o).offset = o + 12
  <2>1. o \in Int
    BY <1>3
  <2> QED
    BY <2>1, RowHead
<1>7. ends[0] = o + 12 /\ ends[0] \in Int /\ ends[n] = (o + 12) + Start(cells, n)
  BY <1>1, <1>3, <1>5
<1>8. ASSUME NEW j \in 1..n
      PROVE  Got(ParseCell(columns[j].ColumnType, ends[j - 1]), row[j], ends[j])
  <2>1. j \in 0..n /\ j - 1 \in 0..n
    BY <1>1
  <2> DEFINE x == (o + 12) + Start(cells, j - 1)
             type == call.columns[j].type
  <2>2. ends[j - 1] = x /\ ends[j] = (o + 12) + Start(cells, j)
    BY <2>1
  <2>3. At(buffer, x, Sized(type, row[j]))
    BY <1>1, <1>4, PartsAt
  <2>4. Len(Sized(type, row[j])) \in Nat
    BY <1>1, SizedLayout, BytesProperties
  <2>5. ends[j] = x + Len(Sized(type, row[j]))
    <3> DEFINE size == Len(Sized(type, row[j]))
               before == Start(cells, j - 1)
    <3>1. Start(cells, j) = before + size
      BY <1>1, <1>5
    <3>2. before \in Nat /\ size \in Nat
      BY <1>5, <2>1, <2>4
    <3> HIDE DEF size, before
    <3>3. (o + 12) + (before + size) = ((o + 12) + before) + size
      BY <1>3, <3>2
    <3> QED
      BY <2>2, <3>1, <3>3 DEF size, before
  <2> HIDE DEF x, type, ends
  <2>6. type \in Types /\ IsStored(row[j]) /\ type \in {"null", row[j].type}
    BY <1>1 DEF type
  <2>7. call.kind = "prepare" => row[j].value = Null \/ row[j].type \notin ZonedTypes
    OBVIOUS
  <2>8. Got(ParseCell(CUBRIDDataType[type], x), row[j], x + Len(Sized(type, row[j])))
    BY <2>3, <2>6, <2>7, CellRead
  <2>9. columns[j].ColumnType = CUBRIDDataType[type]
    BY DEF type
  <2> QED
    BY <2>2, <2>5, <2>8, <2>9
<1> HIDE DEF ends
<1>9. /\ ParseCells(columns, ends[0]).offset = ends[n]
      /\ \A j \in 1..n : Readable(row[j]) => ParseCells(columns, ends[0]).value[j] = Meant(row[j])
  <2>1. ends[0] \in Int /\ Len(columns) \in Nat
    BY <1>1, <1>7
  <2>2. \A j \in 1..Len(columns) : Got(ParseCell(columns[j].ColumnType, ends[j - 1]), row[j], ends[j])
    BY <1>8
  <2> HIDE DEF Got
  <2> QED
    BY <2>1, <2>2, CellsRead
<1>10. Len(octets) = 12 + Start(cells, n) /\ Start(cells, n) \in Nat
  <2>1. Len(octets) = Len(one) + Len(Oid) + Len(FlattenSeq(cells))
    BY <1>2 DEF Triple
  <2>2. n \in 0..n
    BY <1>1
  <2>3. Len(FlattenSeq(cells)) = Start(cells, n) /\ Start(cells, n) \in Nat
    BY <1>5, <2>2
  <2> QED
    BY <1>2, <2>1, <2>3
<1>11. ends[n] = o + Len(octets)
  BY <1>3, <1>7, <1>10
<1> QED
  BY <1>6, <1>7, <1>9, <1>11 DEF octets

\* The rows of one response.
SentRows(c, from, to) == [i \in 1..(to - from + 1) |-> RowOctets(c, c.rows[from + i - 1])]

\* Several rows, with their number before them.
LEMMA RowsBytes ==
    ASSUME NEW c, IsStatement(c), NEW from \in Nat, NEW to \in Nat,
           from > 0, from <= to + 1, to <= Len(c.rows)
    PROVE  LET n == to - from + 1
               parts == SentRows(c, from, to)
           IN  /\ n \in Nat /\ n \in Ints
               /\ parts \in Seq(Bytes) /\ Len(parts) = n
               /\ \A i \in 1..n : parts[i] = RowOctets(c, c.rows[from + i - 1]) /\ IsRow(c, c.rows[from + i - 1])
               /\ Pair(RowsFrom(c, from, to), Int4(n), FlattenSeq(parts)) /\ Len(Int4(n)) = 4
<1> DEFINE n == to - from + 1
           parts == SentRows(c, from, to)
           all == RowsFrom(c, from, to)
<1>1. IsList(c.rows) /\ \A i \in 1..Len(c.rows) : IsRow(c, c.rows[i])
  BY DEF IsStatement
<1>2. Len(c.rows) \in Lengths /\ Len(c.rows) \in Nat
  BY <1>1, ListFacts
<1>3. n \in Nat /\ n <= Len(c.rows) /\ \A i \in 1..n : from + i - 1 \in 1..Len(c.rows)
  BY <1>2
<1>4. n \in Ints
  <2>1. n \in Lengths
    <3>1. IntSpan \div 2 \in Nat
      BY Spans
    <3> DEFINE half == IntSpan \div 2
    <3>2. Len(c.rows) <= half - 1 /\ half \in Nat
      BY <1>2, <3>1 DEF Lengths
    <3> HIDE DEF n, half
    <3>3. n \in 0..(half - 1)
      BY <1>2, <1>3, <3>2
    <3> QED
      BY <3>3 DEF Lengths, half
  <2> QED
    BY <2>1, SpansAreInts
<1>5. parts = [i \in 1..n |-> RowOctets(c, c.rows[from + i - 1])] /\ all = Int4(n) \o FlattenSeq(parts)
  BY DEF SentRows, RowsFrom, All
<1> DEFINE first == Int4(n)
           rest == FlattenSeq(parts)
<1>6. first \in Bytes /\ Len(first) = 4
  <2>1. n \in Int
    BY <1>3
  <2> HIDE DEF n
  <2> QED
    BY <2>1, NumBytes
<1> HIDE DEF parts, n, all
<1>7. \A i \in 1..n : parts[i] = RowOctets(c, c.rows[from + i - 1]) /\ IsRow(c, c.rows[from + i - 1])
  BY <1>1, <1>3, <1>5
<1>8. parts \in Seq(Bytes) /\ Len(parts) = n
  <2>1. \A i \in 1..n : parts[i] \in Bytes
    BY <1>7, RowBytes DEF Triple
  <2>2. parts = [i \in 1..n |-> parts[i]]
    BY <1>5
  <2> QED
    BY <1>3, <2>1, <2>2, ListOfBytes
<1>9. rest \in Bytes
  BY <1>8, StartProperties
<1> HIDE DEF first, rest
<1>10. Pair(all, first, rest)
  <2>1. all = first \o rest
    BY <1>5 DEF first, rest
  <2> QED
    BY <1>6, <1>9, <2>1, PairIs
<1> QED
  BY <1>3, <1>4, <1>6, <1>7, <1>8, <1>10 DEF parts, n, all, first, rest

\* The columns of a statement.
SentColumns(c) == [i \in DOMAIN c.columns |-> ColumnOctets(c.columns[i])]

\* The columns of a statement.
LEMMA ColumnsBytes ==
    ASSUME NEW c, IsStatement(c)
    PROVE  /\ SentColumns(c) \in Seq(Bytes) /\ Len(SentColumns(c)) = Len(c.columns)
           /\ Len(c.columns) \in Nat /\ Len(c.columns) \in Ints
           /\ \A i \in 1..Len(c.columns) :
                 SentColumns(c)[i] = ColumnOctets(c.columns[i]) /\ IsColumn(c.columns[i])
           /\ FlattenSeq(SentColumns(c)) \in Bytes
<1> DEFINE n == Len(c.columns)
           parts == SentColumns(c)
<1>1. IsList(c.columns) /\ \A i \in 1..n : IsColumn(c.columns[i])
  BY DEF IsStatement
<1>2. n \in Nat /\ n \in Ints /\ DOMAIN c.columns = 1..n
  BY <1>1, ListFacts
<1>3. parts = [i \in 1..n |-> ColumnOctets(c.columns[i])]
  BY <1>2 DEF SentColumns
<1> HIDE DEF parts, n
<1>4. \A i \in 1..n : parts[i] = ColumnOctets(c.columns[i])
  BY <1>3
<1>5. parts \in Seq(Bytes) /\ Len(parts) = n
  <2>1. \A i \in 1..n : parts[i] \in Bytes
    BY <1>1, <1>4, ColumnRead
  <2>2. parts = [i \in 1..n |-> parts[i]]
    BY <1>3
  <2> QED
    BY <1>2, <2>1, <2>2, ListOfBytes
<1>6. FlattenSeq(parts) \in Bytes
  BY <1>5, StartProperties
<1> QED
  BY <1>1, <1>2, <1>4, <1>5, <1>6 DEF parts, n

\* What a statement begins with, and where its columns lie.
StatementLaid(c, b, o) ==
    /\ At(b, o, Int4(c.handle)) /\ At(b, o + 4, Int4(0)) /\ At(b, o + 8, <<c.statementType>>)
    /\ At(b, o + 9, Int4(0)) /\ At(b, o + 13, <<1>>) /\ At(b, o + 14, Int4(Len(c.columns)))
    /\ At(b, o + 18, FlattenSeq(SentColumns(c)))

\* What follows the handle of a statement, and how long it is.
LEMMA StatementLayout ==
    ASSUME NEW c, IsStatement(c)
    PROVE  /\ StatementOctets(c) \in Bytes
           /\ Len(StatementOctets(c)) = 18 + Len(FlattenSeq(SentColumns(c)))
           /\ Len(FlattenSeq(SentColumns(c))) \in Nat
           /\ \A b \in Bytes : \A o : At(b, o, StatementOctets(c)) => StatementLaid(c, b, o)
<1> DEFINE handle == Int4(c.handle)
           zero == Int4(0)
           type == <<c.statementType>>
           one == <<1>>
           count == Int4(Len(c.columns))
           columns == FlattenSeq(SentColumns(c))
           head == handle \o zero \o type \o zero
           all == StatementOctets(c)
<1>1. all = head \o one \o count \o columns
  BY DEF StatementOctets, All, SentColumns
<1>2. c.handle \in Int /\ c.statementType \in Byte
  <2>1. c.handle \in Lengths
    BY DEF IsStatement
  <2>2. c.handle \in Nat
    BY <2>1, SpansAreInts
  <2> QED
    BY <2>2 DEF IsStatement, Byte
<1>3. handle \in Bytes /\ Len(handle) = 4
  BY <1>2, NumBytes
<1>4. zero \in Bytes /\ Len(zero) = 4
  BY NumBytes
<1>5. type \in Bytes /\ Len(type) = 1
  BY <1>2, ByteBytes
<1>6. one \in Bytes /\ Len(one) = 1
  BY ColumnParts
<1>7. count \in Bytes /\ Len(count) = 4
  <2>1. Len(c.columns) \in Int
    BY ColumnsBytes
  <2> QED
    BY <2>1, NumBytes
<1>8. columns \in Bytes
  BY ColumnsBytes
<1> HIDE DEF handle, zero, type, one, count, columns, head, all
<1>9. Quad(head, handle, zero, type, zero)
  BY <1>3, <1>4, <1>5, QuadIs DEF head
<1>10. Quad(all, head, one, count, columns)
  <2>1. head \in Bytes
    BY <1>9 DEF Quad
  <2> QED
    BY <1>1, <1>6, <1>7, <1>8, <2>1, QuadIs
<1>11. Len(head) = 13
  <2>1. Len(head) = Len(handle) + Len(zero) + Len(type) + Len(zero)
    BY <1>9 DEF Quad
  <2> QED
    BY <1>3, <1>4, <1>5, <2>1
<1>12. Len(all) = 18 + Len(columns) /\ Len(columns) \in Nat /\ all \in Bytes
  <2>1. Len(all) = Len(head) + Len(one) + Len(count) + Len(columns) /\ Len(columns) \in Nat /\ all \in Bytes
    BY <1>10 DEF Quad
  <2> QED
    BY <1>6, <1>7, <1>11, <2>1
<1>13. ASSUME NEW b \in Bytes, NEW o, At(b, o, all)
       PROVE  /\ At(b, o, handle) /\ At(b, o + 4, zero) /\ At(b, o + 8, type) /\ At(b, o + 9, zero)
              /\ At(b, o + 13, one) /\ At(b, o + 14, count) /\ At(b, o + 18, columns)
  <2>1. /\ At(b, o, head) /\ At(b, o + Len(head), one) /\ At(b, o + (Len(head) + Len(one)), count)
        /\ At(b, o + (Len(head) + Len(one) + Len(count)), columns)
    BY <1>10, <1>13 DEF Quad
  <2>2. /\ At(b, o, handle) /\ At(b, o + Len(handle), zero) /\ At(b, o + (Len(handle) + Len(zero)), type)
        /\ At(b, o + (Len(handle) + Len(zero) + Len(type)), zero)
    BY <1>9, <1>13, <2>1 DEF Quad
  <2>3. /\ Len(head) + Len(one) = 14 /\ Len(head) + Len(one) + Len(count) = 18
        /\ Len(handle) + Len(zero) = 8 /\ Len(handle) + Len(zero) + Len(type) = 9
    BY <1>3, <1>4, <1>5, <1>6, <1>7, <1>11
  <2> QED
    BY <1>3, <1>11, <2>1, <2>2, <2>3
<1>14. ASSUME NEW b \in Bytes, NEW o, At(b, o, all) PROVE StatementLaid(c, b, o)
  BY <1>13, <1>14 DEF StatementLaid, handle, zero, type, one, count, columns
<1> QED
  BY <1>12, <1>14 DEF all, columns

\* What follows the results by the protocol version, and the rows of a SELECT.
IncludeOctets(c) == IF c.version > 1 THEN <<0>> ELSE <<>>
ShardOctets(c) == IF c.version > 4 THEN Int4(0) ELSE <<>>
TupleOctets(c) == IF c.statementType = SELECT THEN Int4(0) \o RowsFrom(c, 1, c.first) ELSE <<>>
TailSize(c) == (IF c.version > 1 THEN 1 ELSE 0) + (IF c.version > 4 THEN 4 ELSE 0)

\* What comes behind the results depends on the protocol's version.
LEMMA TailBytes ==
    ASSUME NEW c
    PROVE  /\ IncludeOctets(c) \in Bytes /\ Len(IncludeOctets(c)) = (IF c.version > 1 THEN 1 ELSE 0)
           /\ ShardOctets(c) \in Bytes /\ Len(ShardOctets(c)) = (IF c.version > 4 THEN 4 ELSE 0)
           /\ IsStatement(c) => TupleOctets(c) \in Bytes
<1> DEFINE zero == Int4(0)
           byte == <<0>>
           none == <<>>
<1>1. none \in Bytes /\ Len(none) = 0 /\ byte \in Bytes /\ Len(byte) = 1
  BY FewBytes
<1>2. zero \in Bytes /\ Len(zero) = 4
  BY NumBytes
<1>3. /\ IncludeOctets(c) = IF c.version > 1 THEN byte ELSE none
      /\ ShardOctets(c) = IF c.version > 4 THEN zero ELSE none
      /\ TupleOctets(c) = IF c.statementType = SELECT THEN zero \o RowsFrom(c, 1, c.first) ELSE none
  BY DEF IncludeOctets, ShardOctets, TupleOctets
<1> HIDE DEF zero, byte, none
<1>4. ASSUME IsStatement(c) PROVE TupleOctets(c) \in Bytes
  <2>1. c.first \in 0..Len(c.rows) /\ IsList(c.rows)
    BY <1>4 DEF IsStatement
  <2>2. Len(c.rows) \in Nat
    BY <2>1, ListFacts
  <2>3. 1 \in Nat /\ c.first \in Nat /\ 1 > 0 /\ 1 <= c.first + 1 /\ c.first <= Len(c.rows)
    BY <2>1, <2>2
  <2>4. RowsFrom(c, 1, c.first) \in Bytes
    BY <1>4, <2>3, RowsBytes DEF Pair
  <2> QED
    BY <1>1, <1>2, <1>3, <2>4, BytesConcat
<1> QED
  BY <1>1, <1>2, <1>3, <1>4

\* What a result begins with, and what lies behind its fields.
ResultLaid(c, b, o) ==
    /\ At(b, o, <<0>>) /\ At(b, o + 1, Int4(1)) /\ At(b, o + 5, <<c.statementType>>)
    /\ At(b, o + 6, Int4(Len(c.rows))) /\ At(b, o + 10, Oid) /\ At(b, o + 18, Int4(0)) /\ At(b, o + 22, Int4(0))
    /\ At(b, o + 26, IncludeOctets(c)) /\ At(b, o + 26 + Len(IncludeOctets(c)), ShardOctets(c))
    /\ At(b, o + 26 + TailSize(c), TupleOctets(c))

\* What follows the columns: counts, results, the tail and the first rows.
LEMMA ResultLayout ==
    ASSUME NEW c, IsStatement(c)
    PROVE  /\ ResultOctets(c) \in Bytes
           /\ Len(ResultOctets(c)) = 26 + TailSize(c) + Len(TupleOctets(c))
           /\ Len(TupleOctets(c)) \in Nat /\ TailSize(c) \in Nat
           /\ \A b \in Bytes : \A o : At(b, o, ResultOctets(c)) => ResultLaid(c, b, o)
<1> DEFINE byte == <<0>>
           one == Int4(1)
           type == <<c.statementType>>
           count == Int4(Len(c.rows))
           zero == Int4(0)
           u == IncludeOctets(c)
           v == ShardOctets(c)
           w == TupleOctets(c)
           x == byte \o one \o type \o count
           y == x \o Oid \o zero \o zero
           all == ResultOctets(c)
<1>1. all = y \o u \o v \o w
  BY DEF ResultOctets, IncludeOctets, ShardOctets, TupleOctets
<1>2. c.statementType \in Byte /\ Len(c.rows) \in Int
  <2>1. IsList(c.rows) /\ c.statementType \in Byte
    BY DEF IsStatement, Byte
  <2>2. Len(c.rows) \in Nat
    BY <2>1, ListFacts
  <2> QED
    BY <2>1, <2>2
<1>3. byte \in Bytes /\ Len(byte) = 1
  BY FewBytes
<1>4. one \in Bytes /\ Len(one) = 4
  BY NumBytes
<1>5. zero \in Bytes /\ Len(zero) = 4
  BY NumBytes
<1>6. type \in Bytes /\ Len(type) = 1
  BY <1>2, ByteBytes
<1>7. count \in Bytes /\ Len(count) = 4
  BY <1>2, NumBytes
<1>8. Oid \in Bytes /\ Len(Oid) = 8
  BY OidBytes
<1>9. u \in Bytes /\ v \in Bytes /\ w \in Bytes /\ Len(u) + Len(v) = TailSize(c) /\ Len(u) \in Nat /\ Len(v) \in Nat
  <2>1. u \in Bytes /\ Len(u) = (IF c.version > 1 THEN 1 ELSE 0)
    BY TailBytes
  <2>2. v \in Bytes /\ Len(v) = (IF c.version > 4 THEN 4 ELSE 0)
    BY TailBytes
  <2>3. w \in Bytes
    BY TailBytes
  <2> HIDE DEF u, v, w
  <2> QED
    BY <2>1, <2>2, <2>3 DEF TailSize
<1> HIDE DEF byte, one, type, count, zero, u, v, w, x, y, all
<1>10. Quad(x, byte, one, type, count)
  BY <1>3, <1>4, <1>6, <1>7, QuadIs DEF x
<1>11. Quad(y, x, Oid, zero, zero)
  <2>1. x \in Bytes
    BY <1>10 DEF Quad
  <2> QED
    BY <1>5, <1>8, <2>1, QuadIs DEF y
<1>12. Quad(all, y, u, v, w)
  <2>1. y \in Bytes
    BY <1>11 DEF Quad
  <2> QED
    BY <1>1, <1>9, <2>1, QuadIs
<1>13. Len(x) = 10 /\ Len(y) = 26
  <2>1. Len(x) = Len(byte) + Len(one) + Len(type) + Len(count)
    BY <1>10 DEF Quad
  <2>2. Len(y) = Len(x) + Len(Oid) + Len(zero) + Len(zero)
    BY <1>11 DEF Quad
  <2> QED
    BY <1>3, <1>4, <1>5, <1>6, <1>7, <1>8, <2>1, <2>2
<1>14. all \in Bytes /\ Len(all) = 26 + TailSize(c) + Len(w) /\ Len(w) \in Nat /\ TailSize(c) \in Nat
  <2>1. all \in Bytes /\ Len(all) = Len(y) + Len(u) + Len(v) + Len(w) /\ Len(w) \in Nat
    BY <1>12 DEF Quad
  <2> QED
    BY <1>9, <1>13, <2>1
<1>15. ASSUME NEW b \in Bytes, NEW o, At(b, o, all)
       PROVE  /\ At(b, o, byte) /\ At(b, o + 1, one) /\ At(b, o + 5, type) /\ At(b, o + 6, count)
              /\ At(b, o + 10, Oid) /\ At(b, o + 18, zero) /\ At(b, o + 22, zero)
              /\ At(b, o + 26, u) /\ At(b, o + 26 + Len(u), v) /\ At(b, o + 26 + TailSize(c), w)
  <2>1. /\ At(b, o, y) /\ At(b, o + Len(y), u) /\ At(b, o + (Len(y) + Len(u)), v)
        /\ At(b, o + (Len(y) + Len(u) + Len(v)), w)
    BY <1>12, <1>15 DEF Quad
  <2>2. /\ At(b, o, x) /\ At(b, o + Len(x), Oid) /\ At(b, o + (Len(x) + Len(Oid)), zero)
        /\ At(b, o + (Len(x) + Len(Oid) + Len(zero)), zero)
    BY <1>11, <1>15, <2>1 DEF Quad
  <2>3. /\ At(b, o, byte) /\ At(b, o + Len(byte), one) /\ At(b, o + (Len(byte) + Len(one)), type)
        /\ At(b, o + (Len(byte) + Len(one) + Len(type)), count)
    BY <1>10, <1>15, <2>2 DEF Quad
  <2>4. o \in Nat
    BY <2>1 DEF At
  <2>5. /\ o + Len(byte) = o + 1 /\ o + (Len(byte) + Len(one)) = o + 5
        /\ o + (Len(byte) + Len(one) + Len(type)) = o + 6
        /\ o + Len(x) = o + 10 /\ o + (Len(x) + Len(Oid)) = o + 18 /\ o + (Len(x) + Len(Oid) + Len(zero)) = o + 22
        /\ o + Len(y) = o + 26 /\ o + (Len(y) + Len(u)) = o + 26 + Len(u)
        /\ o + (Len(y) + Len(u) + Len(v)) = o + 26 + TailSize(c)
    BY <1>3, <1>4, <1>5, <1>6, <1>7, <1>8, <1>9, <1>13, <2>4
  <2> QED
    BY <2>1, <2>2, <2>3, <2>5
<1>16. ASSUME NEW b \in Bytes, NEW o, At(b, o, all) PROVE ResultLaid(c, b, o)
  BY <1>15, <1>16 DEF ResultLaid, byte, one, type, count, zero, u, v, w
<1> QED
  BY <1>14, <1>16 DEF all, w

-----------------------------------------------------------------------------
(* Schemas.                                                                  *)

SchemaTypeNames == {"string", "short", "int"}
KindOf(type) == CASE type = "string" -> "string" [] type = "short" -> "sizedShort" [] type = "int" -> "sizedInt"

Spliced(S, all, x, y) ==
    /\ all \in Seq(S) /\ Len(all) = Len(x) + Len(y)
    /\ \A i \in 1..Len(x) : all[i] = x[i]
    /\ \A i \in 1..Len(y) : all[Len(x) + i] = y[i]

\* Where the elements of two sequences are, one after the other.
LEMMA ConcatAt ==
    ASSUME NEW S, NEW x \in Seq(S), NEW y \in Seq(S), NEW all, all = x \o y
    PROVE  Spliced(S, all, x, y)
BY DEF Spliced

\* It makes no difference which are joined first.
LEMMA BytesAssociative ==
    ASSUME NEW x \in Bytes, NEW y \in Bytes, NEW z \in Bytes
    PROVE  x \o (y \o z) = x \o y \o z
<1> DEFINE D == 0..(Base - 1)
<1>1. x \in Seq(D) /\ y \in Seq(D) /\ z \in Seq(D)
  BY DEF Bytes
<1> HIDE DEF D
<1> QED
  BY <1>1, ConcatAssociative

\* Schemas hold numbers and texts.
LEMMA SchemaTypesKnown == SchemaTypeNames \subseteq Types \ {"null"}
BY DEF SchemaTypeNames, Types, CUBRIDDataType

\* A value of a row of a schema is a field of the kind that is read.
LEMMA SchemaPiece ==
    ASSUME NEW type \in SchemaTypeNames, NEW v \in SchemaValuesOf(type)
    PROVE  LET octets == ValueOctets(type, v)
               kind == KindOf(type)
           IN  /\ Int4(Len(octets)) \o octets = FieldOctets(kind, v)
               /\ kind \in FieldKinds /\ v \in FieldValues(kind) /\ FieldOctets(kind, v) \in Bytes
<1> DEFINE octets == ValueOctets(type, v)
           kind == KindOf(type)
<1>1. CASE type = "string"
  <2> DEFINE zero == <<0>>
             length == Int4(Len(v) + 1)
  <2>1. v \in Texts /\ kind = "string"
    BY <1>1 DEF SchemaValuesOf, KindOf
  <2>2. octets = v \o zero
    BY <1>1, SchemaTypesKnown, ValueOctetsOf DEF TextTypes
  <2>3. v \in Bytes /\ Len(v) \in Nat
    BY <2>1, TextsAreBytes
  <2>4. zero \in Bytes /\ Len(zero) = 1
    BY FewBytes
  <2>5. length \in Bytes
    BY <2>3, NumBytes
  <2>6. Text(v) = length \o v \o zero
    BY DEF Text
  <2> HIDE DEF zero, octets, length
  <2>7. Len(octets) = Len(v) + 1
    BY <2>2, <2>3, <2>4, Two, ZenonT(40)
  <2>8. Int4(Len(octets)) = length
    BY <2>7 DEF length
  <2>9. length \o (v \o zero) = length \o v \o zero
    BY <2>3, <2>4, <2>5, BytesAssociative
  <2>10. FieldOctets(kind, v) = Text(v) /\ FieldValues(kind) = Texts /\ kind \in FieldKinds
    BY <2>1 DEF FieldOctets, FieldValues, FieldKinds
  <2>11. Text(v) \in Bytes
    BY <2>3, TextBytes
  <2> QED
    BY <2>1, <2>2, <2>6, <2>8, <2>9, <2>10, <2>11 DEF octets
<1>2. CASE type = "short"
  <2>1. v \in Words /\ v \in Int /\ kind = "sizedShort"
    BY <1>2, SpansAreInts DEF SchemaValuesOf, KindOf
  <2>2. octets = Octets(v, 2)
    BY <1>2, SchemaTypesKnown, ValueOctetsOf
  <2>3. Len(octets) = 2 /\ octets \in Bytes
    BY <2>1, <2>2, NumBytes
  <2>4. Int4(2) \in Bytes
    BY NumBytes
  <2>5. FieldOctets(kind, v) = Int4(2) \o Octets(v, 2) /\ FieldValues(kind) = Words /\ kind \in FieldKinds
    BY <2>1 DEF FieldOctets, FieldValues, FieldKinds
  <2> HIDE DEF octets, kind
  <2>6. Int4(Len(octets)) \o octets = FieldOctets(kind, v)
    BY <2>2, <2>3, <2>5
  <2>7. Int4(2) \o octets \in Bytes
    BY <2>3, <2>4, BytesConcat
  <2> QED
    BY <2>1, <2>2, <2>5, <2>6, <2>7 DEF octets, kind
<1>3. CASE type = "int"
  <2>1. v \in Ints /\ v \in Int /\ kind = "sizedInt"
    BY <1>3, SpansAreInts DEF SchemaValuesOf, KindOf
  <2>2. octets = Int4(v)
    BY <1>3, SchemaTypesKnown, ValueOctetsOf
  <2>3. Len(octets) = 4 /\ octets \in Bytes
    BY <2>1, <2>2, NumBytes
  <2>4. Int4(4) \in Bytes
    BY NumBytes
  <2>5. FieldOctets(kind, v) = Int4(4) \o Int4(v) /\ FieldValues(kind) = Ints /\ kind \in FieldKinds
    BY <2>1 DEF FieldOctets, FieldValues, FieldKinds
  <2> HIDE DEF octets, kind
  <2>6. Int4(Len(octets)) \o octets = FieldOctets(kind, v)
    BY <2>2, <2>3, <2>5
  <2>7. Int4(4) \o octets \in Bytes
    BY <2>3, <2>4, BytesConcat
  <2> QED
    BY <2>1, <2>2, <2>5, <2>6, <2>7 DEF octets, kind
<1> QED
  BY <1>1, <1>2, <1>3 DEF SchemaTypeNames

\* The columns of every schema, and the fields that are read of them.
LEMMA SchemaShapes ==
    ASSUME NEW t
    PROVE  /\ SchemaColumns(t) \in Seq(SchemaTypeNames) /\ Len(SchemaColumns(t)) \in 1..13
           /\ SchemaFields(t) \in Seq(FieldKinds)
           /\ SchemaFields(t) # <<>> =>
                 /\ Len(SchemaFields(t)) = Len(SchemaColumns(t))
                 /\ \A j \in 1..Len(SchemaColumns(t)) : SchemaFields(t)[j] = KindOf(SchemaColumns(t)[j])
<1> DEFINE c == SchemaColumns(t)
           f == SchemaFields(t)
           S == SchemaTypeNames
           Right == /\ c \in Seq(S) /\ Len(c) \in 1..13
                    /\ f \in Seq(FieldKinds)
                    /\ f # <<>> => Len(f) = Len(c) /\ \A j \in 1..Len(c) : f[j] = KindOf(c[j])
<1>1. /\ "string" \in S /\ "short" \in S /\ "int" \in S
      /\ "string" \in FieldKinds /\ "sizedShort" \in FieldKinds /\ "sizedInt" \in FieldKinds
      /\ KindOf("string") = "string" /\ KindOf("short") = "sizedShort" /\ KindOf("int") = "sizedInt"
  BY DEF FieldKinds, KindOf, SchemaTypeNames
<1>2. CASE t \in {1, 2}
  <2>1. c = <<"string", "short">> /\ f = <<"string", "sizedShort">>
    BY <1>2 DEF SchemaColumns, SchemaFields
  <2> QED
    BY <1>1, <2>1
<1>3. CASE t = 4
  <2> DEFINE x == <<"string", "short", "short", "int">>
             y == [i \in 1..4 |-> "short"]
             z == <<"string", "int", "string", "string", "short">>
  <2>1. c = x \o y \o z /\ f = <<"string", "sizedShort", "sizedShort", "sizedInt", "sizedShort", "sizedShort",
                                 "sizedShort", "sizedShort", "string", "sizedInt", "string", "string",
                                 "sizedShort">>
    BY <1>3 DEF SchemaColumns, SchemaFields
  <2>2. /\ x \in Seq(S) /\ Len(x) = 4 /\ x[1] = "string" /\ x[2] = "short" /\ x[3] = "short" /\ x[4] = "int"
        /\ z \in Seq(S) /\ Len(z) = 5 /\ z[1] = "string" /\ z[2] = "int" /\ z[3] = "string" /\ z[4] = "string"
        /\ z[5] = "short"
        /\ y \in Seq(S) /\ Len(y) = 4 /\ y[1] = "short" /\ y[2] = "short" /\ y[3] = "short" /\ y[4] = "short"
    BY <1>1
  <2>3. /\ f \in Seq(FieldKinds) /\ Len(f) = 13 /\ f[1] = "string" /\ f[2] = "sizedShort" /\ f[3] = "sizedShort"
        /\ f[4] = "sizedInt" /\ f[5] = "sizedShort" /\ f[6] = "sizedShort" /\ f[7] = "sizedShort"
        /\ f[8] = "sizedShort" /\ f[9] = "string" /\ f[10] = "sizedInt" /\ f[11] = "string" /\ f[12] = "string"
        /\ f[13] = "sizedShort"
    BY <1>1, <2>1
  <2> HIDE DEF x, y, z, S, c, f
  <2> DEFINE xy == x \o y
  <2>4. /\ xy \in Seq(S) /\ Len(xy) = 8
        /\ xy[1] = x[1] /\ xy[2] = x[2] /\ xy[3] = x[3] /\ xy[4] = x[4]
        /\ xy[5] = y[1] /\ xy[6] = y[2] /\ xy[7] = y[3] /\ xy[8] = y[4]
    <3>1. /\ xy \in Seq(S) /\ Len(xy) = 8
          /\ \A i \in 1..4 : xy[i] = x[i]
          /\ \A i \in 1..4 : xy[4 + i] = y[i]
      <4> DEFINE all == x \o y
      <4>1. Spliced(S, all, x, y)
        BY <2>2, ConcatAt
      <4> HIDE DEF all
      <4>2. Len(x) = 4
        BY <2>2
      <4> QED
        BY <2>2, <4>1, <4>2 DEF Spliced, all
    <3>2. xy[1] = x[1] /\ xy[2] = x[2] /\ xy[3] = x[3] /\ xy[4] = x[4]
      BY <3>1, SMTT(30)
    <3>3. xy[4 + 1] = y[1] /\ 4 + 1 = 5
      BY <3>1
    <3>4. xy[4 + 2] = y[2] /\ 4 + 2 = 6
      BY <3>1
    <3>5. xy[4 + 3] = y[3] /\ 4 + 3 = 7
      BY <3>1
    <3>6. xy[4 + 4] = y[4] /\ 4 + 4 = 8
      BY <3>1
    <3> QED
      BY <3>1, <3>2, <3>3, <3>4, <3>5, <3>6
  <2>5. c = xy \o z
    BY <2>1
  <2> HIDE DEF xy
  <2>6. /\ c \in Seq(S) /\ Len(c) = 13
        /\ c[1] = xy[1] /\ c[2] = xy[2] /\ c[3] = xy[3] /\ c[4] = xy[4]
        /\ c[5] = xy[5] /\ c[6] = xy[6] /\ c[7] = xy[7] /\ c[8] = xy[8]
        /\ c[9] = z[1] /\ c[10] = z[2] /\ c[11] = z[3] /\ c[12] = z[4] /\ c[13] = z[5]
    <3>1. /\ c \in Seq(S) /\ Len(c) = 13
          /\ \A i \in 1..8 : c[i] = xy[i]
          /\ \A i \in 1..5 : c[8 + i] = z[i]
      <4>1. Spliced(S, c, xy, z)
        BY <2>2, <2>4, <2>5, ConcatAt
      <4>2. Len(xy) = 8
        BY <2>2, <2>4, <2>5
      <4> QED
        BY <2>2, <2>4, <4>1, <4>2 DEF Spliced
    <3>2. c[1] = xy[1] /\ c[2] = xy[2] /\ c[3] = xy[3] /\ c[4] = xy[4] /\ c[5] = xy[5] /\ c[6] = xy[6] /\ c[7] = xy[7] /\ c[8] = xy[8]
      BY <3>1
    <3>3. c[8 + 1] = z[1] /\ 8 + 1 = 9
      BY <3>1
    <3>4. c[8 + 2] = z[2] /\ 8 + 2 = 10
      BY <3>1
    <3>5. c[8 + 3] = z[3] /\ 8 + 3 = 11
      BY <3>1
    <3>6. c[8 + 4] = z[4] /\ 8 + 4 = 12
      BY <3>1
    <3>7. c[8 + 5] = z[5] /\ 8 + 5 = 13
      BY <3>1
    <3> QED
      BY <3>1, <3>2, <3>3, <3>4, <3>5, <3>6, <3>7
  <2>7. ASSUME NEW j \in 1..13 PROVE f[j] = KindOf(c[j])
    BY <1>1, <2>2, <2>3, <2>4, <2>6
  <2> QED
    BY <2>3, <2>6, <2>7 DEF c, f, S
<1>4. CASE t = 11
  <2> DEFINE x == <<"short", "string", "string">>
             y == [i \in 1..4 |-> "short"]
  <2>1. c = x \o y /\ f = <<"sizedShort", "string", "string", "sizedShort", "sizedShort", "sizedShort",
                            "sizedShort">>
    BY <1>4 DEF SchemaColumns, SchemaFields
  <2>2. /\ x \in Seq(S) /\ Len(x) = 3 /\ x[1] = "short" /\ x[2] = "string" /\ x[3] = "string"
        /\ y \in Seq(S) /\ Len(y) = 4 /\ y[1] = "short" /\ y[2] = "short" /\ y[3] = "short" /\ y[4] = "short"
    BY <1>1
  <2>3. /\ f \in Seq(FieldKinds) /\ Len(f) = 7 /\ f[1] = "sizedShort" /\ f[2] = "string" /\ f[3] = "string"
        /\ f[4] = "sizedShort" /\ f[5] = "sizedShort" /\ f[6] = "sizedShort" /\ f[7] = "sizedShort"
    BY <1>1, <2>1
  <2> HIDE DEF x, y, S, f
  <2>4. /\ x \o y \in Seq(S) /\ Len(x \o y) = 7
        /\ (x \o y)[1] = x[1] /\ (x \o y)[2] = x[2] /\ (x \o y)[3] = x[3]
        /\ (x \o y)[4] = y[1] /\ (x \o y)[5] = y[2] /\ (x \o y)[6] = y[3] /\ (x \o y)[7] = y[4]
    <3>1. /\ (x \o y) \in Seq(S) /\ Len((x \o y)) = 7
          /\ \A i \in 1..3 : (x \o y)[i] = x[i]
          /\ \A i \in 1..4 : (x \o y)[3 + i] = y[i]
      <4> DEFINE all == x \o y
      <4>1. Spliced(S, all, x, y)
        BY <2>2, ConcatAt
      <4> HIDE DEF all
      <4>2. Len(x) = 3
        BY <2>2
      <4> QED
        BY <2>2, <4>1, <4>2 DEF Spliced, all
    <3>2. (x \o y)[1] = x[1] /\ (x \o y)[2] = x[2] /\ (x \o y)[3] = x[3]
      BY <3>1
    <3>3. (x \o y)[3 + 1] = y[1] /\ 3 + 1 = 4
      BY <3>1
    <3>4. (x \o y)[3 + 2] = y[2] /\ 3 + 2 = 5
      BY <3>1
    <3>5. (x \o y)[3 + 3] = y[3] /\ 3 + 3 = 6
      BY <3>1
    <3>6. (x \o y)[3 + 4] = y[4] /\ 3 + 4 = 7
      BY <3>1
    <3> QED
      BY <3>1, <3>2, <3>3, <3>4, <3>5, <3>6
  <2> HIDE DEF c
  <2>7. ASSUME NEW j \in 1..7 PROVE f[j] = KindOf(c[j])
    BY <1>1, <2>1, <2>2, <2>3, <2>4
  <2> QED
    BY <2>1, <2>3, <2>4, <2>7, SMTT(30) DEF c, f, S
<1>5. CASE t \in {17, 18}
  <2> DEFINE x == [i \in 1..4 |-> "string"]
             y == [i \in 1..3 |-> "short"]
             z == <<"string", "string">>
  <2>1. c = x \o y \o z /\ f = <<"string", "string", "string", "string", "sizedShort", "sizedShort", "sizedShort",
                                 "string", "string">>
    BY <1>5 DEF SchemaColumns, SchemaFields
  <2>2. /\ x \in Seq(S) /\ Len(x) = 4 /\ x[1] = "string" /\ x[2] = "string" /\ x[3] = "string" /\ x[4] = "string"
        /\ z \in Seq(S) /\ Len(z) = 2 /\ z[1] = "string" /\ z[2] = "string"
        /\ y \in Seq(S) /\ Len(y) = 3 /\ y[1] = "short" /\ y[2] = "short" /\ y[3] = "short"
    BY <1>1
  <2>3. /\ f \in Seq(FieldKinds) /\ Len(f) = 9 /\ f[1] = "string" /\ f[2] = "string" /\ f[3] = "string"
        /\ f[4] = "string" /\ f[5] = "sizedShort" /\ f[6] = "sizedShort" /\ f[7] = "sizedShort"
        /\ f[8] = "string" /\ f[9] = "string"
    BY <1>1, <2>1
  <2> HIDE DEF x, y, z, S, c, f
  <2> DEFINE xy == x \o y
  <2>4. /\ xy \in Seq(S) /\ Len(xy) = 7
        /\ xy[1] = x[1] /\ xy[2] = x[2] /\ xy[3] = x[3] /\ xy[4] = x[4]
        /\ xy[5] = y[1] /\ xy[6] = y[2] /\ xy[7] = y[3]
    <3>1. /\ xy \in Seq(S) /\ Len(xy) = 7
          /\ \A i \in 1..4 : xy[i] = x[i]
          /\ \A i \in 1..3 : xy[4 + i] = y[i]
      <4> DEFINE all == x \o y
      <4>1. Spliced(S, all, x, y)
        BY <2>2, ConcatAt
      <4> HIDE DEF all
      <4>2. Len(x) = 4
        BY <2>2
      <4> QED
        BY <2>2, <4>1, <4>2 DEF Spliced, all
    <3>2. xy[1] = x[1] /\ xy[2] = x[2] /\ xy[3] = x[3] /\ xy[4] = x[4]
      BY <3>1
    <3>3. xy[4 + 1] = y[1] /\ 4 + 1 = 5
      BY <3>1
    <3>4. xy[4 + 2] = y[2] /\ 4 + 2 = 6
      BY <3>1
    <3>5. xy[4 + 3] = y[3] /\ 4 + 3 = 7
      BY <3>1
    <3> QED
      BY <3>1, <3>2, <3>3, <3>4, <3>5
  <2>5. c = xy \o z
    BY <2>1
  <2> HIDE DEF xy
  <2>6. /\ c \in Seq(S) /\ Len(c) = 9
        /\ c[1] = xy[1] /\ c[2] = xy[2] /\ c[3] = xy[3] /\ c[4] = xy[4]
        /\ c[5] = xy[5] /\ c[6] = xy[6] /\ c[7] = xy[7] /\ c[8] = z[1] /\ c[9] = z[2]
    <3>1. /\ c \in Seq(S) /\ Len(c) = 9
          /\ \A i \in 1..7 : c[i] = xy[i]
          /\ \A i \in 1..2 : c[7 + i] = z[i]
      <4>1. Spliced(S, c, xy, z)
        BY <2>2, <2>4, <2>5, ConcatAt
      <4>2. Len(xy) = 7
        BY <2>2, <2>4, <2>5
      <4> QED
        BY <2>2, <2>4, <4>1, <4>2 DEF Spliced
    <3>2. c[1] = xy[1] /\ c[2] = xy[2] /\ c[3] = xy[3] /\ c[4] = xy[4] /\ c[5] = xy[5] /\ c[6] = xy[6] /\ c[7] = xy[7]
      BY <3>1
    <3>3. c[7 + 1] = z[1] /\ 7 + 1 = 8
      BY <3>1
    <3>4. c[7 + 2] = z[2] /\ 7 + 2 = 9
      BY <3>1
    <3> QED
      BY <3>1, <3>2, <3>3, <3>4
  <2>7. ASSUME NEW j \in 1..9 PROVE f[j] = KindOf(c[j])
    BY <1>1, <2>2, <2>3, <2>4, <2>6
  <2> QED
    BY <2>3, <2>6, <2>7 DEF c, f, S
<1>6. CASE t = 16
  <2>1. c = <<"string", "string", "int", "string">> /\ f = <<"string", "string", "sizedInt", "string">>
    BY <1>6 DEF SchemaColumns, SchemaFields
  <2> QED
    BY <1>1, <2>1
<1>7. CASE t \notin {1, 2, 4, 11, 16, 17, 18}
  <2>1. c = <<"string", "string", "string">>
    BY <1>7 DEF SchemaColumns
  <2>2. f = IF t = 13 THEN <<"string", "string", "string">> ELSE <<>>
    BY <1>7 DEF SchemaFields
  <2> QED
    BY <1>1, <2>1, <2>2
<1>8. Right
  BY <1>2, <1>3, <1>4, <1>5, <1>6, <1>7
<1> QED
  BY <1>8

\* The rest of a list of values of any kind.
LEMMA RestOfList ==
    ASSUME NEW list, Listed(list), NEW n \in Nat, Len(list) = 2 + n
    PROVE  SubSeq(list, 3, Len(list)) = [i \in 1..n |-> list[2 + i]]
<1> DEFINE S == {list[i] : i \in 1..Len(list)}
           k == Len(list)
<1>1. k \in Nat /\ list = [i \in 1..k |-> list[i]] /\ k = 2 + n
  BY DEF Listed
<1>2. \A i \in 1..k : list[i] \in S
  OBVIOUS
<1> HIDE DEF S, k
<1>3. list \in [1..k -> S]
  BY <1>1, <1>2
<1>4. list \in Seq(S)
  BY <1>1, <1>3
<1> DEFINE rest == SubSeq(list, 3, k)
<1>5. rest \in Seq(S) /\ Len(rest) = n /\ \A i \in 1..n : rest[i] = list[2 + i]
  <2>1. Len(list) = k
    BY DEF k
  <2>2. 3 \in 1..(k + 1) /\ k \in (3 - 1)..k /\ (k - 3) + 1 = n
    BY <1>1
  <2>3. rest \in Seq(S) /\ Len(rest) = n
    BY <1>1, <1>4, <2>1, <2>2
  <2>4. ASSUME NEW i \in 1..n PROVE rest[i] = list[2 + i]
    BY <1>1, <1>4, <2>1, <2>2
  <2> QED
    BY <2>3, <2>4
<1> HIDE DEF rest
<1>6. rest = [i \in 1..n |-> list[2 + i]]
  <2>1. rest = [i \in 1..n |-> rest[i]]
    BY <1>5
  <2> QED
    BY <1>5, <2>1
<1> QED
  BY <1>6 DEF rest, k

\* A row of a schema: as many values as the schema has columns, of their types.
IsSchemaRow(t, row) ==
    /\ IsList(row) /\ Len(row) = Len(SchemaColumns(t))
    /\ \A j \in 1..Len(row) : row[j] \in SchemaValuesOf(SchemaColumns(t)[j])
SchemaCells(c, row) ==
    [j \in DOMAIN row |-> LET octets == ValueOctets(SchemaColumns(c.schemaType)[j], row[j])
                          IN  Int4(Len(octets)) \o octets]

\* A row of a schema: its number, an oid and its fields.
LEMMA SchemaRowBytes ==
    ASSUME NEW c, NEW row, IsSchemaRow(c.schemaType, row)
    PROVE  LET t == c.schemaType
               cells == SchemaCells(c, row)
           IN  /\ cells \in Seq(Bytes) /\ Len(cells) = Len(SchemaColumns(t)) /\ Len(SchemaColumns(t)) \in Nat
               /\ \A j \in 1..Len(SchemaColumns(t)) :
                     LET kind == KindOf(SchemaColumns(t)[j])
                     IN  /\ cells[j] = FieldOctets(kind, row[j]) /\ kind \in FieldKinds
                         /\ row[j] \in FieldValues(kind)
               /\ Triple(SchemaRow(c, row), Int4(1), Oid, FlattenSeq(cells))
               /\ Len(Int4(1)) = 4 /\ Len(Oid) = 8
<1> DEFINE t == c.schemaType
           columns == SchemaColumns(t)
           n == Len(columns)
           cells == SchemaCells(c, row)
<1>1. columns \in Seq(SchemaTypeNames) /\ n \in Nat
  BY SchemaShapes
<1>2. \A j \in 1..n : columns[j] \in SchemaTypeNames
  BY <1>1
<1>3. IsList(row) /\ Len(row) = n /\ \A j \in 1..n : row[j] \in SchemaValuesOf(columns[j])
  BY DEF IsSchemaRow
<1>4. DOMAIN row = 1..n
  BY <1>3, ListFacts
<1>5. cells = [j \in 1..n |-> Int4(Len(ValueOctets(columns[j], row[j]))) \o ValueOctets(columns[j], row[j])]
  BY <1>4 DEF SchemaCells
<1> HIDE DEF columns, n, cells
<1>6. ASSUME NEW j \in 1..n
      PROVE  /\ cells[j] = FieldOctets(KindOf(columns[j]), row[j]) /\ KindOf(columns[j]) \in FieldKinds
             /\ row[j] \in FieldValues(KindOf(columns[j])) /\ cells[j] \in Bytes
  <2> DEFINE type == columns[j]
  <2>1. type \in SchemaTypeNames /\ row[j] \in SchemaValuesOf(type)
    BY <1>2, <1>3
  <2>2. cells[j] = Int4(Len(ValueOctets(type, row[j]))) \o ValueOctets(type, row[j])
    BY <1>5
  <2> HIDE DEF type
  <2> QED
    BY <2>1, <2>2, SchemaPiece DEF type
<1>7. cells \in Seq(Bytes) /\ Len(cells) = n
  <2>1. cells = [j \in 1..n |-> cells[j]]
    BY <1>5
  <2> QED
    BY <1>1, <1>6, <2>1, ListOfBytes DEF n
<1> DEFINE one == Int4(1)
           rest == FlattenSeq(cells)
           all == SchemaRow(c, row)
<1>8. one \in Bytes /\ Len(one) = 4
  BY NumBytes
<1>9. Oid \in Bytes /\ Len(Oid) = 8
  BY OidBytes
<1>10. rest \in Bytes
  BY <1>7, StartProperties
<1>11. all = one \o Oid \o rest
  BY DEF SchemaRow, All, SchemaCells, cells
<1> HIDE DEF one, rest, all
<1>12. Triple(all, one, Oid, rest)
  BY <1>8, <1>9, <1>10, <1>11, TripleIs
<1> QED
  BY <1>1, <1>6, <1>7, <1>8, <1>9, <1>12 DEF columns, n, cells, one, rest, all

\* A row of a schema is read to its end, as it is.
LEMMA SchemaRowRead ==
    ASSUME buffer \in Bytes, NEW row, IsSchemaRow(call.schemaType, row), SchemaFields(call.schemaType) # <<>>,
           NEW o, At(buffer, o, SchemaRow(call, row))
    PROVE  LET r == Parse(<<"int", "oid">> \o SchemaFields(call.schemaType), o)
           IN  /\ r.offset = o + Len(SchemaRow(call, row))
               /\ SubSeq(r.value, 3, Len(r.value)) = row
<1> DEFINE t == call.schemaType
           n == Len(SchemaColumns(t))
           kinds == SchemaFields(t)
           cells == SchemaCells(call, row)
           one == Int4(1)
           all == SchemaRow(call, row)
           ends == [j \in 0..n |-> (o + 12) + Start(cells, j)]
<1>1. /\ cells \in Seq(Bytes) /\ Len(cells) = n /\ n \in Nat
      /\ \A j \in 1..n : LET kind == KindOf(SchemaColumns(t)[j])
                         IN  /\ cells[j] = FieldOctets(kind, row[j]) /\ kind \in FieldKinds
                             /\ row[j] \in FieldValues(kind)
  BY SchemaRowBytes
<1>2. Triple(all, one, Oid, FlattenSeq(cells)) /\ Len(one) = 4 /\ Len(Oid) = 8
  BY SchemaRowBytes
<1>3. kinds \in Seq(FieldKinds) /\ Len(kinds) = n /\ \A j \in 1..n : kinds[j] = KindOf(SchemaColumns(t)[j])
  BY SchemaShapes
<1>4. row = [j \in 1..n |-> row[j]]
  BY DEF IsSchemaRow, IsList
<1> HIDE DEF cells, one, all, kinds, n, t
<1>5. At(buffer, o, all) /\ o \in Nat
  BY DEF At, all
<1>6. At(buffer, o + 12, FlattenSeq(cells)) /\ Len(all) = 12 + Len(FlattenSeq(cells))
  <2>1. At(buffer, o + (Len(one) + Len(Oid)), FlattenSeq(cells))
    BY <1>2, <1>5 DEF Triple
  <2>2. Len(one) + Len(Oid) = 12
    BY <1>2
  <2>3. Len(all) = Len(one) + Len(Oid) + Len(FlattenSeq(cells))
    BY <1>2 DEF Triple
  <2> QED
    BY <2>1, <2>2, <2>3
<1>7. /\ \A k \in 0..n : Start(cells, k) \in Nat
      /\ Start(cells, 0) = 0
      /\ \A k \in 1..n : Start(cells, k) = Start(cells, k - 1) + Len(cells[k])
      /\ Len(FlattenSeq(cells)) = Start(cells, n)
  BY <1>1, StartProperties
<1>8. ends[0] = o + 12 /\ ends[0] \in Int /\ ends[n] = (o + 12) + Start(cells, n)
  BY <1>1, <1>5, <1>7
<1>9. ASSUME NEW j \in 1..n
      PROVE  /\ row[j] \in FieldValues(kinds[j])
             /\ At(buffer, ends[j - 1], FieldOctets(kinds[j], row[j]))
             /\ ends[j] = ends[j - 1] + Len(FieldOctets(kinds[j], row[j]))
  <2>1. j \in 0..n /\ j - 1 \in 0..n
    BY <1>1
  <2> DEFINE x == (o + 12) + Start(cells, j - 1)
  <2>2. ends[j - 1] = x /\ ends[j] = (o + 12) + Start(cells, j)
    BY <2>1
  <2>3. At(buffer, x, cells[j])
    BY <1>1, <1>6, PartsAt
  <2>4. cells[j] \in Bytes /\ Len(cells[j]) \in Nat
    <3>1. cells[j] \in Bytes
      BY <1>1
    <3> QED
      BY <3>1, BytesProperties
  <2>5. ends[j] = x + Len(cells[j])
    <3> DEFINE size == Len(cells[j])
               before == Start(cells, j - 1)
    <3>1. Start(cells, j) = before + size
      BY <1>7
    <3>2. before \in Nat /\ size \in Nat
      BY <1>7, <2>1, <2>4
    <3> HIDE DEF size, before
    <3>3. (o + 12) + (before + size) = ((o + 12) + before) + size
      BY <1>5, <3>2
    <3> QED
      BY <2>2, <3>1, <3>3 DEF size, before
  <2> HIDE DEF x, ends
  <2>6. kinds[j] = KindOf(SchemaColumns(t)[j])
    BY <1>3
  <2>7. cells[j] = FieldOctets(kinds[j], row[j]) /\ row[j] \in FieldValues(kinds[j])
    BY <1>1, <2>6
  <2> QED
    BY <2>2, <2>3, <2>5, <2>7
<1> HIDE DEF ends
<1>10. Parse(kinds, ends[0]) = ReadAs(row, ends[n])
  <2>1. kinds \in Seq(FieldKinds) /\ ends[0] \in Int /\ row = [j \in 1..Len(kinds) |-> row[j]]
    BY <1>3, <1>4, <1>8
  <2>2. \A j \in 1..Len(kinds) : /\ row[j] \in FieldValues(kinds[j])
                                 /\ At(buffer, ends[j - 1], FieldOctets(kinds[j], row[j]))
                                 /\ ends[j] = ends[j - 1] + Len(FieldOctets(kinds[j], row[j]))
    BY <1>3, <1>9
  <2>3. Parse(kinds, ends[0]) = ReadAs(row, ends[Len(kinds)])
    BY <2>1, <2>2, ParseRead
  <2> QED
    BY <1>3, <2>3
<1> DEFINE head == <<"int", "oid">>
           r == Parse(head \o kinds, o)
<1>11. Parse(head, o).offset = o + 12 /\ head \in Seq(FieldKinds) /\ Len(head) = 2 /\ o \in Int
  BY <1>5, RowHead DEF FieldKinds
<1> HIDE DEF head
<1>12. /\ head \o kinds \in Seq(FieldKinds) /\ Len(head \o kinds) = 2 + n
       /\ r.offset = Parse(kinds, o + 12).offset
       /\ \A i \in 1..n : r.value[2 + i] = Parse(kinds, o + 12).value[i]
  <2> DEFINE mid == o + 12
  <2>1. mid = Parse(head, o).offset
    BY <1>11
  <2> HIDE DEF mid
  <2>2. head \in Seq(FieldKinds) /\ kinds \in Seq(FieldKinds) /\ o \in Int /\ buffer \in Bytes
    BY <1>3, <1>11
  <2>3. head \o kinds \in Seq(FieldKinds) /\ Len(head \o kinds) = Len(head) + Len(kinds)
    BY <2>1, <2>2, ParseJoin
  <2>4. Parse(head \o kinds, o).offset = Parse(kinds, mid).offset
    BY <2>1, <2>2, ParseJoin
  <2>5. \A i \in 1..Len(kinds) : Parse(head \o kinds, o).value[Len(head) + i] = Parse(kinds, mid).value[i]
    BY <2>1, <2>2, ParseJoin
  <2> QED
    BY <1>3, <1>11, <2>3, <2>4, <2>5 DEF mid
<1>13. Listed(r.value) /\ Len(r.value) = 2 + n
  BY <1>11, <1>12, ParseShape
<1>14. SubSeq(r.value, 3, Len(r.value)) = [i \in 1..n |-> r.value[2 + i]]
  <2> HIDE DEF r
  <2> QED
    BY <1>1, <1>13, RestOfList
<1>15. Parse(kinds, o + 12).offset = ends[n] /\ Parse(kinds, o + 12).value = row
  BY <1>8, <1>10 DEF ReadAs
<1>16. r.offset = o + Len(all)
  <2>1. n \in 0..n
    BY <1>1
  <2>2. Start(cells, n) \in Nat
    BY <1>7, <2>1
  <2> QED
    BY <1>5, <1>6, <1>7, <1>8, <1>12, <1>15, <2>2
<1>17. SubSeq(r.value, 3, Len(r.value)) = row
  <2>1. \A i \in 1..n : r.value[2 + i] = row[i]
    BY <1>12, <1>15
  <2> HIDE DEF r
  <2> QED
    BY <1>4, <1>14, <2>1
<1> QED
  BY <1>16, <1>17 DEF head, kinds, all, t

-----------------------------------------------------------------------------
(* The columns of a schema, the rows of its fetch and the results of a batch. *)

\* The column of a schema is read to its end.
LEMMA SchemaColumnRead ==
    ASSUME NEW type \in SchemaTypeNames
    PROVE  /\ SchemaColumnOctets(type) \in Bytes
           /\ buffer \in Bytes /\ stage = "requestSchema" =>
                 \A o : At(buffer, o, SchemaColumnOctets(type)) =>
                    Parse(ColumnFields, ParseColumnType(o).offset).offset = o + Len(SchemaColumnOctets(type))
<1> DEFINE col == [type |-> type, wide |-> TRUE]
           t == TypeOctets(col)
           scale == Octets(0, 2)
           precision == Int4(10)
           label == <<1>>
           name == Text(label)
           all == SchemaColumnOctets(type)
<1>1. all = t \o scale \o precision \o name
  BY DEF SchemaColumnOctets
<1>2. col.type \in Types /\ col.wide \in BOOLEAN /\ (col.wide \/ CUBRIDDataType[col.type] < Masked)
  BY SchemaTypesKnown
<1>3. scale \in Bytes /\ Len(scale) = 2 /\ precision \in Bytes /\ Len(precision) = 4
  BY ColumnParts
<1>4. name \in Bytes /\ label \in Texts
  BY ColumnParts
<1> HIDE DEF col, t, scale, precision, label, name, all
<1>5. t \in Bytes
  BY <1>2, TypeRead DEF t
<1>6. Quad(all, t, scale, precision, name)
  BY <1>1, <1>3, <1>4, <1>5, QuadIs
<1>7. Len(all) = Len(t) + 6 + Len(name) /\ Len(t) \in Nat /\ Len(name) \in Nat
  <2>1. Len(all) = Len(t) + Len(scale) + Len(precision) + Len(name) /\ Len(t) \in Nat /\ Len(name) \in Nat
    BY <1>6 DEF Quad
  <2> QED
    BY <1>3, <2>1
<1>8. ASSUME buffer \in Bytes, stage = "requestSchema", NEW o, At(buffer, o, all)
      PROVE  Parse(ColumnFields, ParseColumnType(o).offset).offset = o + Len(all)
  <2>1. /\ At(buffer, o, t) /\ At(buffer, o + Len(t), scale) /\ At(buffer, o + (Len(t) + Len(scale)), precision)
        /\ At(buffer, o + (Len(t) + Len(scale) + Len(precision)), name)
    BY <1>6, <1>8 DEF Quad
  <2>2. o \in Nat
    BY <1>8 DEF At
  <2> DEFINE o1 == o + Len(t)
             o2 == o1 + 2
             o3 == o2 + 4
             o4 == o3 + Len(name)
  <2>3. o1 \in Int /\ o + Len(t) = o1 /\ o2 = o1 + 2 /\ o3 = o2 + 4 /\ o4 = o3 + Len(name)
    BY <1>7, <2>2
  <2>4. /\ o + (Len(t) + Len(scale)) = o2 /\ o + (Len(t) + Len(scale) + Len(precision)) = o3
        /\ o4 = o + Len(all)
    BY <1>3, <1>7, <2>2
  <2> HIDE DEF o1, o2, o3, o4
  <2>5. ParseColumnType(o) = ReadAs(CUBRIDDataType[col.type], o1)
    <3>1. ParseColumnType(o) = ReadAs(CUBRIDDataType[col.type], o + Len(TypeOctets(col)))
      BY <1>2, <1>8, <2>1, TypeRead DEF t
    <3> QED
      BY <2>3, <3>1 DEF t
  <2>6. ParseField("short", o1) = ReadAs(0, o2)
    BY <1>8, <2>1, <2>3, ColumnParts, FieldAt DEF scale
  <2>7. ParseField("int", o2) = ReadAs(10, o3)
    BY <1>8, <2>1, <2>3, <2>4, ColumnParts, FieldAt DEF precision
  <2>8. ParseField("string", o3) = ReadAs(label, o4)
    BY <1>4, <1>8, <2>1, <2>3, <2>4, FieldAt DEF name
  <2>9. "short" \in FieldKinds /\ "int" \in FieldKinds /\ "string" \in FieldKinds
    BY DEF FieldKinds
  <2>10. Parse(<<"short", "int", "string">>, o1) = ReadAs(<<0, 10, label>>, o4)
    BY <1>8, <2>3, <2>6, <2>7, <2>8, <2>9, ThreeFields
  <2>11. ColumnFields = <<"short", "int", "string">>
    BY <1>8 DEF ColumnFields
  <2> QED
    BY <2>4, <2>5, <2>10, <2>11 DEF ReadAs
<1> QED
  BY <1>6, <1>8 DEF Quad, all

\* The columns of a schema, as the server sends them.
SentSchema(t) == [i \in DOMAIN SchemaColumns(t) |-> SchemaColumnOctets(SchemaColumns(t)[i])]

\* The columns of a schema.
LEMMA SchemaColumnsBytes ==
    ASSUME NEW t
    PROVE  /\ SentSchema(t) \in Seq(Bytes) /\ Len(SentSchema(t)) = Len(SchemaColumns(t))
           /\ Len(SchemaColumns(t)) \in Nat /\ Len(SchemaColumns(t)) \in Ints
           /\ \A i \in 1..Len(SchemaColumns(t)) :
                 /\ SchemaColumns(t)[i] \in SchemaTypeNames
                 /\ SentSchema(t)[i] = SchemaColumnOctets(SchemaColumns(t)[i])
           /\ FlattenSeq(SentSchema(t)) \in Bytes
<1> DEFINE columns == SchemaColumns(t)
           n == Len(columns)
           parts == SentSchema(t)
<1>1. columns \in Seq(SchemaTypeNames) /\ n \in 1..13
  BY SchemaShapes
<1>2. n \in Nat /\ DOMAIN columns = 1..n /\ \A i \in 1..n : columns[i] \in SchemaTypeNames
  BY <1>1
<1>3. n \in Ints
  <2> HIDE DEF n
  <2>1. n \in (-16)..15
    BY <1>1
  <2> QED
    BY <2>1, FewInts
<1>4. parts = [i \in 1..n |-> SchemaColumnOctets(columns[i])]
  BY <1>2 DEF SentSchema
<1> HIDE DEF columns, n, parts
<1>5. parts \in Seq(Bytes) /\ Len(parts) = n
  <2>1. \A i \in 1..n : parts[i] \in Bytes
    BY <1>2, <1>4, SchemaColumnRead
  <2>2. parts = [i \in 1..n |-> parts[i]]
    BY <1>4
  <2> QED
    BY <1>2, <2>1, <2>2, ListOfBytes
<1>6. FlattenSeq(parts) \in Bytes
  BY <1>5, StartProperties
<1> QED
  BY <1>2, <1>3, <1>4, <1>5, <1>6 DEF columns, n, parts

\* The rows of a schema, as the server sends them.
SentSchemaRows(c) == [i \in DOMAIN c.rows |-> SchemaRow(c, c.rows[i])]

\* The rows of a schema.
LEMMA SchemaRowsBytes ==
    ASSUME NEW c, IsSchema(c)
    PROVE  /\ SentSchemaRows(c) \in Seq(Bytes) /\ Len(SentSchemaRows(c)) = Len(c.rows)
           /\ Len(c.rows) \in Nat /\ Len(c.rows) \in Ints
           /\ \A i \in 1..Len(c.rows) :
                 SentSchemaRows(c)[i] = SchemaRow(c, c.rows[i]) /\ IsSchemaRow(c.schemaType, c.rows[i])
           /\ FlattenSeq(SentSchemaRows(c)) \in Bytes
<1> DEFINE n == Len(c.rows)
           parts == SentSchemaRows(c)
<1>1. IsList(c.rows) /\ \A i \in 1..n : IsSchemaRow(c.schemaType, c.rows[i])
  BY DEF IsSchema, IsSchemaRow
<1>2. n \in Nat /\ n \in Ints /\ DOMAIN c.rows = 1..n
  BY <1>1, ListFacts
<1>3. parts = [i \in 1..n |-> SchemaRow(c, c.rows[i])]
  BY <1>2 DEF SentSchemaRows
<1> HIDE DEF parts, n
<1>4. \A i \in 1..n : parts[i] = SchemaRow(c, c.rows[i])
  BY <1>3
<1>5. parts \in Seq(Bytes) /\ Len(parts) = n
  <2>1. ASSUME NEW i \in 1..n PROVE parts[i] \in Bytes
    <3> DEFINE row == c.rows[i]
    <3>1. IsSchemaRow(c.schemaType, row)
      BY <1>1
    <3> HIDE DEF row
    <3>2. Triple(SchemaRow(c, row), Int4(1), Oid, FlattenSeq(SchemaCells(c, row)))
      BY <3>1, SchemaRowBytes
    <3> QED
      BY <1>4, <3>2 DEF Triple, row
  <2>2. parts = [i \in 1..n |-> parts[i]]
    BY <1>3
  <2> QED
    BY <1>2, <2>1, <2>2, ListOfBytes
<1>6. FlattenSeq(parts) \in Bytes
  BY <1>5, StartProperties
<1> QED
  BY <1>1, <1>2, <1>4, <1>5, <1>6 DEF parts, n

\* What the server sends of a statement of a batch behind its type and count.
ResultRest(c, result) ==
    IF result.count < 0
    THEN (IF c.version > 2 THEN Int4(result.error.code) ELSE <<>>) \o Text(result.error.message)
    ELSE Oid

\* The result of one statement of a batch, in each version of the protocol.
LEMMA ResultBytes ==
    ASSUME NEW c, NEW result, result.count \in Ints, IsError(result.error)
    PROVE  /\ Triple(BatchOctets(c, result), <<20>>, Int4(result.count), ResultRest(c, result))
           /\ Len(<<20>>) = 1 /\ Len(Int4(result.count)) = 4 /\ 20 \in Byte
           /\ result.error.code \in Ints /\ result.error.message \in Texts
           /\ result.error = [code |-> result.error.code, message |-> result.error.message]
           /\ result.count < 0 /\ c.version > 2 =>
                 /\ Pair(ResultRest(c, result), Int4(result.error.code), Text(result.error.message))
                 /\ Len(Int4(result.error.code)) = 4
           /\ result.count < 0 /\ ~(c.version > 2) => ResultRest(c, result) = Text(result.error.message)
           /\ ~(result.count < 0) => ResultRest(c, result) = Oid /\ Len(Oid) = 8
<1> DEFINE type == <<20>>
           count == Int4(result.count)
           code == Int4(result.error.code)
           message == Text(result.error.message)
           none == <<>>
           rest == ResultRest(c, result)
           all == BatchOctets(c, result)
<1>1. /\ result.error.code \in Ints /\ result.error.message \in Texts
      /\ result.error = [code |-> result.error.code, message |-> result.error.message]
  BY DEF IsError
<1>2. 20 \in Byte /\ none \in Bytes /\ Len(none) = 0
  BY FewBytes
<1>3. type \in Bytes /\ Len(type) = 1
  BY <1>2, ByteBytes
<1>4. count \in Bytes /\ Len(count) = 4
  <2>1. result.count \in Int
    BY SpansAreInts
  <2> QED
    BY <2>1, NumBytes
<1>5. code \in Bytes /\ Len(code) = 4
  <2>1. result.error.code \in Int
    BY <1>1, SpansAreInts
  <2> QED
    BY <2>1, NumBytes
<1>6. message \in Bytes
  BY <1>1, TextsAreBytes, TextBytes
<1>7. all = type \o count \o rest
  BY DEF BatchOctets, ResultRest
<1>8. rest = IF result.count < 0 THEN (IF c.version > 2 THEN code ELSE none) \o message ELSE Oid
  BY DEF ResultRest
<1>9. Oid \in Bytes /\ Len(Oid) = 8
  BY OidBytes
<1> HIDE DEF type, count, code, message, none, rest, all
<1>10. ASSUME result.count < 0, c.version > 2 PROVE Pair(rest, code, message)
  <2>1. rest = code \o message
    BY <1>8, <1>10
  <2> QED
    BY <1>5, <1>6, <2>1, PairIs
<1>11. ASSUME result.count < 0, ~(c.version > 2) PROVE rest = message
  <2>1. rest = none \o message
    BY <1>8, <1>11
  <2>2. none \o message = message
    BY <1>6, ConcatEmptySeq DEF none, Bytes
  <2> QED
    BY <2>1, <2>2
<1>12. ~(result.count < 0) => rest = Oid
  BY <1>8
<1>13. rest \in Bytes
  BY <1>6, <1>9, <1>10, <1>11, <1>12 DEF Pair
<1>14. Triple(all, type, count, rest)
  BY <1>3, <1>4, <1>7, <1>13, TripleIs
<1> QED
  BY <1>1, <1>2, <1>3, <1>4, <1>5, <1>9, <1>10, <1>11, <1>12, <1>14 DEF type, count, code, message, rest, all

\* The result of a statement of a batch is read to its end: the rows it changed
\* or its error.
LEMMA ResultRead ==
    ASSUME buffer \in Bytes, NEW result, result.count \in Ints, IsError(result.error),
           result.count < 0 /\ ~(call.version > 2) => result.error.code = result.count,
           NEW o, At(buffer, o, BatchOctets(call, result))
    PROVE  LET head == Parse(<<"byte", "int">>, o)
               number == IF call.version > 2 THEN ParseInt(buffer, head.offset)
                         ELSE ReadAs(head.value[2], head.offset)
               message == Parse(<<"string">>, number.offset)
           IN  /\ head.value[2] = result.count
               /\ result.count < 0 =>
                     /\ message.offset = o + Len(BatchOctets(call, result))
                     /\ [code |-> number.value, message |-> message.value[1]] = result.error
               /\ ~(result.count < 0) =>
                     Parse(<<"int", "short", "short">>, head.offset).offset = o + Len(BatchOctets(call, result))
<1> DEFINE type == <<20>>
           count == Int4(result.count)
           code == Int4(result.error.code)
           text == result.error.message
           message == Text(text)
           rest == ResultRest(call, result)
           all == BatchOctets(call, result)
           head == Parse(<<"byte", "int">>, o)
<1>1. /\ Triple(all, type, count, rest) /\ Len(type) = 1 /\ Len(count) = 4 /\ 20 \in Byte
      /\ result.error.code \in Ints /\ text \in Texts /\ result.error = [code |-> result.error.code, message |-> text]
      /\ result.count < 0 /\ call.version > 2 => Pair(rest, code, message) /\ Len(code) = 4
      /\ result.count < 0 /\ ~(call.version > 2) => rest = message
      /\ ~(result.count < 0) => rest = Oid /\ Len(Oid) = 8
  BY ResultBytes
<1> HIDE DEF all, rest
<1>2. o \in Nat
  BY DEF At, all
<1>3. /\ At(buffer, o, type) /\ At(buffer, o + Len(type), count) /\ At(buffer, o + (Len(type) + Len(count)), rest)
      /\ Len(all) = Len(type) + Len(count) + Len(rest) /\ Len(rest) \in Nat
  <2>1. At(buffer, o, all)
    BY DEF all
  <2> HIDE DEF type, count
  <2> QED
    BY <1>1, <2>1 DEF Triple
<1> HIDE DEF type, count, code, message
<1>4. At(buffer, o + 1, count) /\ At(buffer, o + 5, rest) /\ Len(all) = 5 + Len(rest)
  BY <1>1, <1>3
<1>5. ParseField("byte", o) = ReadAs(20, o + 1)
  BY <1>1, <1>3, FieldAt DEF type
<1>6. ParseField("int", o + 1) = ReadAs(result.count, o + 5)
  <2>1. ParseField("int", o + 1) = ReadAs(result.count, (o + 1) + 4)
    BY <1>4, FieldAt DEF count
  <2> QED
    BY <1>2, <2>1
<1>7. "byte" \in FieldKinds /\ "int" \in FieldKinds /\ "short" \in FieldKinds /\ "string" \in FieldKinds
  BY DEF FieldKinds
<1>8. head = ReadAs(<<20, result.count>>, o + 5)
  BY <1>2, <1>5, <1>6, <1>7, TwoFields
<1> HIDE DEF head
<1>9. head.value[2] = result.count /\ head.offset = o + 5
  BY <1>8 DEF ReadAs
<1> DEFINE number == IF call.version > 2 THEN ParseInt(buffer, head.offset)
                     ELSE ReadAs(head.value[2], head.offset)
           said == Parse(<<"string">>, number.offset)
<1>10. ASSUME result.count < 0
       PROVE  said.offset = o + Len(all) /\ [code |-> number.value, message |-> said.value[1]] = result.error
  <2> DEFINE at == number.offset
  <2>1. number.value = result.error.code /\ at \in Nat /\ At(buffer, at, message) /\ at + Len(message) = o + Len(all)
    <3>1. CASE call.version > 2
      <4>1. At(buffer, o + 5, code) /\ At(buffer, (o + 5) + Len(code), message) /\ Len(rest) = Len(code) + Len(message)
            /\ Len(message) \in Nat
        <5>1. Pair(rest, code, message)
          BY <1>1, <1>10, <3>1
        <5> QED
          BY <1>4, <5>1 DEF Pair
      <4>2. Len(code) = 4
        BY <1>1, <1>10, <3>1
      <4>3. ParseInt(buffer, o + 5) = ReadAs(result.error.code, (o + 5) + 4)
        BY <1>1, <4>1, ReadWhatIsAt DEF code
      <4>4. number = ReadAs(result.error.code, o + 9)
        BY <1>2, <1>9, <3>1, <4>3
      <4> QED
        BY <1>2, <1>4, <4>1, <4>2, <4>4 DEF ReadAs
    <3>2. CASE ~(call.version > 2)
      <4>1. rest = message
        BY <1>1, <1>10, <3>2
      <4>2. number = ReadAs(result.error.code, o + 5)
        BY <1>9, <1>10, <3>2
      <4> QED
        BY <1>2, <1>3, <1>4, <4>1, <4>2 DEF ReadAs
    <3> QED
      BY <3>1, <3>2
  <2> HIDE DEF at, number
  <2>2. ParseField("string", at) = ReadAs(text, at + Len(message))
    BY <1>1, <2>1, FieldAt DEF message
  <2>3. Parse(<<"string">>, at) = ReadAs(<<text>>, at + Len(message))
    BY <1>7, <2>1, <2>2, OneField
  <2> QED
    BY <1>1, <2>1, <2>3 DEF at, ReadAs
<1>11. ASSUME ~(result.count < 0) PROVE Parse(<<"int", "short", "short">>, head.offset).offset = o + Len(all)
  <2> DEFINE at == o + 5
             v1 == ParseField("int", at).value
             v2 == ParseField("short", at + 4).value
             v3 == ParseField("short", (at + 4) + 2).value
             e == ((at + 4) + 2) + 2
  <2>1. at \in Int /\ at + 4 \in Int /\ e = o + Len(all)
    <3>1. Len(rest) = 8
      BY <1>1, <1>11
    <3> QED
      BY <1>2, <1>4, <3>1
  <2>2. ParseField("int", at) = ReadAs(v1, at + 4)
    BY FieldOf DEF ParseInt, ParseNum, ReadAs
  <2>3. ParseField("short", at + 4) = ReadAs(v2, (at + 4) + 2)
    BY FieldOf DEF ParseShort, ParseNum, ReadAs
  <2>4. ParseField("short", (at + 4) + 2) = ReadAs(v3, e)
    BY FieldOf DEF ParseShort, ParseNum, ReadAs
  <2> HIDE DEF v1, v2, v3, e, at
  <2>5. Parse(<<"int", "short", "short">>, at) = ReadAs(<<v1, v2, v3>>, e)
    BY <1>7, <2>1, <2>2, <2>3, <2>4, ThreeFields
  <2> QED
    BY <1>9, <2>1, <2>5 DEF at, ReadAs
<1> QED
  BY <1>9, <1>10, <1>11 DEF head, all

\* The statements of a batch, as the server answers them.
SentResults(c) == [i \in DOMAIN c.results |-> BatchOctets(c, c.results[i])]

\* The results of a batch.
LEMMA ResultsBytes ==
    ASSUME NEW c, IsBatch(c)
    PROVE  /\ SentResults(c) \in Seq(Bytes) /\ Len(SentResults(c)) = Len(c.results)
           /\ Len(c.results) \in Nat /\ Len(c.results) \in Ints
           /\ \A i \in 1..Len(c.results) :
                 /\ SentResults(c)[i] = BatchOctets(c, c.results[i])
                 /\ c.results[i].count \in Ints /\ IsError(c.results[i].error)
                 /\ c.results[i].count < 0 /\ ~(c.version > 2) /\ c.version \in Nat =>
                       c.results[i].error.code = c.results[i].count
           /\ FlattenSeq(SentResults(c)) \in Bytes
<1> DEFINE n == Len(c.results)
           parts == SentResults(c)
<1>1. IsList(c.results)
      /\ \A i \in 1..n : /\ c.results[i].count \in Ints /\ IsError(c.results[i].error)
                         /\ c.results[i].count < 0 /\ c.version <= 2 => c.results[i].error.code = c.results[i].count
  BY DEF IsBatch
<1>2. n \in Nat /\ n \in Ints /\ DOMAIN c.results = 1..n
  BY <1>1, ListFacts
<1>3. parts = [i \in 1..n |-> BatchOctets(c, c.results[i])]
  BY <1>2 DEF SentResults
<1> HIDE DEF parts, n
<1>4. \A i \in 1..n : parts[i] = BatchOctets(c, c.results[i])
  BY <1>3
<1>5. parts \in Seq(Bytes) /\ Len(parts) = n
  <2>1. ASSUME NEW i \in 1..n PROVE parts[i] \in Bytes
    <3> DEFINE result == c.results[i]
    <3>1. result.count \in Ints /\ IsError(result.error)
      BY <1>1
    <3> HIDE DEF result
    <3>2. Triple(BatchOctets(c, result), <<20>>, Int4(result.count), ResultRest(c, result))
      BY <3>1, ResultBytes
    <3> QED
      BY <1>4, <3>2 DEF Triple, result
  <2>2. parts = [i \in 1..n |-> parts[i]]
    BY <1>3
  <2> QED
    BY <1>2, <2>1, <2>2, ListOfBytes
<1>6. FlattenSeq(parts) \in Bytes
  BY <1>5, StartProperties
<1>7. c.version \in Nat /\ ~(c.version > 2) => c.version <= 2
  OBVIOUS
<1> QED
  BY <1>1, <1>2, <1>4, <1>5, <1>6, <1>7 DEF parts, n

-----------------------------------------------------------------------------
(* The responses.                                                            *)

\* The body of each response.
LEMMA BodyOf ==
    ASSUME NEW c
    PROVE  /\ Body(c, "execute") = StatementOctets(c) \o Int4(Len(c.rows)) \o ResultOctets(c)
           /\ Body(c, "prepare") = StatementOctets(c)
           /\ Body(c, "executePrepared") = Int4(Len(c.rows)) \o ResultOctets(c)
           /\ Body(c, "fetch") = Int4(0) \o RowsFrom(c, c.first + 1, Len(c.rows))
           /\ Body(c, "requestSchema") =
                 Int4(c.handle) \o Int4(Len(c.rows)) \o Int4(Len(SchemaColumns(c.schemaType)))
                    \o FlattenSeq(SentSchema(c.schemaType))
           /\ Body(c, "fetchSchema") = Int4(0) \o Int4(Len(c.rows)) \o FlattenSeq(SentSchemaRows(c))
           /\ Body(c, "batch") =
                 Int4(0) \o Int4(Len(c.results)) \o FlattenSeq(SentResults(c)) \o ShardOctets(c)
           /\ Body(c, "openDatabase") =
                 Int4(0) \o <<1, 1, 1, 0, Indicator + c.version, 0, 0, 0>> \o Int4(c.number)
           /\ Body(c, "engineVersion") = Int4(0) \o c.text \o <<0>>
           /\ Body(c, "dbParameter") = Int4(0) \o Int4(c.number)
           /\ Body(c, "responseCode") = Int4(c.number)
           /\ Body(c, "lobNew") = Int4(0) \o LobOctets("blob", c.lob)
           /\ Body(c, "lobRead") = Int4(Len(c.text)) \o c.text
BY DEF Body, All, SentSchema, SentSchemaRows, SentResults, ShardOctets

\* The responses of a statement.
LEMMA StatementBodies ==
    ASSUME NEW c, IsStatement(c)
    PROVE  /\ Triple(Body(c, "execute"), StatementOctets(c), Int4(Len(c.rows)), ResultOctets(c))
           /\ Body(c, "prepare") = StatementOctets(c) /\ Body(c, "prepare") \in Bytes
           /\ Pair(Body(c, "executePrepared"), Int4(Len(c.rows)), ResultOctets(c))
           /\ Pair(Body(c, "fetch"), Int4(0), RowsFrom(c, c.first + 1, Len(c.rows)))
           /\ Len(Int4(Len(c.rows))) = 4 /\ Len(Int4(0)) = 4
           /\ c.first \in Nat /\ Len(c.rows) \in Nat /\ Len(c.rows) \in Ints /\ c.first <= Len(c.rows)
           /\ c.handle \in Ints /\ c.handle \in Nat /\ c.statementType \in Byte
<1> DEFINE statement == StatementOctets(c)
           count == Int4(Len(c.rows))
           result == ResultOctets(c)
           zero == Int4(0)
           rows == RowsFrom(c, c.first + 1, Len(c.rows))
<1>1. /\ IsList(c.rows) /\ c.first \in 0..Len(c.rows) /\ c.handle \in Lengths /\ c.statementType \in 0..(Base - 1)
  BY DEF IsStatement
<1>2. Len(c.rows) \in Nat /\ Len(c.rows) \in Ints
  BY <1>1, ListFacts
<1>3. c.first \in Nat /\ c.first <= Len(c.rows)
  BY <1>1, <1>2
<1>4. c.handle \in Ints /\ c.handle \in Nat /\ c.statementType \in Byte
  BY <1>1, SpansAreInts DEF Byte
<1>5. statement \in Bytes
  BY StatementLayout
<1>6. result \in Bytes
  BY ResultLayout
<1>7. count \in Bytes /\ Len(count) = 4
  <2>1. Len(c.rows) \in Int
    BY <1>2
  <2> QED
    BY <2>1, NumBytes
<1>8. zero \in Bytes /\ Len(zero) = 4
  BY NumBytes
<1>9. rows \in Bytes
  <2>1. c.first + 1 \in Nat /\ Len(c.rows) \in Nat /\ c.first + 1 > 0 /\ c.first + 1 <= Len(c.rows) + 1
        /\ Len(c.rows) <= Len(c.rows)
    BY <1>2, <1>3
  <2> QED
    BY <2>1, RowsBytes DEF Pair
<1> HIDE DEF statement, count, result, zero, rows
<1>10. /\ Body(c, "execute") = statement \o count \o result /\ Body(c, "prepare") = statement
       /\ Body(c, "executePrepared") = count \o result /\ Body(c, "fetch") = zero \o rows
  BY BodyOf DEF statement, count, result, zero, rows
<1>11. Triple(Body(c, "execute"), statement, count, result)
  BY <1>5, <1>6, <1>7, <1>10, TripleIs
<1>12. Pair(Body(c, "executePrepared"), count, result)
  BY <1>6, <1>7, <1>10, PairIs
<1>13. Pair(Body(c, "fetch"), zero, rows)
  BY <1>8, <1>9, <1>10, PairIs
<1> QED
  BY <1>2, <1>3, <1>4, <1>5, <1>7, <1>8, <1>10, <1>11, <1>12, <1>13 DEF statement, count, result, zero, rows

\* The responses of a schema.
LEMMA SchemaBodies ==
    ASSUME NEW c, IsSchema(c)
    PROVE  LET columns == SchemaColumns(c.schemaType)
           IN  /\ Quad(Body(c, "requestSchema"), Int4(c.handle), Int4(Len(c.rows)), Int4(Len(columns)),
                       FlattenSeq(SentSchema(c.schemaType)))
               /\ Triple(Body(c, "fetchSchema"), Int4(0), Int4(Len(c.rows)), FlattenSeq(SentSchemaRows(c)))
               /\ Len(Int4(c.handle)) = 4 /\ Len(Int4(Len(c.rows))) = 4 /\ Len(Int4(Len(columns))) = 4
               /\ Len(Int4(0)) = 4 /\ c.handle \in Ints /\ c.handle \in Nat
<1> DEFINE columns == SchemaColumns(c.schemaType)
           handle == Int4(c.handle)
           count == Int4(Len(c.rows))
           width == Int4(Len(columns))
           sent == FlattenSeq(SentSchema(c.schemaType))
           zero == Int4(0)
           rows == FlattenSeq(SentSchemaRows(c))
<1>1. c.handle \in Ints /\ c.handle \in Nat
  BY SpansAreInts DEF IsSchema
<1>2. handle \in Bytes /\ Len(handle) = 4
  BY <1>1, NumBytes
<1>3. count \in Bytes /\ Len(count) = 4
  <2>1. Len(c.rows) \in Int
    BY SchemaRowsBytes
  <2> QED
    BY <2>1, NumBytes
<1>4. width \in Bytes /\ Len(width) = 4 /\ sent \in Bytes
  <2>1. Len(columns) \in Int /\ sent \in Bytes
    BY SchemaColumnsBytes
  <2> QED
    BY <2>1, NumBytes
<1>5. rows \in Bytes
  BY SchemaRowsBytes
<1>6. zero \in Bytes /\ Len(zero) = 4
  BY NumBytes
<1>7. Body(c, "requestSchema") = handle \o count \o width \o sent /\ Body(c, "fetchSchema") = zero \o count \o rows
  BY BodyOf
<1> HIDE DEF handle, count, width, sent, zero, rows
<1>8. Quad(Body(c, "requestSchema"), handle, count, width, sent)
  BY <1>2, <1>3, <1>4, <1>7, QuadIs
<1>9. Triple(Body(c, "fetchSchema"), zero, count, rows)
  BY <1>3, <1>5, <1>6, <1>7, TripleIs
<1> QED
  BY <1>1, <1>2, <1>3, <1>4, <1>6, <1>8, <1>9 DEF handle, count, width, sent, zero, rows

\* The response of a batch.
LEMMA BatchBody ==
    ASSUME NEW c, IsBatch(c)
    PROVE  /\ Quad(Body(c, "batch"), Int4(0), Int4(Len(c.results)), FlattenSeq(SentResults(c)), ShardOctets(c))
           /\ Len(Int4(0)) = 4 /\ Len(Int4(Len(c.results))) = 4
<1> DEFINE zero == Int4(0)
           count == Int4(Len(c.results))
           sent == FlattenSeq(SentResults(c))
           shard == ShardOctets(c)
<1>1. zero \in Bytes /\ Len(zero) = 4
  BY NumBytes
<1>2. count \in Bytes /\ Len(count) = 4 /\ sent \in Bytes
  <2>1. Len(c.results) \in Int /\ sent \in Bytes
    BY ResultsBytes
  <2> QED
    BY <2>1, NumBytes
<1>3. shard \in Bytes
  BY TailBytes
<1>4. Body(c, "batch") = zero \o count \o sent \o shard
  BY BodyOf
<1> HIDE DEF zero, count, sent, shard
<1>5. Quad(Body(c, "batch"), zero, count, sent, shard)
  BY <1>1, <1>2, <1>3, <1>4, QuadIs
<1> QED
  BY <1>1, <1>2, <1>5 DEF zero, count, sent, shard

\* The responses that are a single value.
BrokerInfo(c) == <<1, 1, 1, 0, Indicator + c.version, 0, 0, 0>>
ValueStages == {"openDatabase", "engineVersion", "dbParameter", "responseCode", "lobNew", "lobRead"}

\* The responses that hold one value.
LEMMA ValueBodies ==
    ASSUME NEW c, IsAnswer(c)
    PROVE  /\ Len(Int4(0)) = 4
           /\ c.kind = "openDatabase" =>
                 /\ Triple(Body(c, "openDatabase"), Int4(0), BrokerInfo(c), Int4(c.number))
                 /\ BrokerInfo(c) \in Bytes /\ Len(BrokerInfo(c)) = 8 /\ c.number \in Ints /\ c.version \in 0..7
                 /\ Len(Int4(c.number)) = 4
           /\ c.kind = "engineVersion" =>
                 Triple(Body(c, "engineVersion"), Int4(0), c.text, <<0>>) /\ c.text \in Bytes /\ Len(<<0>>) = 1
           /\ c.kind = "dbParameter" =>
                 Pair(Body(c, "dbParameter"), Int4(0), Int4(c.number)) /\ c.number \in Ints /\ Len(Int4(c.number)) = 4
           /\ c.kind = "responseCode" =>
                 /\ Body(c, "responseCode") = Int4(c.number) /\ Body(c, "responseCode") \in Bytes
                 /\ Len(Body(c, "responseCode")) = 4 /\ c.number \in Ints /\ c.number \in Nat
           /\ c.kind = "lobNew" => Pair(Body(c, "lobNew"), Int4(0), LobOctets("blob", c.lob)) /\ c.lob \in LobHandles
           /\ c.kind = "lobRead" =>
                 /\ Pair(Body(c, "lobRead"), Int4(Len(c.text)), c.text) /\ c.text \in Bytes
                 /\ Len(Int4(Len(c.text))) = 4
<1> DEFINE zero == Int4(0)
           nul == <<0>>
           number == Int4(c.number)
           info == BrokerInfo(c)
           lob == LobOctets("blob", c.lob)
           size == Int4(Len(c.text))
<1>1. zero \in Bytes /\ Len(zero) = 4
  BY NumBytes
<1>2. nul \in Bytes /\ Len(nul) = 1
  BY FewBytes
<1>3. c.number \in Ints => number \in Bytes /\ Len(number) = 4
  BY SpansAreInts, NumBytes
<1>4. c.text \in Bytes => size \in Bytes /\ Len(size) = 4
  <2>1. c.text \in Bytes => Len(c.text) \in Int
    BY BytesProperties
  <2> QED
    BY <2>1, NumBytes
<1>5. c.version \in 0..7 => info \in Bytes /\ Len(info) = 8
  <2>1. 0 \in Byte /\ 1 \in Byte
    BY FewBytes
  <2>2. c.version \in 0..7 => Indicator + c.version \in Byte
    BY Masks
  <2> QED
    BY <2>1, <2>2 DEF BrokerInfo, Bytes, Byte
<1>6. c.lob \in LobHandles => lob \in Bytes
  BY LobBytes DEF LobTypes
<1> HIDE DEF zero, nul, number, info, lob, size
<1>7. ASSUME c.kind = "openDatabase"
      PROVE  Triple(Body(c, "openDatabase"), zero, info, number) /\ info \in Bytes /\ Len(info) = 8
             /\ c.number \in Ints /\ c.version \in 0..7 /\ Len(number) = 4
  <2>1. c.number \in Ints /\ c.version \in 0..7
    BY <1>7 DEF IsAnswer
  <2>2. Body(c, "openDatabase") = zero \o info \o number
    BY BodyOf DEF zero, info, number, BrokerInfo
  <2> QED
    BY <1>1, <1>3, <1>5, <2>1, <2>2, TripleIs
<1>8. ASSUME c.kind = "engineVersion" PROVE Triple(Body(c, "engineVersion"), zero, c.text, nul) /\ c.text \in Bytes
  <2>1. c.text \in Bytes
    BY <1>8 DEF IsAnswer
  <2>2. Body(c, "engineVersion") = zero \o c.text \o nul
    BY BodyOf DEF zero, nul
  <2> QED
    BY <1>1, <1>2, <2>1, <2>2, TripleIs
<1>9. ASSUME c.kind = "dbParameter"
      PROVE  Pair(Body(c, "dbParameter"), zero, number) /\ c.number \in Ints /\ Len(number) = 4
  <2>1. c.number \in Ints
    BY <1>9 DEF IsAnswer
  <2>2. Body(c, "dbParameter") = zero \o number
    BY BodyOf DEF zero, number
  <2> QED
    BY <1>1, <1>3, <2>1, <2>2, PairIs
<1>10. ASSUME c.kind = "responseCode"
       PROVE  Body(c, "responseCode") = number /\ number \in Bytes /\ Len(number) = 4 /\ c.number \in Ints /\ c.number \in Nat
  <2>1. c.number \in Lengths
    BY <1>10 DEF IsAnswer
  <2>2. c.number \in Ints /\ c.number \in Nat
    BY <2>1, SpansAreInts
  <2>3. Body(c, "responseCode") = number
    BY BodyOf DEF number
  <2> QED
    BY <1>3, <2>2, <2>3
<1>11. ASSUME c.kind = "lobNew" PROVE Pair(Body(c, "lobNew"), zero, lob) /\ c.lob \in LobHandles
  <2>1. c.lob \in LobHandles
    BY <1>11 DEF IsAnswer
  <2>2. Body(c, "lobNew") = zero \o lob
    BY BodyOf DEF zero, lob
  <2> QED
    BY <1>1, <1>6, <2>1, <2>2, PairIs
<1>12. ASSUME c.kind = "lobRead" PROVE Pair(Body(c, "lobRead"), size, c.text) /\ c.text \in Bytes /\ Len(size) = 4
  <2>1. c.text \in Bytes
    BY <1>12 DEF IsAnswer
  <2>2. Body(c, "lobRead") = size \o c.text
    BY BodyOf DEF size
  <2> QED
    BY <1>4, <2>1, <2>2, PairIs
<1> QED
  BY <1>1, <1>2, <1>7, <1>8, <1>9, <1>10, <1>11, <1>12 DEF zero, nul, number, info, lob, size

\* The calls and their responses.
LEMMA CallFacts ==
    ASSUME NEW c \in Calls
    PROVE  /\ c.kind \in Kinds /\ c.version \in Nat /\ IsError(c.error) /\ IsAnswer(c)
           /\ Len(ErrorOctets(c.error)) \in Lengths
           /\ \A s \in StagesOf(c.kind) : Len(Body(c, s)) \in Lengths
           /\ c.kind \in {"execute", "prepare"} => IsStatement(c)
           /\ c.kind = "requestSchema" => IsSchema(c)
           /\ c.kind = "batch" => IsBatch(c)
           /\ \/ c.kind \in {"execute", "prepare"} \/ c.kind = "requestSchema" \/ c.kind = "batch"
              \/ c.kind \in ValueStages
<1>1. /\ c.kind \in Kinds /\ c.version \in Nat /\ IsError(c.error) /\ IsAnswer(c)
      /\ Len(ErrorOctets(c.error)) \in Lengths
      /\ \A s \in StagesOf(c.kind) : Len(Body(c, s)) \in Lengths
  BY CallsAssumption
<1>2. c.kind \in {"execute", "prepare"} => IsStatement(c)
  BY <1>1 DEF IsAnswer
<1>3. c.kind = "requestSchema" => IsSchema(c)
  BY <1>1 DEF IsAnswer
<1>4. c.kind = "batch" => IsBatch(c)
  BY <1>1 DEF IsAnswer
<1>5. \/ c.kind \in {"execute", "prepare"} \/ c.kind = "requestSchema" \/ c.kind = "batch" \/ c.kind \in ValueStages
  BY <1>1 DEF Kinds, ValueStages
<1> QED
  BY <1>1, <1>2, <1>3, <1>4, <1>5

\* Which responses a call awaits.
LEMMA StagesByKind ==
    /\ StagesOf("execute") = {"execute", "fetch"}
    /\ StagesOf("prepare") = {"prepare", "executePrepared", "fetch"}
    /\ StagesOf("requestSchema") = {"requestSchema", "fetchSchema"}
    /\ StagesOf("batch") = {"batch"}
    /\ \A kind \in ValueStages : StagesOf(kind) = {kind}
BY DEF StagesOf, ValueStages

\* Every body is bytes.
LEMMA BodyBytes ==
    ASSUME NEW c \in Calls, NEW s \in StagesOf(c.kind)
    PROVE  Body(c, s) \in Bytes
<1>1. CASE c.kind \in {"execute", "prepare"}
  <2>1. IsStatement(c)
    BY <1>1, CallFacts
  <2>2. s \in {"execute", "prepare", "executePrepared", "fetch"}
    BY <1>1, StagesByKind
  <2>3. /\ Body(c, "execute") \in Bytes /\ Body(c, "prepare") \in Bytes
        /\ Body(c, "executePrepared") \in Bytes /\ Body(c, "fetch") \in Bytes
    BY <2>1, StatementBodies DEF Triple, Pair
  <2> QED
    BY <2>2, <2>3
<1>2. CASE c.kind = "requestSchema"
  <2>1. s \in {"requestSchema", "fetchSchema"}
    BY <1>2, StagesByKind
  <2>2. Body(c, "requestSchema") \in Bytes /\ Body(c, "fetchSchema") \in Bytes
    BY <1>2, CallFacts, SchemaBodies DEF Triple, Quad
  <2> QED
    BY <2>1, <2>2
<1>3. CASE c.kind = "batch"
  <2>1. s = "batch"
    BY <1>3, StagesByKind
  <2>2. Body(c, "batch") \in Bytes
    BY <1>3, CallFacts, BatchBody DEF Quad
  <2> QED
    BY <2>1, <2>2
<1>4. CASE c.kind \in ValueStages
  <2>1. s = c.kind
    BY <1>4, StagesByKind
  <2>2. IsAnswer(c)
    BY CallFacts
  <2>3. /\ c.kind = "openDatabase" => Body(c, "openDatabase") \in Bytes
        /\ c.kind = "engineVersion" => Body(c, "engineVersion") \in Bytes
        /\ c.kind = "dbParameter" => Body(c, "dbParameter") \in Bytes
        /\ c.kind = "responseCode" => Body(c, "responseCode") \in Bytes
        /\ c.kind = "lobNew" => Body(c, "lobNew") \in Bytes
        /\ c.kind = "lobRead" => Body(c, "lobRead") \in Bytes
    BY <2>2, ValueBodies DEF Triple, Pair
  <2> QED
    BY <1>4, <2>1, <2>3 DEF ValueStages
<1> QED
  BY <1>1, <1>2, <1>3, <1>4, CallFacts

\* What follows the code of an error.
ErrorText(error) == IF error.message = <<>> THEN <<>> ELSE error.message \o <<0>>

\* An error: -1, its code and its message, if it has one.
LEMMA ErrorBytes ==
    ASSUME NEW error, IsError(error)
    PROVE  /\ Triple(ErrorOctets(error), Int4(-1), Int4(error.code), ErrorText(error))
           /\ Len(Int4(-1)) = 4 /\ Len(Int4(error.code)) = 4 /\ -1 \in Ints /\ error.code \in Ints
           /\ error = [code |-> error.code, message |-> error.message]
           /\ error.message \in Bytes
           /\ error.message = <<>> => ErrorText(error) = <<>>
           /\ error.message # <<>> => Pair(ErrorText(error), error.message, <<0>>) /\ Len(<<0>>) = 1
<1> DEFINE minus == Int4(-1)
           code == Int4(error.code)
           text == error.message
           none == <<>>
           nul == <<0>>
           rest == ErrorText(error)
<1>1. error.code \in Ints /\ text \in Texts /\ error = [code |-> error.code, message |-> text]
  BY DEF IsError
<1>2. -1 \in Ints
  BY FewInts
<1>3. minus \in Bytes /\ Len(minus) = 4
  BY NumBytes
<1>4. code \in Bytes /\ Len(code) = 4
  <2>1. error.code \in Int
    BY <1>1, SpansAreInts
  <2> QED
    BY <2>1, NumBytes
<1>5. none \in Bytes /\ nul \in Bytes /\ Len(nul) = 1
  BY FewBytes
<1>6. text \in Bytes
  BY <1>1, TextsAreBytes
<1>7. rest = IF text = none THEN none ELSE text \o nul
  BY DEF ErrorText
<1>8. ErrorOctets(error) = minus \o code \o rest
  BY DEF ErrorOctets, ErrorText
<1> HIDE DEF minus, code, text, none, nul, rest
<1>9. text # none => Pair(rest, text, nul)
  BY <1>5, <1>6, <1>7, PairIs
<1>10. rest \in Bytes
  BY <1>5, <1>7, <1>9 DEF Pair
<1>11. Triple(ErrorOctets(error), minus, code, rest)
  BY <1>3, <1>4, <1>8, <1>10, TripleIs
<1> QED
  BY <1>1, <1>2, <1>3, <1>4, <1>5, <1>6, <1>7, <1>9, <1>11 DEF minus, code, text, none, nul, rest

\* A response is its length, the CAS info and its body.
BodySent(c, s) == IF c.error # NoError /\ c.failing = s THEN ErrorOctets(c.error) ELSE Body(c, s)

\* A response: its length, four bytes of session state, and its body or an error.
LEMMA ResponseBytes ==
    ASSUME NEW c \in Calls, NEW s \in StagesOf(c.kind)
    PROVE  /\ Triple(Response(c, s), Int4(Len(BodySent(c, s))), Int4(0), BodySent(c, s))
           /\ BodySent(c, s) \in Bytes /\ Len(BodySent(c, s)) \in Lengths /\ Len(BodySent(c, s)) \in Ints
           /\ Len(BodySent(c, s)) \in Nat
           /\ Len(Int4(Len(BodySent(c, s)))) = 4 /\ Len(Int4(0)) = 4
<1> DEFINE body == BodySent(c, s)
           size == Int4(Len(body))
           zero == Int4(0)
           fault == ErrorOctets(c.error)
<1>1. fault \in Bytes /\ Len(fault) \in Lengths
  BY CallFacts, ErrorBytes DEF Triple
<1>2. Body(c, s) \in Bytes /\ Len(Body(c, s)) \in Lengths
  BY CallFacts, BodyBytes
<1> HIDE DEF fault
<1>3. body = IF c.error # NoError /\ c.failing = s THEN fault ELSE Body(c, s)
  BY DEF BodySent, fault
<1>4. Response(c, s) = size \o zero \o body
  BY DEF Response, BodySent
<1> HIDE DEF body, size, zero
<1>5. body \in Bytes /\ Len(body) \in Lengths
  BY <1>1, <1>2, <1>3
<1>6. Len(body) \in Ints /\ Len(body) \in Nat
  BY <1>5, SpansAreInts
<1>7. size \in Bytes /\ Len(size) = 4
  <2>1. Len(body) \in Int
    BY <1>6
  <2> QED
    BY <2>1, NumBytes DEF size
<1>8. zero \in Bytes /\ Len(zero) = 4
  BY NumBytes DEF zero
<1>9. Triple(Response(c, s), size, zero, body)
  BY <1>4, <1>5, <1>7, <1>8, TripleIs
<1> QED
  BY <1>5, <1>6, <1>7, <1>8, <1>9 DEF body, size, zero

-----------------------------------------------------------------------------
(* What has arrived in the buffer.                                           *)

Arrived == call \in Calls /\ stage \in StagesOf(call.kind) /\ buffer = Response(call, stage)

\* The response is no error.
Sound == call.error = NoError \/ call.failing # stage

\* What lies in the buffer when a response has arrived, be it the answer or an error.
LEMMA Received ==
    ASSUME Arrived
    PROVE  /\ buffer \in Bytes /\ At(buffer, 0, Int4(Len(BodySent(call, stage))))
           /\ At(buffer, 4, Int4(0)) /\ At(buffer, 8, BodySent(call, stage))
           /\ Len(buffer) = 8 + Len(BodySent(call, stage))
           /\ Len(BodySent(call, stage)) \in Ints /\ Len(BodySent(call, stage)) \in Nat
           /\ Sound => BodySent(call, stage) = Body(call, stage)
           /\ ~Sound => BodySent(call, stage) = ErrorOctets(call.error)
<1> DEFINE body == BodySent(call, stage)
           size == Int4(Len(body))
           zero == Int4(0)
<1>1. Triple(buffer, size, zero, body) /\ Len(size) = 4 /\ Len(zero) = 4 /\ Len(body) \in Ints /\ Len(body) \in Nat
  BY ResponseBytes DEF Arrived
<1>2. (Sound => body = Body(call, stage)) /\ (~Sound => body = ErrorOctets(call.error))
  BY DEF BodySent, Sound
<1> HIDE DEF body, size, zero
<1>3. /\ buffer \in Bytes /\ Len(buffer) = Len(size) + Len(zero) + Len(body)
      /\ \A o : At(buffer, o, buffer) =>
            At(buffer, o, size) /\ At(buffer, o + Len(size), zero) /\ At(buffer, o + (Len(size) + Len(zero)), body)
  BY <1>1 DEF Triple
<1>4. At(buffer, 0, buffer)
  BY <1>3, AtWhole DEF Bytes
<1>5. At(buffer, 0, size) /\ At(buffer, 0 + Len(size), zero) /\ At(buffer, 0 + (Len(size) + Len(zero)), body)
  BY <1>3, <1>4
<1>6. Len(size) + Len(zero) = 8 /\ 0 + Len(size) = 4
  BY <1>1
<1> QED
  BY <1>1, <1>2, <1>3, <1>5, <1>6 DEF body, size, zero

\* The header is the length of the body, the CAS info and the response code.
LEMMA HeaderRead ==
    ASSUME Arrived, NEW code \in Ints, At(buffer, 8, Int4(code))
    PROVE  Parse(<<"int", "int", "int">>, 0) = ReadAs(<<Len(BodySent(call, stage)), 0, code>>, 12)
<1> DEFINE length == Len(BodySent(call, stage))
<1>1. /\ buffer \in Bytes /\ At(buffer, 0, Int4(length)) /\ At(buffer, 4, Int4(0)) /\ length \in Ints
  BY Received
<1> HIDE DEF length
<1>2. 0 \in Ints /\ "int" \in FieldKinds
  BY FewInts DEF FieldKinds
<1>3. ParseField("int", 0) = ReadAs(length, 0 + 4)
  BY <1>1, FieldAt
<1>4. ParseField("int", 4) = ReadAs(0, 4 + 4)
  BY <1>1, <1>2, FieldAt
<1>5. ParseField("int", 8) = ReadAs(code, 8 + 4)
  BY <1>1, FieldAt
<1>6. /\ ParseField("int", 0) = ReadAs(length, 4) /\ ParseField("int", 4) = ReadAs(0, 8)
      /\ ParseField("int", 8) = ReadAs(code, 12) /\ 0 \in Int
  BY <1>3, <1>4, <1>5
<1>7. Parse(<<"int", "int", "int">>, 0) = ReadAs(<<length, 0, code>>, 12)
  BY <1>1, <1>2, <1>6, ThreeFields
<1> QED
  BY <1>7 DEF length

\* readError() reads an error to its end, with its code and message, and also one
\* without a message.
THEOREM ErrorRead ==
    ASSUME Arrived, ~Sound
    PROVE  LET r == Parse(<<"int", "int", "int">>, 0)
               number == ParseInt(buffer, r.offset)
               message == ParseNullTerminatedString(buffer, number.offset, MessageLength(r.value[1]))
           IN  /\ r.value[3] = -1 /\ message.offset = Len(buffer)
               /\ [code |-> number.value, message |-> message.value] = call.error
<1> DEFINE error == call.error
           body == BodySent(call, stage)
           minus == Int4(-1)
           code == Int4(error.code)
           text == error.message
           nul == <<0>>
           none == <<>>
           rest == ErrorText(error)
           r == Parse(<<"int", "int", "int">>, 0)
           number == ParseInt(buffer, r.offset)
           message == ParseNullTerminatedString(buffer, number.offset, MessageLength(r.value[1]))
<1>1. /\ buffer \in Bytes /\ At(buffer, 8, body) /\ body = ErrorOctets(error) /\ Len(buffer) = 8 + Len(body)
  BY Received
<1>2. /\ Triple(ErrorOctets(error), minus, code, rest) /\ Len(minus) = 4 /\ Len(code) = 4 /\ -1 \in Ints
      /\ error.code \in Ints /\ error = [code |-> error.code, message |-> text] /\ text \in Bytes
      /\ (text = none => rest = none) /\ (text # none => Pair(rest, text, nul) /\ Len(nul) = 1)
  <2>1. IsError(call.error)
    BY CallFacts DEF Arrived
  <2> QED
    BY <2>1, ErrorBytes
<1>3. Len(none) = 0
  BY FewBytes
<1> HIDE DEF error, body, minus, code, text, nul, none, rest, r, number, message
<1>4. /\ At(buffer, 8, minus) /\ At(buffer, 8 + Len(minus), code) /\ At(buffer, 8 + (Len(minus) + Len(code)), rest)
      /\ Len(body) = Len(minus) + Len(code) + Len(rest) /\ Len(rest) \in Nat
  BY <1>1, <1>2 DEF Triple
<1>5. At(buffer, 12, code) /\ At(buffer, 16, rest) /\ Len(body) = 8 + Len(rest)
  BY <1>2, <1>4
<1>6. r = ReadAs(<<Len(body), 0, -1>>, 12)
  BY <1>2, <1>4, HeaderRead DEF minus, r, body
<1>7. r.offset = 12 /\ r.value[1] = Len(body) /\ r.value[3] = -1
  BY <1>6 DEF ReadAs
<1>8. number.value = error.code /\ number.offset = 16
  <2>1. ParseInt(buffer, 12) = ReadAs(error.code, 12 + 4)
    BY <1>1, <1>2, <1>5, ReadWhatIsAt DEF code
  <2> QED
    BY <1>7, <2>1 DEF number, ReadAs
<1>9. message = ParseNullTerminatedString(buffer, 16, Len(rest))
  <2>1. MessageLength(Len(body)) = Len(rest)
    BY <1>4, <1>5 DEF MessageLength
  <2> QED
    BY <1>7, <1>8, <2>1 DEF message
<1>10. message.value = text /\ message.offset = 16 + Len(rest)
  <2>1. CASE text = none
    <3>1. Len(rest) = 0
      BY <1>2, <1>3, <2>1
    <3>2. ParseNullTerminatedString(buffer, 16, 0) = ReadAs(<<>>, 16)
      BY DEF ParseNullTerminatedString
    <3> QED
      BY <1>9, <2>1, <3>1, <3>2 DEF ReadAs, none
  <2>2. CASE text # none
    <3>1. Pair(rest, text, nul) /\ Len(nul) = 1
      BY <1>2, <2>2
    <3>2. At(buffer, 16, text) /\ Len(rest) = Len(text) + 1
      BY <1>1, <1>5, <3>1 DEF Pair
    <3>3. ParseNullTerminatedString(buffer, 16, Len(text) + 1) = ReadAs(text, 16 + (Len(text) + 1))
      BY <1>1, <1>2, <3>2, TextRead
    <3> QED
      BY <1>9, <3>2, <3>3 DEF ReadAs
  <2> QED
    BY <2>1, <2>2
<1>11. message.offset = Len(buffer)
  BY <1>1, <1>4, <1>5, <1>10
<1> QED
  BY <1>2, <1>7, <1>8, <1>10, <1>11 DEF r, number, message, error, text

\* The results of a statement begin behind its columns, if those are sent too.
ResultsAt == IF stage = "execute" THEN 30 + Len(FlattenSeq(SentColumns(call))) ELSE 12

\* The statement, and its results, as they lie in the buffer.
LEMMA StatementArrived ==
    ASSUME Arrived, Sound, call.kind \in {"execute", "prepare"}
    PROVE  /\ buffer \in Bytes /\ Len(FlattenSeq(SentColumns(call))) \in Nat /\ TailSize(call) \in Nat
           /\ ResultsAt \in Nat
           /\ stage \in {"execute", "prepare"} =>
                 StatementLaid(call, buffer, 8) /\ At(buffer, 8, Int4(call.handle))
           /\ stage = "prepare" => Len(buffer) = 26 + Len(FlattenSeq(SentColumns(call)))
           /\ stage = "execute" => At(buffer, 26 + Len(FlattenSeq(SentColumns(call))), Int4(Len(call.rows)))
           /\ stage = "executePrepared" => At(buffer, 8, Int4(Len(call.rows)))
           /\ stage \in {"execute", "executePrepared"} =>
                 /\ ResultLaid(call, buffer, ResultsAt)
                 /\ Len(buffer) = ResultsAt + (26 + TailSize(call) + Len(TupleOctets(call)))
           /\ stage = "fetch" =>
                 /\ At(buffer, 8, Int4(0)) /\ At(buffer, 12, RowsFrom(call, call.first + 1, Len(call.rows)))
                 /\ Len(buffer) = 12 + Len(RowsFrom(call, call.first + 1, Len(call.rows)))
<1> DEFINE statement == StatementOctets(call)
           columns == FlattenSeq(SentColumns(call))
           count == Int4(Len(call.rows))
           result == ResultOctets(call)
           zero == Int4(0)
           rows == RowsFrom(call, call.first + 1, Len(call.rows))
           body == Body(call, stage)
           tail == 26 + TailSize(call) + Len(TupleOctets(call))
<1>1. IsStatement(call)
  BY CallFacts DEF Arrived
<1>2. /\ Triple(Body(call, "execute"), statement, count, result) /\ Body(call, "prepare") = statement
      /\ Pair(Body(call, "executePrepared"), count, result) /\ Pair(Body(call, "fetch"), zero, rows)
      /\ Len(count) = 4 /\ Len(zero) = 4
  BY <1>1, StatementBodies
<1>3. buffer \in Bytes /\ At(buffer, 8, body) /\ Len(buffer) = 8 + Len(body)
  BY Received
<1>4. /\ Len(statement) = 18 + Len(columns) /\ Len(columns) \in Nat
      /\ \A o : At(buffer, o, statement) => StatementLaid(call, buffer, o)
  BY <1>1, <1>3, StatementLayout
<1>5. /\ Len(result) = tail /\ TailSize(call) \in Nat
      /\ \A o : At(buffer, o, result) => ResultLaid(call, buffer, o)
  BY <1>1, <1>3, ResultLayout
<1>6. stage \in {"execute", "prepare", "executePrepared", "fetch"}
  BY StagesByKind DEF Arrived
<1>7. \A o : StatementLaid(call, buffer, o) => At(buffer, o, Int4(call.handle))
  BY DEF StatementLaid
<1> HIDE DEF statement, columns, count, result, zero, rows, body, tail
<1>8. ResultsAt = IF stage = "execute" THEN 30 + Len(columns) ELSE 12
  BY DEF ResultsAt, columns
<1>9. ResultsAt \in Nat
  BY <1>4, <1>8
<1>10. CASE stage = "execute"
  <2>1. Triple(body, statement, count, result)
    BY <1>2, <1>10 DEF body
  <2>2. /\ At(buffer, 8, statement) /\ At(buffer, 8 + Len(statement), count)
        /\ At(buffer, 8 + (Len(statement) + Len(count)), result)
        /\ Len(body) = Len(statement) + Len(count) + Len(result) /\ Len(result) \in Nat
    BY <1>3, <2>1 DEF Triple
  <2>3. 8 + Len(statement) = 26 + Len(columns) /\ 8 + (Len(statement) + Len(count)) = ResultsAt
    BY <1>2, <1>4, <1>8, <1>10
  <2>4. Len(buffer) = ResultsAt + tail
    BY <1>2, <1>3, <1>4, <1>5, <1>8, <1>10, <2>2
  <2> QED
    BY <1>3, <1>4, <1>5, <1>7, <1>9, <1>10, <2>2, <2>3, <2>4 DEF tail, count, columns
<1>11. CASE stage = "prepare"
  <2>1. body = statement
    BY <1>2, <1>11 DEF body
  <2>2. Len(buffer) = 26 + Len(columns)
    BY <1>3, <1>4, <2>1
  <2> QED
    BY <1>3, <1>4, <1>5, <1>7, <1>9, <1>11, <2>1, <2>2 DEF columns
<1>12. CASE stage = "executePrepared"
  <2>1. Pair(body, count, result)
    BY <1>2, <1>12 DEF body
  <2>2. /\ At(buffer, 8, count) /\ At(buffer, 8 + Len(count), result)
        /\ Len(body) = Len(count) + Len(result) /\ Len(result) \in Nat
    BY <1>3, <2>1 DEF Pair
  <2>3. 8 + Len(count) = ResultsAt /\ Len(buffer) = ResultsAt + tail
    BY <1>2, <1>3, <1>5, <1>8, <1>12, <2>2
  <2> QED
    BY <1>3, <1>4, <1>5, <1>9, <1>12, <2>2, <2>3 DEF tail, count, columns
<1>13. CASE stage = "fetch"
  <2>1. Pair(body, zero, rows)
    BY <1>2, <1>13 DEF body
  <2>2. /\ At(buffer, 8, zero) /\ At(buffer, 8 + Len(zero), rows)
        /\ Len(body) = Len(zero) + Len(rows) /\ Len(rows) \in Nat
    BY <1>3, <2>1 DEF Pair
  <2>3. 8 + Len(zero) = 12 /\ Len(buffer) = 12 + Len(rows)
    BY <1>2, <1>3, <2>2
  <2> QED
    BY <1>3, <1>4, <1>5, <1>9, <1>13, <2>2, <2>3 DEF zero, rows, columns
<1> QED
  BY <1>6, <1>10, <1>11, <1>12, <1>13

\* The rows a response brings, and where they begin.
FirstRow == IF stage = "fetch" THEN call.first + 1 ELSE 1
LastRow == IF stage = "fetch" THEN Len(call.rows) ELSE call.first
RowCount == LastRow - FirstRow + 1
TuplesAt == IF stage = "fetch" THEN 8 ELSE ResultsAt + (26 + TailSize(call))
Rows == SentRows(call, FirstRow, LastRow)

\* Where the rows of a response lie, and which of the statement's rows they are.
LEMMA RowsArrived ==
    ASSUME Arrived, Sound, call.kind \in {"execute", "prepare"}, stage # "prepare",
           stage # "fetch" => call.statementType = SELECT
    PROVE  /\ TuplesAt \in Nat /\ RowCount \in Nat /\ RowCount \in Ints
           /\ FirstRow \in Nat /\ FirstRow > 0
           /\ Rows \in Seq(Bytes) /\ Len(Rows) = RowCount
           /\ \A i \in 1..RowCount : /\ Rows[i] = RowOctets(call, call.rows[FirstRow + i - 1])
                                     /\ IsRow(call, call.rows[FirstRow + i - 1])
           /\ At(buffer, TuplesAt, Int4(0)) /\ At(buffer, TuplesAt + 4, Int4(RowCount))
           /\ At(buffer, TuplesAt + 8, FlattenSeq(Rows))
           /\ Len(buffer) = TuplesAt + 8 + Len(FlattenSeq(Rows)) /\ Len(FlattenSeq(Rows)) \in Nat
<1> DEFINE n == RowCount
           sent == RowsFrom(call, FirstRow, LastRow)
           count == Int4(n)
           rows == FlattenSeq(Rows)
           zero == Int4(0)
           tuples == TupleOctets(call)
<1>1. IsStatement(call)
  BY CallFacts DEF Arrived
<1>2. call.first \in Nat /\ Len(call.rows) \in Nat /\ call.first <= Len(call.rows) /\ Len(zero) = 4
  BY <1>1, StatementBodies
<1>3. FirstRow \in Nat /\ LastRow \in Nat /\ FirstRow > 0 /\ FirstRow <= LastRow + 1 /\ LastRow <= Len(call.rows)
  BY <1>2 DEF FirstRow, LastRow
<1>4. /\ n \in Nat /\ n \in Ints /\ Rows \in Seq(Bytes) /\ Len(Rows) = n
      /\ \A i \in 1..n : /\ Rows[i] = RowOctets(call, call.rows[FirstRow + i - 1])
                         /\ IsRow(call, call.rows[FirstRow + i - 1])
      /\ Pair(sent, count, rows) /\ Len(count) = 4
  <2> DEFINE from == FirstRow
             to == LastRow
             m == to - from + 1
             parts == SentRows(call, from, to)
  <2>1. from \in Nat /\ to \in Nat /\ from > 0 /\ from <= to + 1 /\ to <= Len(call.rows)
    BY <1>3
  <2> HIDE DEF from, to
  <2>2. m \in Nat /\ m \in Ints /\ parts \in Seq(Bytes) /\ Len(parts) = m
    <3>1. m \in Nat
      BY <2>1
    <3>2. m \in Ints
      BY <1>1, <2>1, RowsBytes
    <3>3. parts \in Seq(Bytes)
      BY <1>1, <2>1, RowsBytes
    <3>4. Len(parts) = m
      BY <1>1, <2>1, RowsBytes
    <3> QED
      BY <3>1, <3>2, <3>3, <3>4
  <2>3. \A i \in 1..m : parts[i] = RowOctets(call, call.rows[from + i - 1]) /\ IsRow(call, call.rows[from + i - 1])
    BY <1>1, <2>1, RowsBytes
  <2>4. Pair(RowsFrom(call, from, to), Int4(m), FlattenSeq(parts)) /\ Len(Int4(m)) = 4
    BY <1>1, <2>1, RowsBytes
  <2>5. n = m /\ Rows = parts
    BY DEF RowCount, Rows, from, to
  <2> HIDE DEF m, parts
  <2> QED
    BY <2>2, <2>3, <2>4, <2>5 DEF from, to
<1>5. stage \in {"execute", "executePrepared", "fetch"}
  BY StagesByKind DEF Arrived
<1>6. /\ buffer \in Bytes /\ TailSize(call) \in Nat /\ ResultsAt \in Nat
      /\ stage # "fetch" => /\ ResultLaid(call, buffer, ResultsAt)
                            /\ Len(buffer) = ResultsAt + (26 + TailSize(call) + Len(tuples))
      /\ stage = "fetch" => At(buffer, 8, zero) /\ At(buffer, 12, sent) /\ Len(buffer) = 12 + Len(sent)
  BY <1>5, StatementArrived DEF FirstRow, LastRow
<1>7. stage # "fetch" => tuples = zero \o sent
  BY DEF TupleOctets, FirstRow, LastRow
<1>8. zero \in Bytes
  BY NumBytes
<1>9. stage # "fetch" => At(buffer, ResultsAt + (26 + TailSize(call)), tuples)
  <2>1. ResultLaid(call, buffer, ResultsAt) => At(buffer, ResultsAt + 26 + TailSize(call), tuples)
    BY DEF ResultLaid
  <2>2. ResultsAt + 26 + TailSize(call) = ResultsAt + (26 + TailSize(call))
    BY <1>6
  <2> QED
    BY <1>6, <2>1, <2>2
<1> HIDE DEF n, sent, count, rows, zero, tuples
<1>10. TuplesAt \in Nat
  BY <1>6 DEF TuplesAt
<1>11. At(buffer, TuplesAt, zero) /\ At(buffer, TuplesAt + 4, sent) /\ Len(buffer) = TuplesAt + 4 + Len(sent)
  <2>1. Len(sent) \in Nat
    BY <1>4, BytesProperties DEF Pair
  <2>2. CASE stage = "fetch"
    <3>1. TuplesAt = 8
      BY <2>2 DEF TuplesAt
    <3> QED
      BY <1>6, <2>1, <2>2, <3>1
  <2>3. CASE stage # "fetch"
    <3>1. TuplesAt = ResultsAt + (26 + TailSize(call))
      BY <2>3 DEF TuplesAt
    <3>2. Pair(tuples, zero, sent)
      BY <1>4, <1>7, <1>8, <2>3, PairIs DEF Pair
    <3>3. /\ At(buffer, TuplesAt, zero) /\ At(buffer, TuplesAt + Len(zero), sent)
          /\ Len(tuples) = Len(zero) + Len(sent)
      BY <1>6, <1>9, <2>3, <3>1, <3>2 DEF Pair
    <3>4. Len(buffer) = TuplesAt + 4 + Len(sent)
      BY <1>2, <1>6, <2>1, <2>3, <3>1, <3>3
    <3> QED
      BY <1>2, <3>3, <3>4
  <2> QED
    BY <2>2, <2>3
<1>12. /\ At(buffer, TuplesAt + 4, count) /\ At(buffer, (TuplesAt + 4) + Len(count), rows)
       /\ Len(sent) = Len(count) + Len(rows) /\ Len(rows) \in Nat
  BY <1>4, <1>6, <1>11 DEF Pair
<1>13. (TuplesAt + 4) + Len(count) = TuplesAt + 8 /\ Len(buffer) = TuplesAt + 8 + Len(rows)
  BY <1>4, <1>10, <1>11, <1>12
<1> QED
  BY <1>3, <1>4, <1>10, <1>11, <1>12, <1>13 DEF n, count, rows, zero

\* The columns and the rows of a schema, as they lie in the buffer.
LEMMA SchemaArrived ==
    ASSUME Arrived, Sound, call.kind = "requestSchema"
    PROVE  LET t == call.schemaType
           IN  /\ buffer \in Bytes
               /\ stage = "requestSchema" =>
                     /\ At(buffer, 8, Int4(call.handle)) /\ At(buffer, 12, Int4(Len(call.rows)))
                     /\ At(buffer, 16, Int4(Len(SchemaColumns(t)))) /\ At(buffer, 20, FlattenSeq(SentSchema(t)))
                     /\ Len(buffer) = 20 + Len(FlattenSeq(SentSchema(t)))
               /\ stage = "fetchSchema" =>
                     /\ At(buffer, 8, Int4(0)) /\ At(buffer, 12, Int4(Len(call.rows)))
                     /\ At(buffer, 16, FlattenSeq(SentSchemaRows(call)))
                     /\ Len(buffer) = 16 + Len(FlattenSeq(SentSchemaRows(call)))
<1> DEFINE t == call.schemaType
           handle == Int4(call.handle)
           count == Int4(Len(call.rows))
           width == Int4(Len(SchemaColumns(t)))
           columns == FlattenSeq(SentSchema(t))
           zero == Int4(0)
           rows == FlattenSeq(SentSchemaRows(call))
           body == Body(call, stage)
<1>1. IsSchema(call)
  BY CallFacts DEF Arrived
<1>2. /\ Quad(Body(call, "requestSchema"), handle, count, width, columns)
      /\ Triple(Body(call, "fetchSchema"), zero, count, rows)
      /\ Len(handle) = 4 /\ Len(count) = 4 /\ Len(width) = 4 /\ Len(zero) = 4
  BY <1>1, SchemaBodies
<1>3. buffer \in Bytes /\ At(buffer, 8, body) /\ Len(buffer) = 8 + Len(body)
  BY Received
<1> HIDE DEF handle, count, width, columns, zero, rows, body
<1>4. ASSUME stage = "requestSchema"
      PROVE  /\ At(buffer, 8, handle) /\ At(buffer, 12, count) /\ At(buffer, 16, width) /\ At(buffer, 20, columns)
             /\ Len(buffer) = 20 + Len(columns)
  <2>1. Quad(body, handle, count, width, columns)
    BY <1>2, <1>4 DEF body
  <2>2. /\ At(buffer, 8, handle) /\ At(buffer, 8 + Len(handle), count)
        /\ At(buffer, 8 + (Len(handle) + Len(count)), width)
        /\ At(buffer, 8 + (Len(handle) + Len(count) + Len(width)), columns)
        /\ Len(body) = Len(handle) + Len(count) + Len(width) + Len(columns) /\ Len(columns) \in Nat
    BY <1>3, <2>1 DEF Quad
  <2> QED
    BY <1>2, <1>3, <2>2
<1>5. ASSUME stage = "fetchSchema"
      PROVE  /\ At(buffer, 8, zero) /\ At(buffer, 12, count) /\ At(buffer, 16, rows)
             /\ Len(buffer) = 16 + Len(rows)
  <2>1. Triple(body, zero, count, rows)
    BY <1>2, <1>5 DEF body
  <2>2. /\ At(buffer, 8, zero) /\ At(buffer, 8 + Len(zero), count) /\ At(buffer, 8 + (Len(zero) + Len(count)), rows)
        /\ Len(body) = Len(zero) + Len(count) + Len(rows) /\ Len(rows) \in Nat
    BY <1>3, <2>1 DEF Triple
  <2> QED
    BY <1>2, <1>3, <2>2
<1> QED
  BY <1>3, <1>4, <1>5 DEF handle, count, width, columns, zero, rows

\* The results of a batch, as they lie in the buffer.
LEMMA BatchArrived ==
    ASSUME Arrived, Sound, call.kind = "batch"
    PROVE  /\ buffer \in Bytes /\ At(buffer, 8, Int4(0)) /\ At(buffer, 12, Int4(Len(call.results)))
           /\ At(buffer, 16, FlattenSeq(SentResults(call)))
           /\ At(buffer, 16 + Len(FlattenSeq(SentResults(call))), ShardOctets(call))
           /\ Len(buffer) = 16 + Len(FlattenSeq(SentResults(call))) + (IF call.version > 4 THEN 4 ELSE 0)
           /\ Len(FlattenSeq(SentResults(call))) \in Nat
<1> DEFINE zero == Int4(0)
           count == Int4(Len(call.results))
           sent == FlattenSeq(SentResults(call))
           shard == ShardOctets(call)
           body == Body(call, "batch")
           more == IF call.version > 4 THEN 4 ELSE 0
<1>1. IsBatch(call) /\ stage = "batch"
  BY CallFacts, StagesByKind DEF Arrived
<1>2. Quad(body, zero, count, sent, shard) /\ Len(zero) = 4 /\ Len(count) = 4
  BY <1>1, BatchBody
<1>3. buffer \in Bytes /\ At(buffer, 8, body) /\ Len(buffer) = 8 + Len(body)
  BY <1>1, Received
<1>4. Len(shard) = more
  BY TailBytes
<1> HIDE DEF zero, count, sent, shard, body, more
<1>5. /\ At(buffer, 8, zero) /\ At(buffer, 8 + Len(zero), count) /\ At(buffer, 8 + (Len(zero) + Len(count)), sent)
      /\ At(buffer, 8 + (Len(zero) + Len(count) + Len(sent)), shard)
      /\ Len(body) = Len(zero) + Len(count) + Len(sent) + Len(shard) /\ Len(sent) \in Nat /\ Len(shard) \in Nat
  BY <1>2, <1>3 DEF Quad
<1>6. /\ At(buffer, 12, count) /\ At(buffer, 16, sent) /\ At(buffer, 16 + Len(sent), shard)
      /\ Len(buffer) = 16 + Len(sent) + more
  BY <1>2, <1>3, <1>4, <1>5
<1> QED
  BY <1>3, <1>5, <1>6 DEF zero, count, sent, shard, more

-----------------------------------------------------------------------------
(* Type correctness.                                                         *)

\* The fields of a packet.
PacketOK(p) ==
    /\ DOMAIN p = DOMAIN NoPacket
    /\ \A count \in Counts : p[count] \in Int
    /\ Listed(p.infoArray) /\ Listed(p.rows)

Parts == {"header", "statement", "columns", "counts", "results", "tail", "tuples",
          "rows", "schema", "schemaRows", "batch", "executed", "value", "done"}

\* TypeOK alone does not say that the columns and rows are lists, to whose end a
\* row is read, nor whose response the buffer holds.
Typed ==
    /\ Arrived /\ buffer \in Bytes /\ offset \in Int /\ pc \in Parts /\ request \in Bytes
    /\ PacketOK(packet)

\* Typed says more than TypeOK.
LEMMA TypedIsTypeOK == Typed => TypeOK
BY DEF Typed, TypeOK, Arrived, PacketOK, Parts

\* Nothing parsed yet.
LEMMA NoFields == Listed(<<>>) /\ PacketOK(NoPacket)
<1> DEFINE none == <<>>
<1>1. Len(none) = 0 /\ Len(none) \in Nat
  OBVIOUS
<1>2. none = [i \in 1..Len(none) |-> none[i]]
  OBVIOUS
<1>3. Listed(none)
  BY <1>1, <1>2 DEF Listed
<1>4. \A count \in Counts : NoPacket[count] \in Int
  BY DEF Counts, NoPacket
<1>5. NoPacket.infoArray = none /\ NoPacket.rows = none
  BY DEF NoPacket
<1> QED
  BY <1>3, <1>4, <1>5 DEF PacketOK

\* Typed holds at first,
LEMMA TypedInit == Init => Typed
<1> SUFFICES ASSUME Init PROVE Typed
  OBVIOUS
<1>1. call \in Calls /\ stage = call.kind /\ stage \in StagesOf(call.kind)
  BY DEF Init, StagesOf
<1>2. Arrived
  BY <1>1 DEF Init, Arrived
<1>3. buffer \in Bytes
  BY <1>2, Received
<1>4. <<>> \in Bytes
  BY FewBytes
<1> QED
  BY <1>2, <1>3, <1>4, NoFields DEF Init, Typed, Parts

\* A step of the parser keeps the types if its fields and its offset have them.
LEMMA TypedGoto ==
    ASSUME Typed, NEW part \in Parts, NEW r, r.offset \in Int, NEW fields, PacketOK(fields), Goto(part, r, fields)
    PROVE  Typed'
BY DEF Typed, Goto, Arrived, PacketOK

\* So does the arrival of another response.
LEMMA TypedExpect ==
    ASSUME Typed, NEW s \in StagesOf(call.kind), Expect(s), UNCHANGED packet, request' \in Bytes
    PROVE  Typed'
<1>1. call' = call /\ stage' = s /\ buffer' = Response(call, s) /\ offset' = 0 /\ pc' = "header"
  BY DEF Expect
<1>2. call \in Calls
  BY DEF Typed, Arrived
<1>3. Response(call, s) \in Bytes
  BY <1>2, ResponseBytes DEF Triple
<1>4. Arrived'
  BY <1>1, <1>2 DEF Arrived
<1>5. pc' \in Parts
  BY <1>1 DEF Parts
<1> QED
  BY <1>1, <1>3, <1>4, <1>5 DEF Typed, PacketOK

\* After a text the reader is somewhere, whatever length it was told.
LEMMA TextOffset ==
    ASSUME buffer \in Bytes, NEW at \in Int, NEW length \in Int
    PROVE  ParseNullTerminatedString(buffer, at, length).offset \in Int
BY DEF ParseNullTerminatedString, ReadAs

\* and each step keeps it: parsing the header,
LEMMA TypedHeader ==
    ASSUME Typed, ParseHeader
    PROVE  Typed'
<1> DEFINE kinds == <<"int", "int", "int">>
           r == Parse(kinds, offset)
           length == r.value[1]
           code == r.value[3]
           number == ParseInt(buffer, r.offset)
           message == ParseNullTerminatedString(buffer, number.offset, MessageLength(length))
           failed == [packet EXCEPT !.error = [code |-> number.value, message |-> message.value]]
           going == [packet EXCEPT !.code = code, !.length = length]
<1>1. buffer \in Bytes /\ offset \in Int /\ PacketOK(packet)
  BY DEF Typed
<1>2. kinds \in Seq(FieldKinds) /\ Len(kinds) = 3 /\ kinds[1] = "int" /\ kinds[3] = "int"
  BY DEF FieldKinds
<1> HIDE DEF kinds
<1>3. r.offset \in Int /\ length \in Int /\ code \in Int
  BY <1>1, <1>2, ParseOffset
<1>4. IF Failed(code) THEN Goto("done", message, failed) ELSE Goto(FirstPart, r, going)
  BY DEF ParseHeader, kinds
<1> HIDE DEF r, length, code
<1>5. number.offset \in Int
  BY <1>1, <1>3, NumIsInt
<1> HIDE DEF number
<1>6. message.offset \in Int
  <2>1. MessageLength(length) \in Int
    BY <1>3 DEF MessageLength
  <2> QED
    BY <1>1, <1>5, <2>1, TextOffset
<1> HIDE DEF message
<1>7. PacketOK(failed)
  BY <1>1 DEF PacketOK, NoPacket, Counts
<1>8. PacketOK(going)
  BY <1>1, <1>3 DEF PacketOK, NoPacket, Counts
<1> HIDE DEF failed, going
<1>9. "done" \in Parts /\ FirstPart \in Parts
  BY DEF Parts, FirstPart
<1> QED
  BY <1>3, <1>4, <1>6, <1>7, <1>8, <1>9, TypedGoto

\* One field ahead of others.
LEMMA OneAhead ==
    ASSUME NEW x \in FieldKinds, NEW y \in FieldKinds, NEW z \in FieldKinds
    PROVE  <<x>> \o <<y>> = <<x, y>> /\ <<x>> \o <<y, z>> = <<x, y, z>>
<1> DEFINE a == <<x>>
           b == <<y>>
           c == <<y, z>>
           ab == <<x, y>>
           ac == <<x, y, z>>
<1>1. /\ a \in Seq(FieldKinds) /\ Len(a) = 1 /\ a[1] = x
      /\ b \in Seq(FieldKinds) /\ Len(b) = 1 /\ b[1] = y
      /\ c \in Seq(FieldKinds) /\ Len(c) = 2 /\ c[1] = y /\ c[2] = z
      /\ ab \in Seq(FieldKinds) /\ Len(ab) = 2 /\ ab[1] = x /\ ab[2] = y
      /\ ac \in Seq(FieldKinds) /\ Len(ac) = 3 /\ ac[1] = x /\ ac[2] = y /\ ac[3] = z
  OBVIOUS
<1> HIDE DEF a, b, c, ab, ac
<1>2. Spliced(FieldKinds, a \o b, a, b) /\ Spliced(FieldKinds, a \o c, a, c)
  BY <1>1, ConcatAt
<1>3. a \o b = ab
  <2>1. /\ a \o b \in Seq(FieldKinds) /\ Len(a \o b) = 2 /\ (a \o b)[1] = a[1] /\ (a \o b)[1 + 1] = b[1]
    BY <1>1, <1>2 DEF Spliced
  <2>2. \A i \in 1..2 : (a \o b)[i] = ab[i]
    BY <1>1, <2>1
  <2> QED
    BY <1>1, <2>1, <2>2, SeqEqual
<1>4. a \o c = ac
  <2>1. /\ a \o c \in Seq(FieldKinds) /\ Len(a \o c) = 3 /\ (a \o c)[1] = a[1]
        /\ (a \o c)[1 + 1] = c[1] /\ (a \o c)[1 + 2] = c[2]
    BY <1>1, <1>2 DEF Spliced
  <2>2. \A i \in 1..3 : (a \o c)[i] = ac[i]
    BY <1>1, <2>1
  <2> QED
    BY <1>1, <2>1, <2>2, SeqEqual
<1> QED
  BY <1>3, <1>4 DEF a, b, c, ab, ac

\* The fields of the parts that differ by stage and version.
CountFields == IF stage = "execute" THEN <<"int", "byte", "int">> ELSE <<"byte", "int">>
TupleFields == IF stage = "fetch" THEN <<"int">> ELSE <<"int", "int">>

\* The fields that only some responses have.
LEMMA DifferingFields ==
    /\ (IF stage = "execute" THEN <<"int">> ELSE <<>>) \o <<"byte", "int">> = CountFields
    /\ (IF stage = "fetch" THEN <<>> ELSE <<"int">>) \o <<"int">> = TupleFields
    /\ CountFields \in Seq(FieldKinds) /\ Len(CountFields) > 0 /\ CountFields[Len(CountFields)] = "int"
    /\ TupleFields \in Seq(FieldKinds) /\ Len(TupleFields) > 0 /\ TupleFields[Len(TupleFields)] = "int"
    /\ TailFields \in Seq(FieldKinds)
    /\ TailFields = CASE call.version > 1 /\ call.version > 4 -> <<"byte", "int">>
                      [] call.version > 1 /\ ~(call.version > 4) -> <<"byte">>
                      [] ~(call.version > 1) /\ call.version > 4 -> <<"int">>
                      [] OTHER -> <<>>
<1>1. "int" \in FieldKinds /\ "byte" \in FieldKinds
  BY DEF FieldKinds
<1>2. /\ <<"int">> \o <<"int">> = <<"int", "int">> /\ <<"byte">> \o <<"int">> = <<"byte", "int">>
      /\ <<"int">> \o <<"byte", "int">> = <<"int", "byte", "int">>
  BY <1>1, OneAhead
<1>3. <<>> \o <<"byte", "int">> = <<"byte", "int">>
  OBVIOUS
<1>4. <<>> \o <<"int">> = <<"int">> /\ <<"byte">> \o <<>> = <<"byte">> /\ <<>> \o <<>> = <<>>
  OBVIOUS
<1>5. (IF stage = "execute" THEN <<"int">> ELSE <<>>) \o <<"byte", "int">> = CountFields
  BY <1>2, <1>3, Zenon DEF CountFields
<1>6. (IF stage = "fetch" THEN <<>> ELSE <<"int">>) \o <<"int">> = TupleFields
  BY <1>2, <1>4, Zenon DEF TupleFields
<1>7. CountFields \in Seq(FieldKinds) /\ Len(CountFields) > 0 /\ CountFields[Len(CountFields)] = "int"
  BY <1>1 DEF CountFields
<1>8. TupleFields \in Seq(FieldKinds) /\ Len(TupleFields) > 0 /\ TupleFields[Len(TupleFields)] = "int"
  BY <1>1 DEF TupleFields
<1>9. CASE call.version > 1
  <2>1. CASE call.version > 4
    <3>1. TailFields = <<"byte">> \o <<"int">>
      BY <1>9, <2>1 DEF TailFields
    <3> QED
      BY <1>1, <1>2, <1>5, <1>6, <1>7, <1>8, <1>9, <2>1, <3>1
  <2>2. CASE ~(call.version > 4)
    <3>1. TailFields = <<"byte">> \o <<>>
      BY <1>9, <2>2 DEF TailFields
    <3> QED
      BY <1>1, <1>4, <1>5, <1>6, <1>7, <1>8, <1>9, <2>2, <3>1
  <2> QED
    BY <2>1, <2>2
<1>10. CASE ~(call.version > 1)
  <2>1. CASE call.version > 4
    <3>1. TailFields = <<>> \o <<"int">>
      BY <1>10, <2>1 DEF TailFields
    <3> QED
      BY <1>1, <1>4, <1>5, <1>6, <1>7, <1>8, <1>10, <2>1, <3>1
  <2>2. CASE ~(call.version > 4)
    <3>1. TailFields = <<>> \o <<>>
      BY <1>10, <2>2 DEF TailFields
    <3> QED
      BY <1>4, <1>5, <1>6, <1>7, <1>8, <1>10, <2>2, <3>1
  <2> QED
    BY <2>1, <2>2
<1> QED
  BY <1>9, <1>10

\* a statement's description,
LEMMA TypedStatement ==
    ASSUME Typed, ParseStatement
    PROVE  Typed'
<1> DEFINE kinds == <<"int", "byte", "int", "byte", "int">>
           r == Parse(kinds, offset)
           fields == [packet EXCEPT !.statementType = r.value[2], !.columnCount = r.value[5]]
<1>1. buffer \in Bytes /\ offset \in Int /\ PacketOK(packet)
  BY DEF Typed
<1>2. kinds \in Seq(FieldKinds) /\ Len(kinds) = 5 /\ kinds[2] = "byte" /\ kinds[5] = "int"
  BY DEF FieldKinds
<1>3. Goto("columns", r, fields)
  BY DEF ParseStatement
<1> HIDE DEF kinds
<1>4. r.offset \in Int /\ r.value[2] \in Int /\ r.value[5] \in Int
  BY <1>1, <1>2, ParseOffset
<1> HIDE DEF r
<1>5. PacketOK(fields)
  BY <1>1, <1>4 DEF PacketOK, NoPacket, Counts
<1>6. "columns" \in Parts
  BY DEF Parts
<1> HIDE DEF fields
<1> QED
  BY <1>3, <1>4, <1>5, <1>6, TypedGoto

\* The kinds of the fields of a column.
LEMMA ColumnKinds == ColumnFields \in Seq(FieldKinds)
<1> DEFINE k1 == <<"short", "int", "string">>
           k2 == <<"string", "string", "byte", "string">>
           k3 == [i \in 1..7 |-> "byte"]
           none == <<>>
<1>1. k1 \in Seq(FieldKinds) /\ k2 \in Seq(FieldKinds) /\ k3 \in Seq(FieldKinds) /\ none \in Seq(FieldKinds)
  BY DEF FieldKinds
<1>2. ColumnFields = k1 \o (IF stage = "requestSchema" THEN none ELSE k2 \o k3)
  BY DEF ColumnFields
<1> HIDE DEF k1, k2, k3, none
<1>3. k2 \o k3 \in Seq(FieldKinds)
  BY <1>1
<1> QED
  BY <1>1, <1>2, <1>3

\* a column,
LEMMA TypedColumn ==
    ASSUME Typed, ParseColumn
    PROVE  Typed'
<1>1. buffer \in Bytes /\ offset \in Int /\ PacketOK(packet)
  BY DEF Typed
<1>2. CASE Len(packet.infoArray) < packet.columnCount
  <2> DEFINE type == ParseColumnType(offset)
             r == Parse(ColumnFields, type.offset)
             column == [ColumnType |-> type.value, Name |-> r.value[3]]
             fields == [packet EXCEPT !.infoArray = Append(@, column)]
  <2>1. Goto("columns", r, fields)
    BY <1>2 DEF ParseColumn
  <2>2. type.offset \in Int
    <3> DEFINE legacy == ParseByte(buffer, offset)
    <3>1. legacy.offset = offset + 1
      BY <1>1, NumIsInt
    <3>2. type = legacy \/ type = ParseByte(buffer, legacy.offset)
      BY DEF ParseColumnType
    <3> HIDE DEF legacy, type
    <3>3. legacy.offset \in Int
      BY <1>1, <3>1
    <3>4. ParseByte(buffer, legacy.offset).offset = legacy.offset + 1
      BY <1>1, <3>3, NumIsInt
    <3> QED
      BY <3>2, <3>3, <3>4
  <2> HIDE DEF type
  <2>3. r.offset \in Int
    BY <1>1, <2>2, ColumnKinds, ParseOffset
  <2> HIDE DEF r, column
  <2>4. Listed(Append(packet.infoArray, column))
    BY <1>1, AppendAny DEF PacketOK
  <2>5. PacketOK(fields)
    BY <1>1, <2>4 DEF PacketOK, NoPacket, Counts
  <2>6. "columns" \in Parts
    BY DEF Parts
  <2> HIDE DEF fields
  <2> QED
    BY <2>1, <2>3, <2>5, <2>6, TypedGoto
<1>3. CASE ~(Len(packet.infoArray) < packet.columnCount)
  <2> DEFINE r == ReadAs(Null, offset)
  <2>1. Goto(AfterColumns, r, packet)
    BY <1>3 DEF ParseColumn
  <2>2. AfterColumns \in Parts /\ r.offset \in Int
    BY <1>1 DEF AfterColumns, Parts, ReadAs
  <2> HIDE DEF r
  <2> QED
    BY <1>1, <2>1, <2>2, TypedGoto
<1> QED
  BY <1>2, <1>3

\* The last of several fields.
LEMMA LastField ==
    ASSUME buffer \in Bytes, NEW at \in Int, NEW kinds \in Seq(FieldKinds), Len(kinds) > 0, kinds[Len(kinds)] = "int"
    PROVE  Parse(kinds, at).offset \in Int /\ Last(Parse(kinds, at).value) \in Int
<1> DEFINE r == Parse(kinds, at)
           n == Len(kinds)
<1>1. n \in Nat /\ n \in 1..n
  OBVIOUS
<1>2. Len(r.value) = n
  BY ParseShape
<1>3. r.offset \in Int /\ r.value[n] \in Int
  BY <1>1, ParseOffset
<1> HIDE DEF r, n
<1>4. Last(r.value) = r.value[n]
  BY <1>2 DEF Last
<1> QED
  BY <1>3, <1>4 DEF r

\* the counts,
LEMMA TypedCounts ==
    ASSUME Typed, ParseCounts
    PROVE  Typed'
<1> DEFINE kinds == CountFields
           r == Parse(kinds, offset)
           fields == [packet EXCEPT !.resultCount = Last(r.value), !.resultInfos = 0]
<1>1. buffer \in Bytes /\ offset \in Int /\ PacketOK(packet)
  BY DEF Typed
<1>2. kinds \in Seq(FieldKinds) /\ Len(kinds) > 0 /\ kinds[Len(kinds)] = "int"
  BY DifferingFields
<1>3. Goto("results", r, fields)
  BY DifferingFields DEF ParseCounts
<1> HIDE DEF kinds
<1>4. r.offset \in Int /\ Last(r.value) \in Int
  BY <1>1, <1>2, LastField
<1> HIDE DEF r
<1>5. PacketOK(fields)
  BY <1>1, <1>4 DEF PacketOK, NoPacket, Counts
<1>6. "results" \in Parts
  BY DEF Parts
<1> HIDE DEF fields
<1> QED
  BY <1>3, <1>4, <1>5, <1>6, TypedGoto

\* the result of one statement,
LEMMA TypedResultInfo ==
    ASSUME Typed, ParseResultInfo
    PROVE  Typed'
<1>1. buffer \in Bytes /\ offset \in Int /\ PacketOK(packet)
  BY DEF Typed
<1>2. "results" \in Parts /\ "tail" \in Parts
  BY DEF Parts
<1>3. CASE packet.resultInfos < packet.resultCount
  <2> DEFINE kinds == <<"byte", "int", "oid", "int", "int">>
             r == Parse(kinds, offset)
             fields == [packet EXCEPT !.resultInfos = @ + 1]
  <2>1. kinds \in Seq(FieldKinds)
    BY DEF FieldKinds
  <2>2. Goto("results", r, fields)
    BY <1>3 DEF ParseResultInfo
  <2> HIDE DEF kinds
  <2>3. r.offset \in Int
    BY <1>1, <2>1, ParseOffset
  <2>4. PacketOK(fields)
    BY <1>1 DEF PacketOK, NoPacket, Counts
  <2> HIDE DEF r, fields
  <2> QED
    BY <1>2, <2>2, <2>3, <2>4, TypedGoto
<1>4. CASE ~(packet.resultInfos < packet.resultCount)
  <2> DEFINE r == ReadAs(Null, offset)
  <2>1. Goto("tail", r, packet) /\ r.offset \in Int
    BY <1>1, <1>4 DEF ParseResultInfo, ReadAs
  <2> HIDE DEF r
  <2> QED
    BY <1>1, <1>2, <2>1, TypedGoto
<1> QED
  BY <1>3, <1>4

\* the tail,
LEMMA TypedTail ==
    ASSUME Typed, ParseTail
    PROVE  Typed'
<1> DEFINE kinds == TailFields
           r == Parse(kinds, offset)
           fields == [packet EXCEPT !.currentTupleCount = 0]
<1>1. buffer \in Bytes /\ offset \in Int /\ PacketOK(packet)
  BY DEF Typed
<1>2. kinds \in Seq(FieldKinds)
  BY DifferingFields
<1>3. Goto("tuples", r, fields) \/ Goto("done", r, packet)
  BY DEF ParseTail
<1> HIDE DEF kinds
<1>4. r.offset \in Int
  BY <1>1, <1>2, ParseOffset
<1>5. PacketOK(fields)
  BY <1>1 DEF PacketOK, NoPacket, Counts
<1>6. "tuples" \in Parts /\ "done" \in Parts
  BY DEF Parts
<1> HIDE DEF r, fields
<1> QED
  BY <1>1, <1>3, <1>4, <1>5, <1>6, TypedGoto

\* the number of rows,
LEMMA TypedTuples ==
    ASSUME Typed, ParseTuples
    PROVE  Typed'
<1> DEFINE kinds == TupleFields
           r == Parse(kinds, offset)
           fields == [packet EXCEPT !.tupleCount = Last(r.value), !.read = 0]
<1>1. buffer \in Bytes /\ offset \in Int /\ PacketOK(packet)
  BY DEF Typed
<1>2. kinds \in Seq(FieldKinds) /\ Len(kinds) > 0 /\ kinds[Len(kinds)] = "int"
  BY DifferingFields
<1>3. Goto("rows", r, fields)
  BY DifferingFields DEF ParseTuples
<1> HIDE DEF kinds
<1>4. r.offset \in Int /\ Last(r.value) \in Int
  BY <1>1, <1>2, LastField
<1> HIDE DEF r
<1>5. PacketOK(fields)
  BY <1>1, <1>4 DEF PacketOK, NoPacket, Counts
<1>6. "rows" \in Parts
  BY DEF Parts
<1> HIDE DEF fields
<1> QED
  BY <1>3, <1>4, <1>5, <1>6, TypedGoto

\* a row,
LEMMA TypedRow ==
    ASSUME Typed, ParseRow
    PROVE  Typed'
<1>1. buffer \in Bytes /\ offset \in Int /\ PacketOK(packet)
  BY DEF Typed
<1>2. "rows" \in Parts /\ "done" \in Parts
  BY DEF Parts
<1>3. CASE packet.read < packet.tupleCount
  <2> DEFINE columns == packet.infoArray
             at == Parse(<<"int", "oid">>, offset).offset
             r == ParseCells(columns, at)
             fields == [packet EXCEPT !.rows = Append(@, r.value), !.read = @ + 1]
  <2>1. Goto("rows", r, fields)
    BY <1>3 DEF ParseRow
  <2>2. at \in Int
    BY <1>1, RowHead
  <2>3. Len(columns) \in Nat
    BY <1>1 DEF PacketOK, Listed
  <2> HIDE DEF at
  <2>4. r.offset \in Int
    <3> HIDE DEF columns
    <3>1. r.offset = CellEnds(columns, at)[Len(columns)]
      BY DEF ParseCells, ReadAs
    <3>2. \A n \in 0..Len(columns) : CellEnds(columns, at)[n] \in Int
      BY <1>1, <2>2, <2>3, CellEndsStep
    <3> QED
      BY <2>3, <3>1, <3>2
  <2> HIDE DEF r
  <2>5. Listed(Append(packet.rows, r.value))
    BY <1>1, AppendAny DEF PacketOK
  <2>6. PacketOK(fields)
    BY <1>1, <2>5 DEF PacketOK, NoPacket, Counts
  <2> HIDE DEF fields
  <2> QED
    BY <1>2, <2>1, <2>4, <2>6, TypedGoto
<1>4. CASE ~(packet.read < packet.tupleCount)
  <2> DEFINE r == ReadAs(Null, offset)
             fields == [packet EXCEPT !.currentTupleCount = @ + packet.tupleCount]
  <2>1. Goto("done", r, fields) /\ r.offset \in Int
    BY <1>1, <1>4 DEF ParseRow, ReadAs
  <2>2. PacketOK(fields)
    BY <1>1 DEF PacketOK, NoPacket, Counts
  <2> HIDE DEF r, fields
  <2> QED
    BY <1>2, <2>1, <2>2, TypedGoto
<1> QED
  BY <1>3, <1>4

\* a schema's columns,
LEMMA TypedSchema ==
    ASSUME Typed, ParseSchema
    PROVE  Typed'
<1>1. buffer \in Bytes /\ offset \in Int /\ PacketOK(packet)
  BY DEF Typed
<1>2. "columns" \in Parts /\ "schemaRows" \in Parts
  BY DEF Parts
<1>3. CASE stage = "requestSchema"
  <2> DEFINE kinds == <<"int", "int">>
             r == Parse(kinds, offset)
             fields == [packet EXCEPT !.tupleCount = r.value[1], !.columnCount = r.value[2]]
  <2>1. kinds \in Seq(FieldKinds) /\ Len(kinds) = 2 /\ kinds[1] = "int" /\ kinds[2] = "int"
    BY DEF FieldKinds
  <2>2. Goto("columns", r, fields)
    BY <1>3 DEF ParseSchema
  <2> HIDE DEF kinds
  <2>3. r.offset \in Int /\ r.value[1] \in Int /\ r.value[2] \in Int
    BY <1>1, <2>1, ParseOffset
  <2> HIDE DEF r
  <2>4. PacketOK(fields)
    BY <1>1, <2>3 DEF PacketOK, NoPacket, Counts
  <2> HIDE DEF fields
  <2> QED
    BY <1>2, <2>2, <2>3, <2>4, TypedGoto
<1>4. CASE stage # "requestSchema"
  <2> DEFINE kinds == <<"int">>
             r == Parse(kinds, offset)
             fields == [packet EXCEPT !.tupleCount = r.value[1], !.read = 0]
  <2>1. kinds \in Seq(FieldKinds) /\ Len(kinds) = 1 /\ kinds[1] = "int"
    BY DEF FieldKinds
  <2>2. Goto("schemaRows", r, fields)
    BY <1>4 DEF ParseSchema
  <2> HIDE DEF kinds
  <2>3. r.offset \in Int /\ r.value[1] \in Int
    BY <1>1, <2>1, ParseOffset
  <2> HIDE DEF r
  <2>4. PacketOK(fields)
    BY <1>1, <2>3 DEF PacketOK, NoPacket, Counts
  <2> HIDE DEF fields
  <2> QED
    BY <1>2, <2>2, <2>3, <2>4, TypedGoto
<1> QED
  BY <1>3, <1>4

\* a row of a schema,
LEMMA TypedSchemaRow ==
    ASSUME Typed, ParseSchemaRow
    PROVE  Typed'
<1>1. buffer \in Bytes /\ offset \in Int /\ PacketOK(packet)
  BY DEF Typed
<1>2. "schemaRows" \in Parts /\ "done" \in Parts
  BY DEF Parts
<1>3. CASE packet.read < packet.tupleCount
  <2> DEFINE head == <<"int", "oid">>
             rest == SchemaFields(call.schemaType)
             kinds == head \o rest
             r == Parse(kinds, offset)
             row == SubSeq(r.value, 3, Len(r.value))
             fields == [packet EXCEPT !.rows = Append(@, row), !.read = @ + 1]
  <2>1. head \in Seq(FieldKinds)
    BY DEF FieldKinds
  <2>2. rest \in Seq(FieldKinds)
    BY SchemaShapes
  <2>3. Goto("schemaRows", r, fields)
    BY <1>3 DEF ParseSchemaRow
  <2> HIDE DEF head, rest
  <2>4. kinds \in Seq(FieldKinds)
    BY <2>1, <2>2
  <2> HIDE DEF kinds
  <2>5. r.offset \in Int
    BY <1>1, <2>4, ParseOffset
  <2> HIDE DEF r, row
  <2>6. Listed(Append(packet.rows, row))
    BY <1>1, AppendAny DEF PacketOK
  <2>7. PacketOK(fields)
    BY <1>1, <2>6 DEF PacketOK, NoPacket, Counts
  <2> HIDE DEF fields
  <2> QED
    BY <1>2, <2>3, <2>5, <2>7, TypedGoto
<1>4. CASE ~(packet.read < packet.tupleCount)
  <2> DEFINE r == ReadAs(Null, offset)
  <2>1. Goto("done", r, packet) /\ r.offset \in Int
    BY <1>1, <1>4 DEF ParseSchemaRow, ReadAs
  <2> HIDE DEF r
  <2> QED
    BY <1>1, <1>2, <2>1, TypedGoto
<1> QED
  BY <1>3, <1>4

\* the number of a batch's results,
LEMMA TypedBatch ==
    ASSUME Typed, ParseBatch
    PROVE  Typed'
<1> DEFINE kinds == <<"int">>
           r == Parse(kinds, offset)
           fields == [packet EXCEPT !.executedCount = r.value[1]]
<1>1. buffer \in Bytes /\ offset \in Int /\ PacketOK(packet)
  BY DEF Typed
<1>2. kinds \in Seq(FieldKinds) /\ Len(kinds) = 1 /\ kinds[1] = "int"
  BY DEF FieldKinds
<1>3. Goto("executed", r, fields)
  BY DEF ParseBatch
<1> HIDE DEF kinds
<1>4. r.offset \in Int /\ r.value[1] \in Int
  BY <1>1, <1>2, ParseOffset
<1> HIDE DEF r
<1>5. PacketOK(fields)
  BY <1>1, <1>4 DEF PacketOK, NoPacket, Counts
<1>6. "executed" \in Parts
  BY DEF Parts
<1> HIDE DEF fields
<1> QED
  BY <1>3, <1>4, <1>5, <1>6, TypedGoto

\* one of these,
LEMMA TypedExecuted ==
    ASSUME Typed, ParseExecuted
    PROVE  Typed'
<1>1. buffer \in Bytes /\ offset \in Int /\ PacketOK(packet)
  BY DEF Typed
<1>2. "executed" \in Parts /\ "done" \in Parts
  BY DEF Parts
<1>3. CASE packet.read < packet.executedCount
  <2> DEFINE k1 == <<"byte", "int">>
             k2 == <<"string">>
             k3 == <<"int", "short", "short">>
             head == Parse(k1, offset)
             count == head.value[2]
             number == IF call.version > 2 THEN ParseInt(buffer, head.offset) ELSE ReadAs(count, head.offset)
             message == Parse(k2, number.offset)
             changed == Parse(k3, head.offset)
             failed == [packet EXCEPT !.read = @ + 1,
                             !.errors = Append(@, [code |-> number.value, message |-> message.value[1]])]
             done == [packet EXCEPT !.read = @ + 1, !.results = Append(@, count)]
  <2>1. k1 \in Seq(FieldKinds) /\ k2 \in Seq(FieldKinds) /\ k3 \in Seq(FieldKinds)
    BY DEF FieldKinds
  <2>2. Goto("executed", message, failed) \/ Goto("executed", changed, done)
    BY <1>3 DEF ParseExecuted
  <2> HIDE DEF k1, k2, k3
  <2>3. head.offset \in Int
    BY <1>1, <2>1, ParseOffset
  <2> HIDE DEF head, count
  <2>4. number.offset \in Int
    <3>1. ParseInt(buffer, head.offset).offset = head.offset + 4
      BY <1>1, <2>3, NumIsInt
    <3> QED
      BY <2>3, <3>1 DEF ReadAs
  <2> HIDE DEF number
  <2>5. message.offset \in Int
    BY <1>1, <2>1, <2>4, ParseOffset
  <2>6. changed.offset \in Int
    BY <1>1, <2>1, <2>3, ParseOffset
  <2> HIDE DEF message, changed
  <2>7. PacketOK(failed)
    BY <1>1 DEF PacketOK, NoPacket, Counts
  <2>8. PacketOK(done)
    BY <1>1 DEF PacketOK, NoPacket, Counts
  <2> HIDE DEF failed, done
  <2> QED
    BY <1>2, <2>2, <2>5, <2>6, <2>7, <2>8, TypedGoto
<1>4. CASE ~(packet.read < packet.executedCount)
  <2> DEFINE kinds == IF call.version > 4 THEN <<"int">> ELSE <<>>
             r == Parse(kinds, offset)
  <2>1. kinds \in Seq(FieldKinds)
    <3> DEFINE one == <<"int">>
               none == <<>>
    <3>1. one \in Seq(FieldKinds) /\ none \in Seq(FieldKinds)
      BY DEF FieldKinds
    <3>2. kinds = one \/ kinds = none
      OBVIOUS
    <3> HIDE DEF one, none, kinds
    <3> QED
      BY <3>1, <3>2
  <2>2. Goto("done", r, packet)
    BY <1>4 DEF ParseExecuted
  <2> HIDE DEF kinds
  <2>3. r.offset \in Int
    BY <1>1, <2>1, ParseOffset
  <2> HIDE DEF r
  <2> QED
    BY <1>1, <1>2, <2>2, <2>3, TypedGoto
<1> QED
  BY <1>3, <1>4

\* The stages whose response is a single value are known to be so.
ValuePart == pc = "value" => stage \in ValueStages

\* and a single value.
LEMMA TypedValue ==
    ASSUME Typed, ValuePart, ParseValue
    PROVE  Typed'
<1> DEFINE rest == packet.length - 4
           id == ParseInt(buffer, offset + 8)
           opened == ReadAs([version |-> ProtocolVersion(ByteAt(buffer, offset + 4)), sessionId |-> id.value], id.offset)
           text == ParseNullTerminatedString(buffer, offset, rest)
           number == ParseInt(buffer, offset)
           coded == ReadAs(packet.code, offset)
           bytes == ParseBytes(buffer, offset, packet.code)
           lob == ReadAs(Slice(buffer, offset + 16, rest - 16 - 1), offset + rest)
           value == CASE stage = "openDatabase" -> opened
                      [] stage = "engineVersion" -> text
                      [] stage = "dbParameter" -> number
                      [] stage = "responseCode" -> coded
                      [] stage = "lobRead" -> bytes
                      [] stage = "lobNew" -> lob
           fields == [packet EXCEPT !.value = value.value]
<1>1. buffer \in Bytes /\ offset \in Int /\ PacketOK(packet)
  BY DEF Typed
<1>2. packet.length \in Int /\ packet.code \in Int /\ rest \in Int
  BY <1>1 DEF PacketOK, Counts
<1>3. stage \in ValueStages
  BY DEF ValuePart, ParseValue
<1>4. Goto("done", value, fields)
  BY DEF ParseValue
<1>5. opened.offset \in Int
  <2>1. offset + 8 \in Int
    BY <1>1
  <2>2. id.offset = (offset + 8) + 4
    BY <1>1, <2>1, NumIsInt
  <2> HIDE DEF id
  <2> QED
    BY <2>1, <2>2 DEF ReadAs
<1>6. text.offset \in Int /\ number.offset \in Int
  <2>1. text.offset \in Int
    BY <1>1, <1>2, TextOffset
  <2>2. number.offset = offset + 4
    BY <1>1, NumIsInt
  <2> QED
    BY <1>1, <2>1, <2>2
<1>7. coded.offset \in Int /\ bytes.offset \in Int /\ lob.offset \in Int
  BY <1>1, <1>2 DEF ReadAs, ParseBytes
<1> HIDE DEF opened, text, number, coded, bytes, lob
<1>8. value.offset \in Int
  BY <1>3, <1>5, <1>6, <1>7 DEF ValueStages
<1> HIDE DEF value
<1>9. PacketOK(fields)
  BY <1>1 DEF PacketOK, NoPacket, Counts
<1>10. "done" \in Parts
  BY DEF Parts
<1> HIDE DEF fields
<1> QED
  BY <1>4, <1>8, <1>9, <1>10, TypedGoto

\* The responses of one value stay responses of one value.
LEMMA StepValuePart ==
    ASSUME Typed, ValuePart, [Next]_vars
    PROVE  ValuePart'
<1>1. CASE ParseHeader
  <2>1. pc' = "done" \/ (pc' = FirstPart /\ UNCHANGED stage)
    BY <1>1 DEF ParseHeader, Goto
  <2>2. call \in Calls /\ stage \in StagesOf(call.kind)
    BY DEF Typed, Arrived
  <2>3. FirstPart = "value" => stage \in ValueStages
    <3>1. call.kind \in {"execute", "prepare"} => stage \in {"execute", "prepare", "executePrepared", "fetch"}
      BY <2>2, StagesByKind
    <3>2. call.kind = "requestSchema" => stage \in {"requestSchema", "fetchSchema"}
      BY <2>2, StagesByKind
    <3>3. call.kind = "batch" => stage = "batch"
      BY <2>2, StagesByKind
    <3>4. call.kind \in ValueStages => stage \in ValueStages
      BY <2>2, StagesByKind
    <3>5. \/ call.kind \in {"execute", "prepare"} \/ call.kind = "requestSchema" \/ call.kind = "batch"
          \/ call.kind \in ValueStages
      BY <2>2, CallFacts
    <3> QED
      BY <3>1, <3>2, <3>3, <3>4, <3>5 DEF FirstPart
  <2> QED
    BY <2>1, <2>3 DEF ValuePart
<1>2. CASE \/ ParseStatement \/ ParseColumn \/ ParseCounts \/ ParseResultInfo
           \/ ParseTail \/ ParseTuples \/ ParseRow \/ ParseSchema \/ ParseSchemaRow
           \/ ParseBatch \/ ParseExecuted \/ ParseValue
  <2>1. pc' \in {"columns", "counts", "results", "tail", "tuples", "rows", "schemaRows", "executed", "done"}
    BY <1>2 DEF ParseStatement, ParseColumn, AfterColumns, ParseCounts, ParseResultInfo, ParseTail, ParseTuples,
        ParseRow, ParseSchema, ParseSchemaRow, ParseBatch, ParseExecuted, ParseValue, Goto
  <2> QED
    BY <2>1 DEF ValuePart
<1>3. CASE ExecutePrepared \/ FetchSchema \/ Fetch
  BY <1>3 DEF ExecutePrepared, FetchSchema, Fetch, Expect, ValuePart
<1>4. CASE UNCHANGED vars
  BY <1>4 DEF vars, ValuePart
<1> QED
  BY <1>1, <1>2, <1>3, <1>4 DEF Next

-----------------------------------------------------------------------------
(* The parameters of an execution. *)

\* The type a parameter is written as.
NamedType(name) == IF name = "varchar" THEN "string" ELSE name
ParamHead(name) == WriteInt(1) \o <<CUBRIDDataType[NamedType(name)]>>

\* What is written of a parameter of each type.
LEMMA WriteParamValueOf ==
    ASSUME NEW name \in ParamTypes, NEW v
    PROVE  LET type == NamedType(name)
               Written(octets) == WriteParamValue(name, v) = ParamHead(name) \o octets
           IN  /\ type \in Types \ {"null", "enum"} /\ type \notin ZonedTypes
               /\ type \in TextTypes \cup {"numeric"} => Written(WriteNullTerminatedString(v))
               /\ type = "short" => Written(Add(WriteNum(v, 2)))
               /\ type = "int" => Written(Add(WriteInt(v)))
               /\ type = "bigint" => Written(Add(WriteLong(v)))
               /\ type \in {"float", "double", "monetary", "bit", "varbit"} => Written(Add(v))
               /\ type = "date" => Written(Add(WriteDate(v)))
               /\ type = "time" => Written(Add(WriteTime(v)))
               /\ type = "datetime" => Written(Add(WriteDateTime(v)))
               /\ type = "timestamp" => Written(Add(WriteTimestamp(v)))
               /\ type \in LobTypes => Written(WriteLob(name, v))
               /\ type \in SetTypes \cup {"object"} => Written(WriteInt(0) \o <<0>>)
               /\ type = "resultset" => Written(WriteInt(4) \o <<0>>)
<1> DEFINE type == NamedType(name)
           n == CUBRIDDataType[type]
           Is(types) == n \in Numbers(types)
<1>1. type \in Types \ {"null", "enum"} /\ type \notin ZonedTypes
  BY DEF NamedType, ParamTypes, Types, CUBRIDDataType, ZonedTypes
<1>2. \A types \in SUBSET Types : Is(types) <=> type \in types
  <2> HIDE DEF type
  <2> QED
    BY <1>1, NumbersOf
<1>3. /\ TextTypes \cup {"numeric"} \subseteq Types /\ SetTypes \cup {"object"} \subseteq Types /\ LobTypes \subseteq Types
      /\ {"short", "int", "bigint", "float", "double", "monetary", "date", "time",
          "datetime", "timestamp", "bit", "varbit", "resultset"} \subseteq Types
  BY DEF TextTypes, SetTypes, LobTypes, Types, CUBRIDDataType
<1>4. /\ Is(TextTypes \cup {"numeric"}) <=> type \in TextTypes \cup {"numeric"}
      /\ Is({"short"}) <=> type = "short"
      /\ Is({"int"}) <=> type = "int"
      /\ Is({"bigint"}) <=> type = "bigint"
      /\ Is({"float", "double", "monetary", "bit", "varbit"}) <=> type \in {"float", "double", "monetary", "bit", "varbit"}
      /\ Is({"date"}) <=> type = "date"
      /\ Is({"time"}) <=> type = "time"
      /\ Is({"datetime"}) <=> type = "datetime"
      /\ Is({"timestamp"}) <=> type = "timestamp"
      /\ Is(SetTypes \cup {"object"}) <=> type \in SetTypes \cup {"object"}
      /\ Is(LobTypes) <=> type \in LobTypes
      /\ Is({"resultset"}) <=> type = "resultset"
  <2> HIDE DEF Is, type
  <2> QED
    BY <1>2, <1>3
<1>5. n = DataTypeNumber(name)
  BY <1>1 DEF DataTypeNumber, NamedType
<1>6. Add(<<n>>) = ParamHead(name)
  <2> HIDE DEF n
  <2>1. Len(<<n>>) = 1
    OBVIOUS
  <2> QED
    BY <2>1 DEF Add, ParamHead, n
<1> DEFINE head == ParamHead(name)
           text == head \o WriteNullTerminatedString(v)
           short == head \o Add(WriteNum(v, 2))
           int == head \o Add(WriteInt(v))
           bigint == head \o Add(WriteLong(v))
           fixed == head \o Add(v)
           date == head \o Add(WriteDate(v))
           time == head \o Add(WriteTime(v))
           datetime == head \o Add(WriteDateTime(v))
           timestamp == head \o Add(WriteTimestamp(v))
           lob == head \o WriteLob(name, v)
           set == head \o (WriteInt(0) \o <<0>>)
           result == head \o (WriteInt(4) \o <<0>>)
           written == WriteParamValue(name, v)
<1> HIDE DEF Is, n, head
<1>7. written = head \o
        CASE Is(TextTypes \cup {"numeric"}) -> WriteNullTerminatedString(v)
          [] Is({"short"}) -> Add(WriteNum(v, 2))
          [] Is({"int"}) -> Add(WriteInt(v))
          [] Is({"bigint"}) -> Add(WriteLong(v))
          [] Is({"float", "double", "monetary", "bit", "varbit"}) -> Add(v)
          [] Is({"date"}) -> Add(WriteDate(v))
          [] Is({"time"}) -> Add(WriteTime(v))
          [] Is({"datetime"}) -> Add(WriteDateTime(v))
          [] Is({"timestamp"}) -> Add(WriteTimestamp(v))
          [] Is(LobTypes) -> WriteLob(name, v)
          [] Is(SetTypes \cup {"object"}) -> WriteInt(0) \o <<0>>
          [] Is({"resultset"}) -> WriteInt(4) \o <<0>>
  BY <1>5, <1>6 DEF WriteParamValue, Is, head
<1> HIDE DEF written, type
<1>8. /\ type \in TextTypes \cup {"numeric"} => written = text
      /\ type = "short" => written = short
      /\ type = "int" => written = int
      /\ type = "bigint" => written = bigint
      /\ type \in {"float", "double", "monetary", "bit", "varbit"} => written = fixed
      /\ type = "date" => written = date
      /\ type = "time" => written = time
      /\ type = "datetime" => written = datetime
      /\ type = "timestamp" => written = timestamp
      /\ type \in LobTypes => written = lob
      /\ type \in SetTypes \cup {"object"} => written = set
      /\ type = "resultset" => written = result
  BY <1>4, <1>7 DEF TextTypes, SetTypes, LobTypes
<1> QED
  BY <1>1, <1>8 DEF written, head, type

\* What the server takes of a parameter of each type.
LEMMA ParamOctetsOf ==
    ASSUME NEW name \in ParamTypes, NEW v
    PROVE  LET type == NamedType(name)
               Taken(octets) == ParamOctets(name, v) = ParamHead(name) \o octets
               stamp == [v EXCEPT ![2] = @ + 1]
               sized == ValueOctets(type, v)
           IN  /\ type = "date" => Taken(Int4(14) \o Shorts2(SubSeq(stamp, 1, 3) \o <<0, 0, 0, 0>>))
               /\ type = "time" => Taken(Int4(14) \o Shorts2(<<0, 0, 0>> \o SubSeq(v, 4, 6) \o <<0>>))
               /\ type = "timestamp" => Taken(Int4(14) \o Shorts2(SubSeq(stamp, 1, 6) \o <<0>>))
               /\ type = "datetime" => Taken(Int4(14) \o Shorts2(stamp))
               /\ type \notin {"date", "time", "timestamp", "datetime"} => Taken(Int4(Len(sized)) \o sized)
<1> DEFINE type == NamedType(name)
           head == ParamHead(name)
           stamp == [v EXCEPT ![2] = @ + 1]
           sized == ValueOctets(type, v)
           date == Int4(14) \o Shorts2(SubSeq(stamp, 1, 3) \o <<0, 0, 0, 0>>)
           time == Int4(14) \o Shorts2(<<0, 0, 0>> \o SubSeq(v, 4, 6) \o <<0>>)
           timestamp == Int4(14) \o Shorts2(SubSeq(stamp, 1, 6) \o <<0>>)
           datetime == Int4(14) \o Shorts2(stamp)
           other == Int4(Len(sized)) \o sized
           octets == ParamOctets(name, v)
<1>1. Int4(1) \o <<CUBRIDDataType[type]>> = head
  BY OctetsWritten DEF ParamHead
<1>2. octets = Int4(1) \o <<CUBRIDDataType[type]>> \o
        CASE type = "date" -> date
          [] type = "time" -> time
          [] type = "timestamp" -> timestamp
          [] type = "datetime" -> datetime
          [] OTHER -> other
  BY DEF ParamOctets, NamedType
<1> HIDE DEF type, head, date, time, timestamp, datetime, other, octets
<1>3. /\ type = "date" => octets = head \o date
      /\ type = "time" => octets = head \o time
      /\ type = "timestamp" => octets = head \o timestamp
      /\ type = "datetime" => octets = head \o datetime
      /\ type \notin {"date", "time", "timestamp", "datetime"} => octets = head \o other
  BY <1>1, <1>2
<1> QED
  BY <1>3 DEF type, head, date, time, timestamp, datetime, other, octets

\* A date is written with its month counted from 1.
LEMMA DateWritten ==
    ASSUME NEW d \in [1..7 -> Int], NEW f \in [1..7 -> Int],
           \A i \in 1..7 : f[i] = IF i = 2 THEN d[i] + 1 ELSE d[i]
    PROVE  /\ WriteDateTime(d) = Shorts2(f)
           /\ Shorts2(f) \in Bytes /\ Len(Shorts2(f)) = 14
<1> DEFINE x == [i \in 1..7 |-> WriteNum(IF i = 2 THEN d[i] + 1 ELSE d[i], 2)]
           y == [i \in 1..7 |-> Octets(f[i], 2)]
<1>1. \A n : Octets(n, 2) = WriteNum(n, 2)
  BY OctetsWritten
<1>2. \A i \in 1..7 : WriteNum(IF i = 2 THEN d[i] + 1 ELSE d[i], 2) = Octets(f[i], 2)
  BY <1>1
<1>3. x = y
  BY <1>2
<1>4. DOMAIN f = 1..7
  OBVIOUS
<1>5. Shorts2(f) = FlattenSeq(y)
  BY <1>4 DEF Shorts2
<1>6. WriteDateTime(d) = FlattenSeq(x)
  BY DEF WriteDateTime
<1>7. Shorts2(f) \in Bytes /\ Len(Shorts2(f)) = 2 * 7
  <2>1. 7 \in Nat
    OBVIOUS
  <2> QED
    BY <2>1, ShortsBytes
<1> QED
  BY <1>3, <1>5, <1>6, <1>7

Elements(all, k, x, n, y) == \A i \in 1..k : all[i] = IF i <= n THEN x[i] ELSE y[i - n]

\* What is at each place of two sequences that are spliced.
LEMMA SplicedAt ==
    ASSUME NEW S, NEW all, NEW x, NEW y, Spliced(S, all, x, y), Len(x) \in Nat, Len(y) \in Nat
    PROVE  Elements(all, Len(all), x, Len(x), y)
<1>1. Len(all) = Len(x) + Len(y)
  BY DEF Spliced
<1>2. ASSUME NEW i \in 1..Len(all)
      PROVE  all[i] = IF i <= Len(x) THEN x[i] ELSE y[i - Len(x)]
  <2>1. CASE i <= Len(x)
    BY <1>1, <2>1 DEF Spliced
  <2>2. CASE i > Len(x)
    <3>1. i - Len(x) \in 1..Len(y)
      BY <1>1, <2>2
    <3>2. all[Len(x) + (i - Len(x))] = y[i - Len(x)]
      BY <3>1 DEF Spliced
    <3> QED
      BY <1>1, <2>2, <3>2
  <2> QED
    BY <1>1, <2>1, <2>2
<1> QED
  BY <1>2 DEF Elements

\* The parts of a date that are written, with zeros for the others.
LEMMA DateParts ==
    ASSUME NEW v \in [1..7 -> Int], NEW x \in Int
    PROVE  /\ SubSeq(v, 1, 3) \o <<0, 0, 0, 0>> = <<v[1], v[2], v[3], 0, 0, 0, 0>>
           /\ <<0, x, 0>> \o SubSeq(v, 4, 6) \o <<0>> = <<0, x, 0, v[4], v[5], v[6], 0>>
           /\ SubSeq(v, 1, 6) \o <<0>> = <<v[1], v[2], v[3], v[4], v[5], v[6], 0>>
<1> DEFINE day == SubSeq(v, 1, 3)
           clock == SubSeq(v, 4, 6)
           both == SubSeq(v, 1, 6)
           zero == <<0>>
           zeros == <<0, 0, 0, 0>>
           front == <<0, x, 0>>
           d == <<v[1], v[2], v[3], 0, 0, 0, 0>>
           m == <<0, x, 0, v[4], v[5], v[6]>>
           t == <<0, x, 0, v[4], v[5], v[6], 0>>
           s == <<v[1], v[2], v[3], v[4], v[5], v[6], 0>>
<1>1. v \in Seq(Int) /\ Len(v) = 7
  <2>1. 7 \in Nat /\ v = [i \in 1..7 |-> v[i]] /\ \A i \in 1..7 : v[i] \in Int
    OBVIOUS
  <2> QED
    BY <2>1
<1>2. \A i \in 1..7 : v[i] \in Int
  OBVIOUS
<1>3. /\ day \in Seq(Int) /\ Len(day) = 3 /\ day[1] = v[1] /\ day[2] = v[2] /\ day[3] = v[3]
      /\ clock \in Seq(Int) /\ Len(clock) = 3 /\ clock[1] = v[4] /\ clock[2] = v[5] /\ clock[3] = v[6]
      /\ both \in Seq(Int) /\ Len(both) = 6 /\ both[1] = v[1] /\ both[2] = v[2] /\ both[3] = v[3]
      /\ both[4] = v[4] /\ both[5] = v[5] /\ both[6] = v[6]
  BY <1>1
<1>4. /\ zero \in Seq(Int) /\ Len(zero) = 1 /\ zero[1] = 0
      /\ zeros \in Seq(Int) /\ Len(zeros) = 4 /\ zeros[1] = 0 /\ zeros[2] = 0 /\ zeros[3] = 0 /\ zeros[4] = 0
      /\ front \in Seq(Int) /\ Len(front) = 3 /\ front[1] = 0 /\ front[2] = x /\ front[3] = 0
  OBVIOUS
<1>5. d \in Seq(Int) /\ Len(d) = 7 /\ m \in Seq(Int) /\ Len(m) = 6 /\ t \in Seq(Int) /\ Len(t) = 7
      /\ s \in Seq(Int) /\ Len(s) = 7
  BY <1>2
<1>6. /\ d[1] = v[1] /\ d[2] = v[2] /\ d[3] = v[3] /\ d[4] = 0 /\ d[5] = 0 /\ d[6] = 0 /\ d[7] = 0
      /\ m[1] = 0 /\ m[2] = x /\ m[3] = 0 /\ m[4] = v[4] /\ m[5] = v[5] /\ m[6] = v[6]
      /\ t[1] = 0 /\ t[2] = x /\ t[3] = 0 /\ t[4] = v[4] /\ t[5] = v[5] /\ t[6] = v[6] /\ t[7] = 0
      /\ s[1] = v[1] /\ s[2] = v[2] /\ s[3] = v[3] /\ s[4] = v[4] /\ s[5] = v[5] /\ s[6] = v[6] /\ s[7] = 0
  OBVIOUS
<1> HIDE DEF day, clock, both, zero, zeros, front, d, m, t, s
<1>7. day \o zeros = d
  <2> DEFINE all == day \o zeros
  <2>1. \A i \in 1..7 : i = 1 \/ i = 2 \/ i = 3 \/ i = 4 \/ i = 5 \/ i = 6 \/ i = 7
    OBVIOUS
  <2>2. Spliced(Int, all, day, zeros) /\ Len(day) = 3 /\ Len(zeros) = 4
    BY <1>3, <1>4, <1>5, ConcatAt
  <2>3. 3 \in Nat /\ 4 \in Nat /\ 7 = 3 + 4
    OBVIOUS
  <2> HIDE DEF all
  <2>4. all \in Seq(Int) /\ Len(all) = 7 /\ Elements(all, Len(all), day, Len(day), zeros)
    <3>1. Elements(all, Len(all), day, Len(day), zeros)
      BY <2>2, <2>3, SplicedAt
    <3> QED
      BY <2>2, <3>1 DEF Spliced
  <2>5. \A i \in 1..7 : d[i] = IF i <= 3 THEN day[i] ELSE zeros[i - 3]
    BY <1>3, <1>4, <1>6, <2>1, SMTT(30)
  <2>6. Len(all) = Len(d) /\ \A i \in 1..Len(all) : all[i] = d[i]
    BY <1>5, <2>2, <2>4, <2>5 DEF Elements
  <2>7. all = d
    BY <1>5, <2>4, <2>6, SeqEqual
  <2> QED
    BY <2>7 DEF all
<1>8. front \o clock = m
  <2> DEFINE all == front \o clock
  <2>1. \A i \in 1..6 : i = 1 \/ i = 2 \/ i = 3 \/ i = 4 \/ i = 5 \/ i = 6
    OBVIOUS
  <2>2. Spliced(Int, all, front, clock) /\ Len(front) = 3 /\ Len(clock) = 3
    BY <1>3, <1>4, <1>5, ConcatAt
  <2>3. 3 \in Nat /\ 3 \in Nat /\ 6 = 3 + 3
    OBVIOUS
  <2> HIDE DEF all
  <2>4. all \in Seq(Int) /\ Len(all) = 6 /\ Elements(all, Len(all), front, Len(front), clock)
    <3>1. Elements(all, Len(all), front, Len(front), clock)
      BY <2>2, <2>3, SplicedAt
    <3> QED
      BY <2>2, <3>1 DEF Spliced
  <2>5. \A i \in 1..6 : m[i] = IF i <= 3 THEN front[i] ELSE clock[i - 3]
    BY <1>3, <1>4, <1>6, <2>1
  <2>6. Len(all) = Len(m) /\ \A i \in 1..Len(all) : all[i] = m[i]
    BY <1>5, <2>2, <2>4, <2>5 DEF Elements
  <2>7. all = m
    BY <1>5, <2>4, <2>6, SeqEqual
  <2> QED
    BY <2>7 DEF all
<1>9. m \o zero = t
  <2> DEFINE all == m \o zero
  <2>1. \A i \in 1..7 : i = 1 \/ i = 2 \/ i = 3 \/ i = 4 \/ i = 5 \/ i = 6 \/ i = 7
    OBVIOUS
  <2>2. Spliced(Int, all, m, zero) /\ Len(m) = 6 /\ Len(zero) = 1
    BY <1>3, <1>4, <1>5, ConcatAt
  <2>3. 6 \in Nat /\ 1 \in Nat /\ 7 = 6 + 1
    OBVIOUS
  <2> HIDE DEF all
  <2>4. all \in Seq(Int) /\ Len(all) = 7 /\ Elements(all, Len(all), m, Len(m), zero)
    <3>1. Elements(all, Len(all), m, Len(m), zero)
      BY <2>2, <2>3, SplicedAt
    <3> QED
      BY <2>2, <3>1 DEF Spliced
  <2>5. \A i \in 1..7 : t[i] = IF i <= 6 THEN m[i] ELSE zero[i - 6]
    BY <1>4, <1>6, <2>1
  <2>6. Len(all) = Len(t) /\ \A i \in 1..Len(all) : all[i] = t[i]
    BY <1>5, <2>2, <2>4, <2>5 DEF Elements
  <2>7. all = t
    BY <1>5, <2>4, <2>6, SeqEqual
  <2> QED
    BY <2>7 DEF all
<1>10. both \o zero = s
  <2> DEFINE all == both \o zero
  <2>1. \A i \in 1..7 : i = 1 \/ i = 2 \/ i = 3 \/ i = 4 \/ i = 5 \/ i = 6 \/ i = 7
    OBVIOUS
  <2>2. Spliced(Int, all, both, zero) /\ Len(both) = 6 /\ Len(zero) = 1
    BY <1>3, <1>4, <1>5, ConcatAt
  <2>3. 6 \in Nat /\ 1 \in Nat /\ 7 = 6 + 1
    OBVIOUS
  <2> HIDE DEF all
  <2>4. all \in Seq(Int) /\ Len(all) = 7 /\ Elements(all, Len(all), both, Len(both), zero)
    <3>1. Elements(all, Len(all), both, Len(both), zero)
      BY <2>2, <2>3, SplicedAt
    <3> QED
      BY <2>2, <3>1 DEF Spliced
  <2>5. \A i \in 1..7 : s[i] = IF i <= 6 THEN both[i] ELSE zero[i - 6]
    BY <1>3, <1>4, <1>6, <2>1
  <2>6. Len(all) = Len(s) /\ \A i \in 1..Len(all) : all[i] = s[i]
    BY <1>5, <2>2, <2>4, <2>5 DEF Elements
  <2>7. all = s
    BY <1>5, <2>4, <2>6, SeqEqual
  <2> QED
    BY <2>7 DEF all
<1> QED
  BY <1>7, <1>8, <1>9, <1>10 DEF day, clock, both, zero, zeros, front, d, m, t, s

\* What may be given as a parameter of each type.
LEMMA GivenOf ==
    ASSUME NEW name \in ParamTypes
    PROVE  LET type == NamedType(name)
           IN  /\ type \in TextTypes \cup {"numeric", "float", "double", "monetary", "bit", "varbit"} =>
                     GivenAs(name) = Bytes
               /\ type \in {"short", "int", "resultset"} => GivenAs(name) = Int
               /\ type = "bigint" => GivenAs(name) = LongInts(Int)
               /\ type \in {"date", "time", "timestamp", "datetime"} => GivenAs(name) = [1..7 -> Int]
               /\ type \in LobTypes => GivenAs(name) = LobHandles /\ type = name
               /\ type # "string" => type = name
               /\ type = "string" => name \in {"string", "varchar"}
<1> USE DEF TextTypes, SetTypes, LobTypes, NamedType
<1> QED
  BY DEF GivenAs

\* A value behind its length, and a text, are bytes.
LEMMA AddBytes ==
    ASSUME NEW x \in Bytes
    PROVE  Add(x) \in Bytes /\ Add(x) = Int4(Len(x)) \o x
<1>1. Len(x) \in Int
  BY BytesProperties
<1>2. WriteInt(Len(x)) \in Bytes
  BY <1>1, WriteIntIsBytes
<1> QED
  BY <1>2, BytesConcat, OctetsWritten DEF Add

\* A text parameter is written as the server writes texts.
LEMMA TextWritten ==
    ASSUME NEW v, v = Null \/ v \in Bytes
    PROVE  /\ WriteNullTerminatedString(v) \in Bytes
           /\ v # Null => WriteNullTerminatedString(v) = Int4(Len(v \o <<0>>)) \o (v \o <<0>>)
                          /\ WriteNullTerminatedString(v) = Text(v)
<1> DEFINE text == IF v = Null THEN <<>> ELSE v
           zero == <<0>>
<1>1. text \in Bytes /\ zero \in Bytes /\ Len(zero) = 1
  BY FewBytes
<1>2. WriteNullTerminatedString(v) = WriteInt(Len(text) + 1) \o text \o zero
  BY DEF WriteNullTerminatedString
<1>3. v # Null => v = text
  OBVIOUS
<1> HIDE DEF text, zero
<1>4. Len(text) + 1 \in Int /\ Len(text \o zero) = Len(text) + 1 /\ text \o zero \in Bytes
  <2>1. text \o zero \in Bytes /\ Len(text \o zero) = Len(text) + Len(zero) /\ Len(text) \in Nat
    BY <1>1, BytesConcat
  <2> QED
    BY <1>1, <2>1
<1>5. WriteInt(Len(text) + 1) \in Bytes
  BY <1>4, WriteIntIsBytes
<1>6. WriteInt(Len(text) + 1) \o text \o zero \in Bytes
  BY <1>1, <1>5, Concat3
<1>7. WriteInt(Len(text) + 1) \o (text \o zero) = WriteInt(Len(text) + 1) \o text \o zero
  BY <1>1, <1>5, BytesAssociative
<1>8. WriteInt(Len(text) + 1) = Int4(Len(text) + 1)
  BY OctetsWritten
<1>9. ASSUME v # Null
      PROVE  /\ WriteNullTerminatedString(v) = Int4(Len(v \o zero)) \o (v \o zero)
             /\ WriteNullTerminatedString(v) = Text(v)
  <2>1. v = text
    BY <1>3, <1>9
  <2>2. Text(text) = Int4(Len(text) + 1) \o text \o zero
    BY DEF Text, zero
  <2> QED
    BY <1>2, <1>4, <1>7, <1>8, <2>1, <2>2
<1> QED
  BY <1>2, <1>6, <1>9 DEF zero

\* A date behind its length, by the parts of it that count.
LEMMA DateParamWritten ==
    ASSUME NEW v \in [1..7 -> Int]
    PROVE  LET stamp == [v EXCEPT ![2] = @ + 1]
               Same(written, fields) == written \in Bytes /\ Add(written) = Int4(14) \o Shorts2(fields)
           IN  /\ Same(WriteDate(v), SubSeq(stamp, 1, 3) \o <<0, 0, 0, 0>>)
               /\ Same(WriteTime(v), <<0, 0, 0>> \o SubSeq(v, 4, 6) \o <<0>>)
               /\ Same(WriteTimestamp(v), SubSeq(stamp, 1, 6) \o <<0>>)
               /\ Same(WriteDateTime(v), stamp)
<1> DEFINE stamp == [v EXCEPT ![2] = @ + 1]
           Fits7(d, f) == \A i \in 1..7 : f[i] = IF i = 2 THEN d[i] + 1 ELSE d[i]
<1>1. stamp \in [1..7 -> Int] /\ Fits7(v, stamp)
  OBVIOUS
<1>2. /\ stamp[1] = v[1] /\ stamp[2] = v[2] + 1 /\ stamp[3] = v[3] /\ stamp[4] = v[4] /\ stamp[5] = v[5]
      /\ stamp[6] = v[6]
  OBVIOUS
<1>3. v[1] \in Int /\ v[2] \in Int /\ v[3] \in Int /\ v[4] \in Int /\ v[5] \in Int /\ v[6] \in Int
  OBVIOUS
<1> HIDE DEF stamp
<1>4. ASSUME NEW d \in [1..7 -> Int], NEW f \in [1..7 -> Int], Fits7(d, f)
      PROVE  WriteDateTime(d) \in Bytes /\ Add(WriteDateTime(d)) = Int4(14) \o Shorts2(f)
  <2>1. WriteDateTime(d) = Shorts2(f) /\ Shorts2(f) \in Bytes /\ Len(Shorts2(f)) = 14
    BY <1>4, DateWritten
  <2> QED
    BY <2>1, AddBytes
<1>5. WriteDate(v) \in Bytes /\ Add(WriteDate(v)) = Int4(14) \o Shorts2(SubSeq(stamp, 1, 3) \o <<0, 0, 0, 0>>)
  <2> DEFINE d == <<v[1], v[2], v[3], 0, 0, 0, 0>>
             f == <<stamp[1], stamp[2], stamp[3], 0, 0, 0, 0>>
  <2>1. d \in [1..7 -> Int] /\ f \in [1..7 -> Int] /\ Fits7(d, f)
    BY <1>2, <1>3
  <2>2. SubSeq(v, 1, 3) \o <<0, 0, 0, 0>> = d /\ SubSeq(stamp, 1, 3) \o <<0, 0, 0, 0>> = f
    <3>1. 0 \in Int
      OBVIOUS
    <3>2. SubSeq(v, 1, 3) \o <<0, 0, 0, 0>> = d
      BY <3>1, DateParts
    <3>3. SubSeq(stamp, 1, 3) \o <<0, 0, 0, 0>> = f
      BY <1>1, <3>1, DateParts
    <3> QED
      BY <3>2, <3>3
  <2> HIDE DEF d, f, Fits7
  <2> QED
    BY <1>4, <2>1, <2>2 DEF WriteDate
<1>6. WriteTime(v) \in Bytes /\ Add(WriteTime(v)) = Int4(14) \o Shorts2(<<0, 0, 0>> \o SubSeq(v, 4, 6) \o <<0>>)
  <2> DEFINE d == <<0, -1, 0, v[4], v[5], v[6], 0>>
             f == <<0, 0, 0, v[4], v[5], v[6], 0>>
  <2>1. d \in [1..7 -> Int] /\ f \in [1..7 -> Int] /\ Fits7(d, f)
    BY <1>3
  <2>2. -1 \in Int /\ 0 \in Int
    OBVIOUS
  <2>3. <<0, -1, 0>> \o SubSeq(v, 4, 6) \o <<0>> = d /\ <<0, 0, 0>> \o SubSeq(v, 4, 6) \o <<0>> = f
    BY <2>2, DateParts
  <2> HIDE DEF d, f, Fits7
  <2> QED
    BY <1>4, <2>1, <2>3 DEF WriteTime
<1>7. /\ WriteTimestamp(v) \in Bytes
      /\ Add(WriteTimestamp(v)) = Int4(14) \o Shorts2(SubSeq(stamp, 1, 6) \o <<0>>)
  <2> DEFINE d == <<v[1], v[2], v[3], v[4], v[5], v[6], 0>>
             f == <<stamp[1], stamp[2], stamp[3], stamp[4], stamp[5], stamp[6], 0>>
  <2>1. d \in [1..7 -> Int] /\ f \in [1..7 -> Int] /\ Fits7(d, f)
    BY <1>2, <1>3
  <2>2. SubSeq(v, 1, 6) \o <<0>> = d /\ SubSeq(stamp, 1, 6) \o <<0>> = f
    <3>1. 0 \in Int
      OBVIOUS
    <3>2. SubSeq(v, 1, 6) \o <<0>> = d
      BY <3>1, DateParts
    <3>3. SubSeq(stamp, 1, 6) \o <<0>> = f
      BY <1>1, <3>1, DateParts
    <3> QED
      BY <3>2, <3>3
  <2> HIDE DEF d, f, Fits7
  <2> QED
    BY <1>4, <2>1, <2>2 DEF WriteTimestamp
<1>8. WriteDateTime(v) \in Bytes /\ Add(WriteDateTime(v)) = Int4(14) \o Shorts2(stamp)
  BY <1>1, <1>4
<1> QED
  BY <1>5, <1>6, <1>7, <1>8 DEF stamp

\* What _writeParamValue writes of a parameter of any type is what the server takes for
\* the value given, for every value it can write.
THEOREM ParamWritten ==
    ASSUME NEW p, IsParam(p)
    PROVE  /\ WriteParamValue(p.type, p.value) \in Bytes
           /\ Writable(p) => WriteParamValue(p.type, p.value) = ParamOctets(p.type, p.value)
<1> DEFINE name == p.type
           v == p.value
           type == NamedType(name)
           head == ParamHead(name)
           dates == {"date", "time", "timestamp", "datetime"}
           written == WriteParamValue(name, v)
           taken == ParamOctets(name, v)
           sized == ValueOctets(type, v)
           Goal == written \in Bytes /\ (Writable(p) => written = taken)
<1> SUFFICES Goal
  OBVIOUS
<1>1. name \in ParamTypes /\ (\/ name \in TextTypes \cup {"varchar"} /\ v = Null
                              \/ v \in GivenAs(name))
  BY DEF IsParam
<1>2. type \in Types \ {"null", "enum"} /\ type \notin ZonedTypes
  BY <1>1, WriteParamValueOf
<1>3. head \in Bytes
  <2>1. WriteInt(1) \in Bytes
    BY WriteIntIsBytes
  <2>2. CUBRIDDataType[type] \in Byte
    BY <1>2, FewBytes
  <2>3. <<CUBRIDDataType[type]>> \in Bytes
    BY <2>2, ByteBytes
  <2> QED
    BY <2>1, <2>3, BytesConcat DEF ParamHead
<1>4. name \in TextTypes \cup {"varchar"} => type \in TextTypes
  BY DEF TextTypes, NamedType
<1>5. type # "string" => type = name
  BY DEF NamedType
<1>6. /\ type = "date" => taken = head \o (Int4(14) \o Shorts2(SubSeq([v EXCEPT ![2] = @ + 1], 1, 3) \o <<0, 0, 0, 0>>))
      /\ type = "time" => taken = head \o (Int4(14) \o Shorts2(<<0, 0, 0>> \o SubSeq(v, 4, 6) \o <<0>>))
      /\ type = "timestamp" => taken = head \o (Int4(14) \o Shorts2(SubSeq([v EXCEPT ![2] = @ + 1], 1, 6) \o <<0>>))
      /\ type = "datetime" => taken = head \o (Int4(14) \o Shorts2([v EXCEPT ![2] = @ + 1]))
      /\ type \notin dates => taken = head \o (Int4(Len(sized)) \o sized)
  BY <1>1, ParamOctetsOf
<1>7. /\ type \in TextTypes \cup {"numeric"} => written = head \o WriteNullTerminatedString(v)
      /\ type = "short" => written = head \o Add(WriteNum(v, 2))
      /\ type = "int" => written = head \o Add(WriteInt(v))
      /\ type = "bigint" => written = head \o Add(WriteLong(v))
      /\ type \in {"float", "double", "monetary", "bit", "varbit"} => written = head \o Add(v)
      /\ type = "date" => written = head \o Add(WriteDate(v))
      /\ type = "time" => written = head \o Add(WriteTime(v))
      /\ type = "datetime" => written = head \o Add(WriteDateTime(v))
      /\ type = "timestamp" => written = head \o Add(WriteTimestamp(v))
      /\ type \in LobTypes => written = head \o WriteLob(name, v)
      /\ type \in SetTypes \cup {"object"} => written = head \o (WriteInt(0) \o <<0>>)
      /\ type = "resultset" => written = head \o (WriteInt(4) \o <<0>>)
  BY <1>1, WriteParamValueOf
<1>8. /\ type \in TextTypes \cup {"numeric", "float", "double", "monetary", "bit", "varbit"} => GivenAs(name) = Bytes
      /\ type \in {"short", "int", "resultset"} => GivenAs(name) = Int
      /\ type = "bigint" => GivenAs(name) = LongInts(Int)
      /\ type \in dates => GivenAs(name) = [1..7 -> Int]
      /\ type \in LobTypes => GivenAs(name) = LobHandles
  BY <1>1, GivenOf
<1>9. /\ type \in TextTypes \cup {"numeric"} => sized = v \o <<0>>
      /\ type = "short" => sized = Octets(v, 2)
      /\ type = "int" => sized = Int4(v)
      /\ type = "bigint" => sized = Long8(v)
      /\ type \in {"float", "double", "monetary", "bit", "varbit"} => sized = v
      /\ type \in LobTypes => sized = LobOctets(type, v)
  BY <1>2, ValueOctetsOf, ZenonT(40)
<1>10. Writable(p) => v # Null /\ name \notin SetTypes \cup {"object", "resultset", "null"}
                       /\ (name = "bigint" => v.hi >= 0)
  BY DEF Writable
<1> HIDE DEF name, v, type, head, written, taken, sized
<1>11. /\ type \in TextTypes => type \notin {"numeric", "short", "int", "bigint", "object", "resultset"} \cup dates
       /\ type \in LobTypes => type \notin TextTypes \cup {"string"} \cup dates
       /\ type \in SetTypes => type \notin TextTypes \cup {"string"} \cup dates
  BY DEF TextTypes, LobTypes, SetTypes
<1>12. ASSUME NEW x, NEW y, written = head \o x, x \in Bytes, Writable(p) => taken = head \o y /\ x = y
       PROVE  Goal
  <2>1. written \in Bytes
    BY <1>3, <1>12, BytesConcat
  <2> QED
    BY <1>12, <2>1 DEF Goal
<1> HIDE DEF Goal
<1>13. CASE type \in TextTypes \cup {"numeric"}
  <2>1. v = Null \/ v \in Bytes
    BY <1>1, <1>4, <1>8, <1>13
  <2>2. WriteNullTerminatedString(v) \in Bytes
    BY <2>1, TextWritten
  <2>3. v # Null => WriteNullTerminatedString(v) = Int4(Len(v \o <<0>>)) \o (v \o <<0>>)
    BY <2>1, TextWritten
  <2>4. type \notin dates
    BY <1>11, <1>13
  <2>5. Writable(p) => taken = head \o (Int4(Len(sized)) \o sized) /\ WriteNullTerminatedString(v) = Int4(Len(sized)) \o sized
    BY <1>6, <1>9, <1>10, <1>13, <2>3, <2>4
  <2> QED
    BY <1>7, <1>12, <1>13, <2>2, <2>5
<1>14. CASE type \in {"short", "int", "bigint", "float", "double", "monetary", "bit", "varbit"}
  <2>1. v \in GivenAs(name)
    BY <1>1, <1>4, <1>14 DEF TextTypes
  <2> DEFINE octets == CASE type = "short" -> WriteNum(v, 2) [] type = "int" -> WriteInt(v)
                         [] type = "bigint" -> WriteLong(v) [] OTHER -> v
  <2>2. written = head \o Add(octets)
    BY <1>7, <1>14
  <2>3. octets \in Bytes /\ (Writable(p) => octets = sized)
    <3>1. CASE type = "short"
      <4>1. v \in Int
        BY <1>8, <2>1, <3>1
      <4>2. WriteNum(v, 2) \in Bytes /\ Octets(v, 2) = WriteNum(v, 2)
        BY <4>1, WriteNumIsBytes, OctetsWritten
      <4> QED
        BY <1>9, <3>1, <4>2
    <3>2. CASE type = "int"
      <4>1. v \in Int
        BY <1>8, <2>1, <3>2
      <4>2. WriteInt(v) \in Bytes /\ Int4(v) = WriteInt(v)
        BY <4>1, WriteIntIsBytes, OctetsWritten
      <4> QED
        BY <1>9, <3>2, <4>2
    <3>3. CASE type = "bigint"
      <4>1. v \in LongInts(Int)
        BY <1>8, <2>1, <3>3
      <4>2. v.hi \in Int /\ v.lo \in Int
        BY <4>1 DEF LongInts
      <4> DEFINE high == IF v.hi < 0 /\ v.lo > 0 THEN v.hi + 1 ELSE v.hi
      <4>3. high \in Int /\ (v.hi >= 0 => high = v.hi)
        BY <4>2
      <4>4. WriteLong(v) = WriteInt(high) \o WriteInt(v.lo)
        BY DEF WriteLong
      <4> HIDE DEF high
      <4>5. WriteInt(high) \in Bytes /\ WriteInt(v.lo) \in Bytes
        BY <4>2, <4>3, WriteIntIsBytes
      <4>6. WriteLong(v) \in Bytes
        BY <4>4, <4>5, BytesConcat
      <4>7. Long8(v) = WriteInt(v.hi) \o WriteInt(v.lo)
        BY OctetsWritten DEF Long8
      <4>8. Writable(p) => v.hi >= 0
        BY <1>5, <1>10, <3>3
      <4> QED
        BY <1>9, <3>3, <4>3, <4>4, <4>6, <4>7, <4>8
    <3>4. CASE type \in {"float", "double", "monetary", "bit", "varbit"}
      BY <1>8, <1>9, <2>1, <3>4
    <3> QED
      BY <1>14, <3>1, <3>2, <3>3, <3>4
  <2> HIDE DEF octets
  <2>4. Add(octets) \in Bytes /\ Add(octets) = Int4(Len(octets)) \o octets
    BY <2>3, AddBytes
  <2>5. Writable(p) => taken = head \o (Int4(Len(sized)) \o sized) /\ Add(octets) = Int4(Len(sized)) \o sized
    BY <1>6, <1>14, <2>3, <2>4
  <2> QED
    BY <1>12, <2>2, <2>4, <2>5
<1>15. CASE type \in dates
  <2>1. v \in [1..7 -> Int]
    BY <1>1, <1>4, <1>8, <1>11, <1>15
  <2> DEFINE stamp == [v EXCEPT ![2] = @ + 1]
             x == CASE type = "date" -> WriteDate(v) [] type = "time" -> WriteTime(v)
                    [] type = "timestamp" -> WriteTimestamp(v) [] type = "datetime" -> WriteDateTime(v)
             y == CASE type = "date" -> SubSeq(stamp, 1, 3) \o <<0, 0, 0, 0>>
                    [] type = "time" -> <<0, 0, 0>> \o SubSeq(v, 4, 6) \o <<0>>
                    [] type = "timestamp" -> SubSeq(stamp, 1, 6) \o <<0>>
                    [] type = "datetime" -> stamp
  <2>2. x \in Bytes /\ Add(x) = Int4(14) \o Shorts2(y)
    <3>1. WriteDate(v) \in Bytes /\ Add(WriteDate(v)) = Int4(14) \o Shorts2(SubSeq(stamp, 1, 3) \o <<0, 0, 0, 0>>)
      BY <2>1, DateParamWritten
    <3>2. WriteTime(v) \in Bytes /\ Add(WriteTime(v)) = Int4(14) \o Shorts2(<<0, 0, 0>> \o SubSeq(v, 4, 6) \o <<0>>)
      BY <2>1, DateParamWritten
    <3>3. WriteTimestamp(v) \in Bytes /\ Add(WriteTimestamp(v)) = Int4(14) \o Shorts2(SubSeq(stamp, 1, 6) \o <<0>>)
      BY <2>1, DateParamWritten
    <3>4. WriteDateTime(v) \in Bytes /\ Add(WriteDateTime(v)) = Int4(14) \o Shorts2(stamp)
      BY <2>1, DateParamWritten
    <3> HIDE DEF stamp
    <3> QED
      BY <1>15, <3>1, <3>2, <3>3, <3>4
  <2>3. written = head \o Add(x)
    BY <1>7, <1>15
  <2>4. taken = head \o (Int4(14) \o Shorts2(y))
    BY <1>6, <1>15
  <2> HIDE DEF x, y
  <2>5. Add(x) \in Bytes
    BY <2>2, AddBytes
  <2> QED
    BY <1>12, <2>2, <2>3, <2>4, <2>5
<1>16. CASE type \in LobTypes
  <2>1. v \in LobHandles /\ name = type
    BY <1>1, <1>4, <1>5, <1>8, <1>11, <1>16
  <2>2. v.size \in Nat /\ v.locator \in Bytes /\ v.length \in LongInts(Ints) /\ v.length.hi >= 0
    <3>1. v.length \in LongInts(Lengths)
      BY <2>1 DEF LobHandles
    <3>2. v.length.hi \in Nat
      BY <3>1, SpansAreInts DEF LongInts
    <3> QED
      BY <2>1, <3>2, LobHandleFields
  <2> DEFINE a == WriteInt(v.size)
             b == WriteInt(LobNumber[type])
             c == WriteLong(v.length)
             d == WriteNullTerminatedString(v.locator)
  <2>3. a \in Bytes /\ a = Int4(v.size)
    BY <2>2, WriteIntIsBytes, OctetsWritten
  <2>4. b \in Bytes /\ b = Int4(LobNumber[type])
    <3>1. LobNumber[type] \in Int
      BY <1>16 DEF LobNumber, LobTypes
    <3> QED
      BY <3>1, WriteIntIsBytes, OctetsWritten
  <2>5. c \in Bytes /\ c = Long8(v.length)
    <3>1. WriteLong(v.length) = WriteInt(v.length.hi) \o WriteInt(v.length.lo)
      <4>1. v.length.hi \in Int /\ ~(v.length.hi < 0)
        BY <2>2, SpansAreInts
      <4> QED
        BY <4>1 DEF WriteLong
    <3>2. Long8(v.length) = WriteInt(v.length.hi) \o WriteInt(v.length.lo)
      BY OctetsWritten DEF Long8
    <3> QED
      BY <2>2, <3>1, <3>2, LongBytes
  <2>6. d \in Bytes
    BY <2>2, TextWritten
  <2>7. WriteLob(name, v) = a \o b \o c \o d
    BY <2>1 DEF WriteLob
  <2>8. Writable(p) => d = Text(v.locator)
    <3>1. v.locator # Null
      BY <2>2, NullAssumption
    <3> QED
      BY <2>2, <3>1, TextWritten
  <2>9. LobOctets(type, v) = Int4(LobNumber[type]) \o Long8(v.length) \o Text(v.locator)
    BY DEF LobOctets
  <2>10. Len(LobOctets(type, v)) = v.size
    BY <1>16, <2>1, LobBytes
  <2> HIDE DEF a, b, c, d
  <2>11. a \o b \in Bytes /\ a \o b \o c \in Bytes /\ b \o c \in Bytes /\ b \o c \o d \in Bytes
    BY <2>3, <2>4, <2>5, <2>6, BytesConcat
  <2>12. a \o b \o c \o d \in Bytes
    BY <2>6, <2>11, BytesConcat
  <2>13. a \o b \o c \o d = a \o (b \o c \o d)
    <3>1. a \o (b \o c) = a \o b \o c
      BY <2>3, <2>4, <2>5, BytesAssociative
    <3>2. a \o (b \o c \o d) = a \o (b \o c) \o d
      BY <2>3, <2>6, <2>11, BytesAssociative
    <3> QED
      BY <3>1, <3>2
  <2>14. Writable(p) => taken = head \o (Int4(Len(sized)) \o sized) /\ a \o b \o c \o d = Int4(Len(sized)) \o sized
    BY <1>6, <1>9, <1>11, <1>16, <2>3, <2>4, <2>5, <2>8, <2>9, <2>10, <2>13
  <2> QED
    BY <1>7, <1>12, <1>16, <2>7, <2>12, <2>14
<1>17. CASE type \in SetTypes \cup {"object", "resultset"}
  <2>1. ~Writable(p)
    <3>1. type # "string"
      BY <1>11, <1>17
    <3> QED
      BY <1>5, <1>10, <1>17, <3>1
  <2>2. WriteInt(0) \o <<0>> \in Bytes /\ WriteInt(4) \o <<0>> \in Bytes
    <3>1. WriteInt(0) \in Bytes /\ WriteInt(4) \in Bytes /\ <<0>> \in Bytes
      BY WriteIntIsBytes, FewBytes
    <3> QED
      BY <3>1, BytesConcat
  <2>3. written = head \o (WriteInt(0) \o <<0>>) \/ written = head \o (WriteInt(4) \o <<0>>)
    BY <1>7, <1>17
  <2>4. written \in Bytes
    BY <1>3, <2>2, <2>3, BytesConcat
  <2> QED
    BY <2>1, <2>4 DEF Goal
<1>18. \/ type \in TextTypes \cup {"numeric"}
       \/ type \in {"short", "int", "bigint", "float", "double", "monetary", "bit", "varbit"}
       \/ type \in dates \/ type \in LobTypes \/ type \in SetTypes \cup {"object", "resultset"}
  BY <1>2, EachType DEF ZonedTypes
<1> QED
  BY <1>13, <1>14, <1>15, <1>16, <1>17, <1>18

\* Which responses belong to which kinds of call.
LEMMA KindOfStage ==
    ASSUME Arrived
    PROVE  /\ call.kind = "execute" <=> stage = "execute" \/ (stage = "fetch" /\ call.kind # "prepare")
           /\ call.kind = "prepare" <=> stage \in {"prepare", "executePrepared"} \/ (stage = "fetch" /\ call.kind # "execute")
           /\ call.kind = "requestSchema" <=> stage \in {"requestSchema", "fetchSchema"}
           /\ call.kind = "batch" <=> stage = "batch"
           /\ call.kind \in ValueStages <=> stage \in ValueStages
           /\ call.kind \in ValueStages => stage = call.kind
           /\ call.kind \in {"execute", "prepare"} <=> stage \in {"execute", "prepare", "executePrepared", "fetch"}
<1>1. call \in Calls /\ stage \in StagesOf(call.kind)
  BY DEF Arrived
<1>2. \/ call.kind = "execute" \/ call.kind = "prepare" \/ call.kind = "requestSchema" \/ call.kind = "batch"
      \/ call.kind \in ValueStages
  BY <1>1, CallFacts
<1>3. /\ call.kind = "execute" => stage \in {"execute", "fetch"}
      /\ call.kind = "prepare" => stage \in {"prepare", "executePrepared", "fetch"}
      /\ call.kind = "requestSchema" => stage \in {"requestSchema", "fetchSchema"}
      /\ call.kind = "batch" => stage = "batch"
      /\ call.kind \in ValueStages => stage = call.kind
  BY <1>1, StagesByKind
<1> QED
  BY <1>2, <1>3 DEF ValueStages

WrittenParams == [i \in DOMAIN call.params |-> WriteParamValue(call.params[i].type, call.params[i].value)]
TakenParams == [i \in DOMAIN call.params |-> ParamOctets(call.params[i].type, call.params[i].value)]

\* So are the parameters together.
LEMMA ParamsWritten ==
    ASSUME call \in Calls, call.kind = "prepare"
    PROVE  /\ FlattenSeq(WrittenParams) \in Bytes
           /\ (\A i \in DOMAIN call.params : Writable(call.params[i])) => WrittenParams = TakenParams
<1>1. IsStatement(call)
  BY CallFacts
<1>2. IsList(call.params) /\ \A i \in 1..Len(call.params) : IsParam(call.params[i])
  BY <1>1 DEF IsStatement
<1>3. Len(call.params) \in Nat /\ DOMAIN call.params = 1..Len(call.params)
  BY <1>2, ListFacts
<1> DEFINE n == Len(call.params)
<1>4. \A i \in 1..n : /\ WriteParamValue(call.params[i].type, call.params[i].value) \in Bytes
                      /\ Writable(call.params[i]) =>
                            WriteParamValue(call.params[i].type, call.params[i].value) =
                                ParamOctets(call.params[i].type, call.params[i].value)
  BY <1>2, ParamWritten
<1>5. WrittenParams = [i \in 1..n |-> WrittenParams[i]] /\ \A i \in 1..n : WrittenParams[i] \in Bytes
  BY <1>3, <1>4 DEF WrittenParams
<1>6. WrittenParams \in Seq(Bytes)
  BY <1>3, <1>5, ListOfBytes
<1>7. FlattenSeq(WrittenParams) \in Bytes
  BY <1>6, StartProperties
<1>8. (\A i \in DOMAIN call.params : Writable(call.params[i])) => WrittenParams = TakenParams
  BY <1>3, <1>4 DEF WrittenParams, TakenParams
<1> QED
  BY <1>7, <1>8

\* The request of an execution is kept until all of its responses have come.
Requested == stage = "executePrepared" => request = FlattenSeq(WrittenParams)

\* The second request of the old protocol awaits its response afresh.
LEMMA ExpectPrepared ==
    ASSUME Typed, ExecutePrepared
    PROVE  Typed' /\ Requested'
<1>1. Arrived /\ call \in Calls
  BY DEF Typed, Arrived
<1>2. call.kind = "prepare"
  BY <1>1, KindOfStage DEF ExecutePrepared
<1>3. "executePrepared" \in StagesOf(call.kind)
  BY <1>2, StagesByKind
<1>4. request' = FlattenSeq(WrittenParams) /\ Expect("executePrepared") /\ UNCHANGED packet
  BY DEF ExecutePrepared, WrittenParams
<1>5. request' \in Bytes
  BY <1>1, <1>2, <1>4, ParamsWritten
<1>6. Typed'
  BY <1>3, <1>4, <1>5, TypedExpect
<1>7. call' = call
  BY <1>4 DEF Expect
<1>8. Requested'
  BY <1>4, <1>7 DEF Requested, WrittenParams
<1> QED
  BY <1>6, <1>8

\* So do those that fetch.
LEMMA ExpectRest ==
    ASSUME Typed, FetchSchema \/ Fetch
    PROVE  Typed' /\ Requested'
<1>1. Arrived /\ request \in Bytes
  BY DEF Typed
<1>2. CASE FetchSchema
  <2>1. call.kind = "requestSchema"
    BY <1>1, <1>2, KindOfStage DEF FetchSchema
  <2>2. "fetchSchema" \in StagesOf(call.kind)
    BY <2>1, StagesByKind
  <2>3. Expect("fetchSchema") /\ UNCHANGED packet /\ request' \in Bytes
    BY <1>1, <1>2 DEF FetchSchema
  <2>4. Typed'
    BY <2>2, <2>3, TypedExpect
  <2> QED
    BY <2>3, <2>4 DEF Expect, Requested
<1>3. CASE Fetch
  <2>1. call.kind \in {"execute", "prepare"}
    BY <1>1, <1>3, KindOfStage DEF Fetch
  <2>2. "fetch" \in StagesOf(call.kind)
    BY <2>1, StagesByKind
  <2>3. Expect("fetch") /\ UNCHANGED packet /\ request' \in Bytes
    BY <1>1, <1>3 DEF Fetch
  <2>4. Typed'
    BY <2>2, <2>3, TypedExpect
  <2> QED
    BY <2>3, <2>4 DEF Expect, Requested
<1> QED
  BY <1>2, <1>3

\* The invariant behind the types and the request.
Shaped == Typed /\ ValuePart /\ Requested

\* Every step keeps the shape of the state,
LEMMA ShapedStep ==
    ASSUME Shaped, [Next]_vars
    PROVE  Shaped'
<1>1. Typed /\ ValuePart /\ Requested
  BY DEF Shaped
<1>2. ValuePart'
  BY <1>1, StepValuePart
<1>3. Typed' /\ Requested'
  <2>1. CASE \/ ParseHeader \/ ParseStatement \/ ParseColumn \/ ParseCounts \/ ParseResultInfo
             \/ ParseTail \/ ParseTuples \/ ParseRow \/ ParseSchema \/ ParseSchemaRow
             \/ ParseBatch \/ ParseExecuted \/ ParseValue
    <3>1. UNCHANGED <<call, stage, request>>
      BY <2>1 DEF ParseHeader, ParseStatement, ParseColumn, ParseCounts, ParseResultInfo, ParseTail, ParseTuples,
          ParseRow, ParseSchema, ParseSchemaRow, ParseBatch, ParseExecuted, ParseValue, Goto
    <3>2. Requested'
      BY <1>1, <3>1 DEF Requested, WrittenParams
    <3>3. Typed'
      BY <1>1, <2>1, TypedHeader, TypedStatement, TypedColumn, TypedCounts, TypedResultInfo, TypedTail, TypedTuples,
         TypedRow, TypedSchema, TypedSchemaRow, TypedBatch, TypedExecuted, TypedValue
    <3> QED
      BY <3>2, <3>3
  <2>2. CASE ExecutePrepared
    BY <1>1, <2>2, ExpectPrepared
  <2>3. CASE FetchSchema \/ Fetch
    BY <1>1, <2>3, ExpectRest
  <2>4. CASE UNCHANGED vars
    BY <1>1, <2>4 DEF vars, Typed, Arrived, PacketOK, Requested, WrittenParams
  <2> QED
    BY <2>1, <2>2, <2>3, <2>4 DEF Next
<1> QED
  BY <1>2, <1>3 DEF Shaped

\* which it has at first.
LEMMA ShapedInit == Init => Shaped
<1>1. Init => Typed
  BY TypedInit
<1>2. Init => ValuePart
  BY DEF Init, ValuePart
<1>3. Init => Requested
  <2> SUFFICES ASSUME Init, stage = "executePrepared" PROVE FALSE
    BY DEF Requested
  <2>1. call.kind \in Kinds
    BY CallFacts DEF Init
  <2> QED
    BY <2>1 DEF Init, Kinds
<1> QED
  BY <1>1, <1>2, <1>3 DEF Shaped

\* For every set of calls, whatever the server holds and however often it
\* answers with errors: the buffer holds the response to the request made last,
\* what was parsed of it is well typed, and the request that executed a prepared
\* statement held its parameters (CUBRIDConnection.js _parseBuffer and the parsers).
THEOREM ShapedAlways == Spec => []Shaped
<1>1. Init => Shaped
  BY ShapedInit
<1>2. Shaped /\ [Next]_vars => Shaped'
  BY ShapedStep
<1> QED
  BY <1>1, <1>2, PTL DEF Spec

\* The variables keep their types, whatever the calls and their answers: also where a
\* cursor has lost its place and what it reads is not what was sent.
THEOREM TypeCorrect == Spec => []TypeOK
<1>1. Shaped => TypeOK
  BY TypedIsTypeOK DEF Shaped
<1> QED
  BY <1>1, ShapedAlways, PTL

\* Parameters of any number and types reach the server as they were given, for what
\* the driver can write.
THEOREM ParamsCorrect == Spec => []ParamsAsGiven
<1>1. Shaped => ParamsAsGiven
  <2> SUFFICES ASSUME Shaped, stage = "executePrepared", \A i \in DOMAIN call.params : Writable(call.params[i])
               PROVE  request = FlattenSeq(TakenParams)
    BY DEF ParamsAsGiven, TakenParams
  <2>1. Arrived /\ call \in Calls /\ request = FlattenSeq(WrittenParams)
    BY DEF Shaped, Typed, Arrived, Requested
  <2>2. call.kind = "prepare"
    BY <2>1, KindOfStage
  <2> QED
    BY <2>1, <2>2, ParamsWritten
<1> QED
  BY <1>1, ShapedAlways, PTL
-----------------------------------------------------------------------------
(* Where a parser is that is in step: what it has read, and that its offset is *)
(* behind it.  c is the call, s the response, o the offset, p the packet.       *)

Fine(c, s) == c.error = NoError \/ c.failing # s

ResultsFor(c, s) == IF s = "execute" THEN 30 + Len(FlattenSeq(SentColumns(c))) ELSE 12
TuplesFor(c, s) == IF s = "fetch" THEN 8 ELSE ResultsFor(c, s) + (26 + TailSize(c))
FirstFor(c, s) == IF s = "fetch" THEN c.first + 1 ELSE 1
LastFor(c, s) == IF s = "fetch" THEN Len(c.rows) ELSE c.first
RowsFor(c, s) == SentRows(c, FirstFor(c, s), LastFor(c, s))

\* The columns and rows read so far are the ones sent.
ColumnsGot(c, p) ==
    /\ Len(p.infoArray) <= Len(c.columns)
    /\ \A i \in 1..Len(p.infoArray) :
          p.infoArray[i] = [ColumnType |-> CUBRIDDataType[c.columns[i].type], Name |-> c.columns[i].name]
RowsGot(c, p) ==
    \A i \in 1..Len(p.rows), j \in 1..Len(c.columns) :
        Readable(c.rows[i][j]) => p.rows[i][j] = Meant(c.rows[i][j])
Described(c, p) ==
    /\ p.statementType = c.statementType /\ p.columnCount = Len(c.columns)
    /\ Len(p.infoArray) = Len(c.columns)
\* None of the rows of a response has been read yet.
Before(c, s, p) == Len(p.rows) = FirstFor(c, s) - 1 /\ p.currentTupleCount = FirstFor(c, s) - 1

StatementAt(c, s, part, o, p) ==
    /\ ColumnsGot(c, p) /\ RowsGot(c, p)
    /\ part \in {"header", "statement", "columns", "counts", "results", "tail", "tuples", "rows", "done"}
    /\ part = "header" => /\ Before(c, s, p)
                          /\ s \in {"execute", "prepare"} => p.infoArray = <<>>
                          /\ s \in {"executePrepared", "fetch"} => Described(c, p)
    /\ part = "statement" => /\ s \in {"execute", "prepare"} /\ Before(c, s, p)
                             /\ o = 12 /\ p.infoArray = <<>>
    /\ part = "columns" => /\ s \in {"execute", "prepare"} /\ Before(c, s, p)
                           /\ p.columnCount = Len(c.columns) /\ p.statementType = c.statementType
                           /\ o = 26 + Start(SentColumns(c), Len(p.infoArray))
    /\ part \in {"counts", "results", "tail"} =>
          s \in {"execute", "executePrepared"} /\ Before(c, s, p) /\ Described(c, p)
    /\ part = "counts" => o = ResultsFor(c, s) - (IF s = "execute" THEN 4 ELSE 0)
    /\ part = "results" => /\ p.resultCount = 1 /\ p.resultInfos \in 0..1
                           /\ o = ResultsFor(c, s) + 5 + 21 * p.resultInfos
    /\ part = "tail" => o = ResultsFor(c, s) + 26
    /\ part \in {"tuples", "rows"} =>
          s # "prepare" /\ Described(c, p) /\ (s # "fetch" => c.statementType = SELECT)
    /\ part = "tuples" => Before(c, s, p) /\ o = TuplesFor(c, s) + (IF s = "fetch" THEN 4 ELSE 0)
    /\ part = "rows" => /\ p.tupleCount = LastFor(c, s) - FirstFor(c, s) + 1 /\ p.read \in 0..p.tupleCount
                        /\ p.currentTupleCount = FirstFor(c, s) - 1
                        /\ Len(p.rows) = p.currentTupleCount + p.read
                        /\ o = TuplesFor(c, s) + 8 + Start(RowsFor(c, s), p.read)
    /\ part = "done" => /\ Len(p.rows) = p.currentTupleCount
                        /\ Fine(c, s) =>
                              /\ Described(c, p)
                              /\ s = "prepare" => p.currentTupleCount = 0
                              /\ s \in {"execute", "executePrepared"} /\ c.statementType = SELECT =>
                                    p.currentTupleCount = c.first

SchemaAt(c, s, part, o, p) ==
    /\ part \in {"header", "schema", "columns", "schemaRows", "done"}
    /\ part \in {"header", "schema", "columns"} \/ s = "requestSchema" => p.rows = <<>>
    /\ part \in {"header", "schema"} /\ s = "requestSchema" => p.infoArray = <<>>
    /\ part = "schema" => o = 12
    /\ part = "columns" => /\ s = "requestSchema" /\ p.columnCount = Len(SchemaColumns(c.schemaType))
                           /\ Len(p.infoArray) <= p.columnCount
                           /\ o = 20 + Start(SentSchema(c.schemaType), Len(p.infoArray))
    /\ part = "schemaRows" => /\ s = "fetchSchema" /\ p.tupleCount = Len(c.rows)
                              /\ p.read \in 0..Len(c.rows) /\ Len(p.rows) = p.read
                              /\ \A i \in 1..p.read : p.rows[i] = c.rows[i]
                              /\ o = 16 + Start(SentSchemaRows(c), p.read)
    /\ part = "done" => (s = "fetchSchema" /\ Fine(c, s) => p.rows = c.rows)

\* What each statement of a batch adds to the results and to the errors.
CountsFor(c) == [i \in DOMAIN c.results |-> IF c.results[i].count < 0 THEN <<>> ELSE <<c.results[i].count>>]
ErrorsFor(c) == [i \in DOMAIN c.results |-> IF c.results[i].count < 0 THEN <<c.results[i].error>> ELSE <<>>]

BatchAt(c, s, part, o, p) ==
    /\ part \in {"header", "batch", "executed", "done"}
    /\ part \in {"header", "batch"} => p.read = 0 /\ p.results = <<>> /\ p.errors = <<>>
    /\ part = "batch" => o = 12
    /\ part = "executed" => /\ p.executedCount = Len(c.results) /\ p.read \in 0..Len(c.results)
                            /\ p.results = FirstParts(CountsFor(c), p.read)
                            /\ p.errors = FirstParts(ErrorsFor(c), p.read)
                            /\ o = 16 + Start(SentResults(c), p.read)
    /\ part = "done" /\ Fine(c, s) =>
          p.results = FlattenSeq(CountsFor(c)) /\ p.errors = FlattenSeq(ErrorsFor(c))

AnswerFor(c, s) ==
    CASE s = "openDatabase" -> [version |-> c.version, sessionId |-> c.number]
      [] s \in {"engineVersion", "lobRead"} -> c.text
      [] s \in {"dbParameter", "responseCode"} -> c.number
      [] s = "lobNew" -> c.lob.locator
CodeFor(c, s) ==
    CASE s \in {"execute", "prepare", "requestSchema"} -> c.handle
      [] s = "executePrepared" -> Len(c.rows)
      [] s = "responseCode" -> c.number
      [] s = "lobRead" -> Len(c.text)
      [] OTHER -> 0

ValueAt(c, s, part, o, p) ==
    /\ part \in {"header", "value", "done"}
    /\ part = "value" => o = 12 /\ p.code = CodeFor(c, s) /\ p.length = Len(Body(c, s))
    /\ part = "done" /\ Fine(c, s) => p.value = AnswerFor(c, s)

PlacedAt(c, s, part, o, p) ==
    /\ part = "header" => o = 0
    /\ part = "done" => o = Len(Response(c, s))
    /\ part \notin {"header", "done"} => Fine(c, s)
    /\ p.error = IF part = "done" /\ c.failing = s THEN c.error ELSE NoError
    /\ c.kind \in {"execute", "prepare"} => StatementAt(c, s, part, o, p)
    /\ c.kind = "requestSchema" => SchemaAt(c, s, part, o, p)
    /\ c.kind = "batch" => BatchAt(c, s, part, o, p)
    /\ c.kind \in ValueStages => ValueAt(c, s, part, o, p)

Placed == PlacedAt(call, stage, pc, offset, packet)

\* The same places, as the layout of the response names them.
LEMMA SamePlaces ==
    /\ Sound <=> Fine(call, stage)
    /\ ResultsAt = ResultsFor(call, stage) /\ TuplesAt = TuplesFor(call, stage)
    /\ FirstRow = FirstFor(call, stage) /\ LastRow = LastFor(call, stage)
    /\ Rows = RowsFor(call, stage) /\ RowCount = LastFor(call, stage) - FirstFor(call, stage) + 1
  BY DEF Sound, Fine, ResultsAt, ResultsFor, TuplesAt, TuplesFor, FirstRow, FirstFor, LastRow, LastFor, Rows,
         RowsFor, RowCount

\* Where a step puts the parser of a sound response.
LEMMA GotoPlaced ==
    ASSUME Arrived, Fine(call, stage), NEW part, part # "header", NEW r, NEW fields, Goto(part, r, fields),
           fields.error = NoError, part = "done" => r.offset = Len(buffer),
           call.kind \in {"execute", "prepare"} => StatementAt(call, stage, part, r.offset, fields),
           call.kind = "requestSchema" => SchemaAt(call, stage, part, r.offset, fields),
           call.kind = "batch" => BatchAt(call, stage, part, r.offset, fields),
           call.kind \in ValueStages => ValueAt(call, stage, part, r.offset, fields)
    PROVE  Placed'
<1>1. PlacedAt(call, stage, part, r.offset, fields)
  BY DEF PlacedAt, Arrived, Fine
<1>2. pc' = part /\ offset' = r.offset /\ packet' = fields /\ call' = call /\ stage' = stage
  BY DEF Goto
<1> QED
  BY <1>1, <1>2 DEF Placed

\* What is known of the parser of a sound response.
LEMMA PlacedFacts ==
    ASSUME Shaped, Placed, pc \notin {"header", "done"}
    PROVE  /\ Arrived /\ call \in Calls /\ Sound /\ Fine(call, stage) /\ buffer \in Bytes /\ offset \in Int
           /\ PacketOK(packet) /\ packet.error = NoError /\ call.version \in Nat
           /\ call.kind \in {"execute", "prepare"} => IsStatement(call) /\ StatementAt(call, stage, pc, offset, packet)
           /\ call.kind = "requestSchema" => IsSchema(call) /\ SchemaAt(call, stage, pc, offset, packet)
           /\ call.kind = "batch" => IsBatch(call) /\ BatchAt(call, stage, pc, offset, packet)
           /\ call.kind \in ValueStages => IsAnswer(call) /\ ValueAt(call, stage, pc, offset, packet)
           /\ \/ call.kind \in {"execute", "prepare"} \/ call.kind = "requestSchema" \/ call.kind = "batch"
              \/ call.kind \in ValueStages
<1>1. Arrived /\ call \in Calls /\ buffer \in Bytes /\ offset \in Int /\ PacketOK(packet)
  BY DEF Shaped, Typed, Arrived
<1>2. Fine(call, stage) /\ packet.error = NoError
  BY DEF Placed, PlacedAt
<1>3. Sound
  BY <1>2, SamePlaces
<1> QED
  BY <1>1, <1>2, <1>3, CallFacts DEF Placed, PlacedAt

\* The parts belong to the kinds of call.
LEMMA PartsOfKinds ==
    ASSUME Shaped, Placed
    PROVE  /\ pc \in {"statement", "counts", "results", "tail", "tuples", "rows"} => call.kind \in {"execute", "prepare"}
           /\ pc \in {"schema", "schemaRows"} => call.kind = "requestSchema"
           /\ pc = "columns" => call.kind \in {"execute", "prepare"} \/ call.kind = "requestSchema"
           /\ pc \in {"batch", "executed"} => call.kind = "batch"
           /\ pc = "value" => call.kind \in ValueStages
<1> SUFFICES ASSUME pc \notin {"header", "done"}
             PROVE  /\ pc \in {"statement", "counts", "results", "tail", "tuples", "rows"} => call.kind \in {"execute", "prepare"}
                    /\ pc \in {"schema", "schemaRows"} => call.kind = "requestSchema"
                    /\ pc = "columns" => call.kind \in {"execute", "prepare"} \/ call.kind = "requestSchema"
                    /\ pc \in {"batch", "executed"} => call.kind = "batch"
                    /\ pc = "value" => call.kind \in ValueStages
  OBVIOUS
<1>1. call.kind \in {"execute", "prepare"} =>
         pc \in {"header", "statement", "columns", "counts", "results", "tail", "tuples", "rows", "done"}
  BY PlacedFacts DEF StatementAt
<1>2. call.kind = "requestSchema" => pc \in {"header", "schema", "columns", "schemaRows", "done"}
  BY PlacedFacts DEF SchemaAt
<1>3. call.kind = "batch" => pc \in {"header", "batch", "executed", "done"}
  BY PlacedFacts DEF BatchAt
<1>4. call.kind \in ValueStages => pc \in {"header", "value", "done"}
  BY PlacedFacts DEF ValueAt
<1>5. \/ call.kind \in {"execute", "prepare"} \/ call.kind = "requestSchema" \/ call.kind = "batch"
      \/ call.kind \in ValueStages
  BY PlacedFacts
<1> QED
  BY <1>1, <1>2, <1>3, <1>4, <1>5

-----------------------------------------------------------------------------
(* The header of a response. *)

\* Of a response of one value, all of it has arrived.
LEMMA ValueArrived ==
    ASSUME Arrived, Sound, call.kind \in ValueStages
    PROVE  /\ stage = call.kind /\ IsAnswer(call) /\ buffer \in Bytes /\ At(buffer, 8, Body(call, stage))
           /\ Len(buffer) = 8 + Len(Body(call, stage)) /\ Len(Body(call, stage)) \in Lengths
<1>1. stage = call.kind
  BY KindOfStage
<1>2. call \in Calls /\ stage \in StagesOf(call.kind)
  BY DEF Arrived
<1>3. IsAnswer(call) /\ Len(Body(call, stage)) \in Lengths
  BY <1>2, CallFacts
<1> QED
  BY <1>1, <1>3, Received

\* What the answer of a single value begins with.
LEMMA ValueCode ==
    ASSUME Arrived, Sound, call.kind \in ValueStages
    PROVE  /\ CodeFor(call, stage) \in Lengths
           /\ At(buffer, 8, Int4(CodeFor(call, stage)))
<1>1. stage = call.kind /\ IsAnswer(call) /\ buffer \in Bytes /\ At(buffer, 8, Body(call, stage))
      /\ Len(Body(call, stage)) \in Lengths
  BY ValueArrived
<1>2. 0 \in Lengths
  BY FewInts
<1>3. CASE stage = "responseCode"
  <2>1. CodeFor(call, stage) = call.number
    BY <1>3 DEF CodeFor
  <2>2. call.number \in Lengths
    BY <1>1, <1>3 DEF IsAnswer
  <2>3. Body(call, stage) = Int4(call.number)
    BY <1>1, <1>3, ValueBodies
  <2> QED
    BY <1>1, <2>1, <2>2, <2>3
<1>4. CASE stage = "lobRead"
  <2>1. CodeFor(call, stage) = Len(call.text)
    BY <1>4 DEF CodeFor
  <2>2. Pair(Body(call, stage), Int4(Len(call.text)), call.text) /\ call.text \in Bytes /\ Len(Int4(Len(call.text))) = 4
    BY <1>1, <1>4, ValueBodies
  <2>3. At(buffer, 8, Int4(Len(call.text)))
    BY <1>1, <2>2 DEF Pair
  <2>4. Len(Body(call, stage)) = 4 + Len(call.text) /\ Len(call.text) \in Nat
    BY <2>2 DEF Pair
  <2>5. Len(call.text) \in Lengths
    BY <1>1, <2>4, Spans DEF Lengths
  <2> QED
    BY <2>1, <2>3, <2>5
<1>5. CASE stage \in {"openDatabase", "engineVersion", "dbParameter", "lobNew"}
  <2>1. CodeFor(call, stage) = 0
    BY <1>5 DEF CodeFor
  <2>2. At(buffer, 8, Int4(0))
    <3>1. CASE stage = "openDatabase"
      BY <1>1, <3>1, ValueBodies DEF Triple
    <3>2. CASE stage = "engineVersion"
      BY <1>1, <3>2, ValueBodies DEF Triple
    <3>3. CASE stage = "dbParameter"
      BY <1>1, <3>3, ValueBodies DEF Pair
    <3>4. CASE stage = "lobNew"
      BY <1>1, <3>4, ValueBodies DEF Pair
    <3> QED
      BY <1>5, <3>1, <3>2, <3>3, <3>4
  <2> QED
    BY <1>2, <2>1, <2>2
<1> QED
  BY <1>1, <1>3, <1>4, <1>5 DEF ValueStages

\* The response code of a sound response does not say that it failed.
LEMMA CodeArrived ==
    ASSUME Arrived, Sound
    PROVE  /\ CodeFor(call, stage) \in Ints /\ CodeFor(call, stage) \in Nat
           /\ At(buffer, 8, Int4(CodeFor(call, stage)))
           /\ stage \in {"fetch", "fetchSchema"} => CodeFor(call, stage) = 0
<1>1. call \in Calls
  BY DEF Arrived
<1>2. 0 \in Lengths /\ \A n \in Lengths : n \in Ints /\ n \in Nat
  BY FewInts, SpansAreInts
<1>3. stage \in {"fetch", "fetchSchema"} => CodeFor(call, stage) = 0
  BY DEF CodeFor
<1>4. CodeFor(call, stage) \in Lengths /\ At(buffer, 8, Int4(CodeFor(call, stage)))
  <2>1. CASE call.kind \in {"execute", "prepare"}
    <3>1. IsStatement(call)
      BY <1>1, <2>1, CallFacts
    <3>2. call.handle \in Lengths /\ Len(call.rows) \in Lengths
      BY <3>1, ListFacts DEF IsStatement
    <3>3. stage \in {"execute", "prepare", "executePrepared", "fetch"}
      BY <2>1, KindOfStage
    <3>4. CASE stage \in {"execute", "prepare"}
      <4>1. CodeFor(call, stage) = call.handle
        BY <3>4 DEF CodeFor
      <4> QED
        BY <2>1, <3>2, <3>4, <4>1, StatementArrived
    <3>5. CASE stage = "executePrepared"
      <4>1. CodeFor(call, stage) = Len(call.rows)
        BY <3>5 DEF CodeFor
      <4> QED
        BY <2>1, <3>2, <3>5, <4>1, StatementArrived
    <3>6. CASE stage = "fetch"
      BY <1>2, <1>3, <2>1, <3>6, StatementArrived
    <3> QED
      BY <3>3, <3>4, <3>5, <3>6
  <2>2. CASE call.kind = "requestSchema"
    <3>1. stage \in {"requestSchema", "fetchSchema"}
      BY <2>2, KindOfStage
    <3>2. call.handle \in Lengths
      BY <1>1, <2>2, CallFacts DEF IsSchema
    <3>3. CASE stage = "requestSchema"
      <4>1. CodeFor(call, stage) = call.handle
        BY <3>3 DEF CodeFor
      <4> QED
        BY <2>2, <3>2, <3>3, <4>1, SchemaArrived
    <3>4. CASE stage = "fetchSchema"
      BY <1>2, <1>3, <2>2, <3>4, SchemaArrived
    <3> QED
      BY <3>1, <3>3, <3>4
  <2>3. CASE call.kind = "batch"
    <3>1. stage = "batch"
      BY <2>3, KindOfStage
    <3>2. CodeFor(call, stage) = 0
      BY <3>1 DEF CodeFor
    <3> QED
      BY <1>2, <2>3, <3>2, BatchArrived
  <2>4. CASE call.kind \in ValueStages
    BY <2>4, ValueCode
  <2> QED
    BY <1>1, <2>1, <2>2, <2>3, <2>4, CallFacts
<1> QED
  BY <1>2, <1>3, <1>4

\* An error ends the response; a response code, where the error is not, leads to its body.
LEMMA HeaderParsed ==
    ASSUME Shaped, ParseHeader, offset = 0
    PROVE  /\ ~Sound => \E r : /\ Goto("done", r, [packet EXCEPT !.error = call.error])
                               /\ r.offset = Len(buffer)
           /\ Sound => \E r : /\ Goto(FirstPart, r, [packet EXCEPT !.code = CodeFor(call, stage),
                                                                   !.length = Len(Body(call, stage))])
                              /\ r.offset = 12
<1> DEFINE kinds == <<"int", "int", "int">>
           r == Parse(kinds, offset)
           length == r.value[1]
           code == r.value[3]
           number == ParseInt(buffer, r.offset)
           message == ParseNullTerminatedString(buffer, number.offset, MessageLength(length))
           failed == [packet EXCEPT !.error = [code |-> number.value, message |-> message.value]]
           read == [packet EXCEPT !.code = code, !.length = length]
<1>1. Arrived
  BY DEF Shaped, Typed
<1>2. /\ Failed(code) => Goto("done", message, failed)
      /\ ~Failed(code) => Goto(FirstPart, r, read)
  BY DEF ParseHeader
<1>3. CASE ~Sound
  <2>1. /\ Parse(kinds, 0).value[3] = -1 /\ r = Parse(kinds, 0)
        /\ message.offset = Len(buffer)
        /\ [code |-> number.value, message |-> message.value] = call.error
    BY <1>1, <1>3, ErrorRead
  <2>2. code = -1
    BY <2>1
  <2> HIDE DEF r, number, message, kinds
  <2>3. Failed(code)
    BY <2>2 DEF Failed
  <2>4. Goto("done", message, [packet EXCEPT !.error = call.error])
    BY <1>2, <2>1, <2>3
  <2> QED
    BY <1>3, <2>1, <2>4
<1>4. CASE Sound
  <2>1. /\ CodeFor(call, stage) \in Ints /\ CodeFor(call, stage) \in Nat
        /\ At(buffer, 8, Int4(CodeFor(call, stage)))
        /\ stage \in {"fetch", "fetchSchema"} => CodeFor(call, stage) = 0
    BY <1>1, <1>4, CodeArrived
  <2>2. BodySent(call, stage) = Body(call, stage)
    BY <1>1, <1>4, Received
  <2>3. r = ReadAs(<<Len(Body(call, stage)), 0, CodeFor(call, stage)>>, 12)
    BY <1>1, <2>1, <2>2, HeaderRead
  <2>4. length = Len(Body(call, stage)) /\ code = CodeFor(call, stage) /\ r.offset = 12
    BY <2>3 DEF ReadAs
  <2> HIDE DEF r, number, message, kinds
  <2>5. ~Failed(code)
    BY <2>1, <2>4 DEF Failed
  <2> QED
    BY <1>2, <1>4, <2>4, <2>5
<1> QED
  BY <1>3, <1>4

\* The reader is where its part of the response begins, after the header,
LEMMA PlacedHeader ==
    ASSUME Shaped, Placed, ParseHeader
    PROVE  Placed'
<1>1. pc = "header"
  BY DEF ParseHeader
<1>2. /\ Arrived /\ PacketOK(packet) /\ call \in Calls
  BY DEF Shaped, Typed, Arrived
<1>3. /\ offset = 0 /\ packet.error = NoError
      /\ call.kind \in {"execute", "prepare"} => StatementAt(call, stage, "header", offset, packet)
      /\ call.kind = "requestSchema" => SchemaAt(call, stage, "header", offset, packet)
      /\ call.kind = "batch" => BatchAt(call, stage, "header", offset, packet)
      /\ call.kind \in ValueStages => ValueAt(call, stage, "header", offset, packet)
  BY <1>1 DEF Placed, PlacedAt
<1>4. DOMAIN packet = {"code", "length", "statementType", "columnCount", "infoArray", "resultCount",
                       "resultInfos", "tupleCount", "rows", "read", "currentTupleCount", "executedCount",
                       "results", "errors", "value", "error"}
  BY <1>2 DEF PacketOK, NoPacket
<1>5. CASE ~Sound
  <2> DEFINE fields == [packet EXCEPT !.error = call.error]
  <2>1. PICK r : Goto("done", r, fields) /\ r.offset = Len(buffer)
    BY <1>3, <1>5, HeaderParsed
  <2>2. ~Fine(call, stage)
    BY <1>5, SamePlaces
  <2>3. /\ fields.error = call.error /\ fields.infoArray = packet.infoArray /\ fields.rows = packet.rows
        /\ fields.currentTupleCount = packet.currentTupleCount
    BY <1>4
  <2> HIDE DEF fields
  <2>4. call.kind \in {"execute", "prepare"} => StatementAt(call, stage, "done", r.offset, fields)
    BY <1>3, <2>2, <2>3 DEF StatementAt, ColumnsGot, RowsGot, Before
  <2>5. call.kind = "requestSchema" => SchemaAt(call, stage, "done", r.offset, fields)
    BY <1>3, <2>2, <2>3 DEF SchemaAt
  <2>6. call.kind = "batch" => BatchAt(call, stage, "done", r.offset, fields)
    BY <1>3, <2>2, <2>3 DEF BatchAt
  <2>7. call.kind \in ValueStages => ValueAt(call, stage, "done", r.offset, fields)
    BY <1>3, <2>2, <2>3 DEF ValueAt
  <2>8. PlacedAt(call, stage, "done", r.offset, fields)
    BY <1>2, <2>1, <2>2, <2>3, <2>4, <2>5, <2>6, <2>7 DEF PlacedAt, Fine, Arrived
  <2>9. pc' = "done" /\ offset' = r.offset /\ packet' = fields /\ call' = call /\ stage' = stage
    BY <2>1 DEF Goto
  <2> QED
    BY <2>8, <2>9 DEF Placed
<1>6. CASE Sound
  <2> DEFINE fields == [packet EXCEPT !.code = CodeFor(call, stage), !.length = Len(Body(call, stage))]
  <2>1. PICK r : Goto(FirstPart, r, fields) /\ r.offset = 12
    BY <1>3, <1>6, HeaderParsed
  <2>2. Fine(call, stage)
    BY <1>6, SamePlaces
  <2>3. /\ fields.error = NoError /\ fields.infoArray = packet.infoArray /\ fields.rows = packet.rows
        /\ fields.currentTupleCount = packet.currentTupleCount /\ fields.statementType = packet.statementType
        /\ fields.columnCount = packet.columnCount /\ fields.read = packet.read
        /\ fields.results = packet.results /\ fields.errors = packet.errors
        /\ fields.code = CodeFor(call, stage) /\ fields.length = Len(Body(call, stage))
    BY <1>3, <1>4
  <2> HIDE DEF fields
  <2>4. call.kind \in {"execute", "prepare"} => StatementAt(call, stage, FirstPart, r.offset, fields)
    <3> SUFFICES ASSUME call.kind \in {"execute", "prepare"} PROVE StatementAt(call, stage, FirstPart, r.offset, fields)
      OBVIOUS
    <3>1. stage \in {"execute", "prepare", "executePrepared", "fetch"}
      BY <1>2, KindOfStage
    <3>2. StatementAt(call, stage, "header", offset, packet)
      BY <1>3
    <3>3. ColumnsGot(call, fields) /\ RowsGot(call, fields)
      BY <2>3, <3>2 DEF StatementAt, ColumnsGot, RowsGot
    <3>4. /\ Before(call, stage, fields)
          /\ stage \in {"execute", "prepare"} => fields.infoArray = <<>>
          /\ stage \in {"executePrepared", "fetch"} => Described(call, fields)
      BY <2>3, <3>2 DEF StatementAt, Before, Described
    <3>5. CASE stage \in {"execute", "prepare"}
      <4>1. FirstPart = "statement"
        BY <3>5 DEF FirstPart
      <4> QED
        BY <2>1, <3>3, <3>4, <3>5, <4>1 DEF StatementAt
    <3>6. CASE stage = "executePrepared"
      <4>1. FirstPart = "counts" /\ ResultsFor(call, stage) = 12
        BY <3>6 DEF FirstPart, ResultsFor
      <4> QED
        BY <2>1, <3>3, <3>4, <3>6, <4>1 DEF StatementAt
    <3>7. CASE stage = "fetch"
      <4>1. FirstPart = "tuples" /\ TuplesFor(call, stage) = 8
        BY <3>7 DEF FirstPart, TuplesFor
      <4> QED
        BY <2>1, <3>3, <3>4, <3>7, <4>1 DEF StatementAt
    <3> QED
      BY <3>1, <3>5, <3>6, <3>7
  <2>5. call.kind = "requestSchema" => SchemaAt(call, stage, FirstPart, r.offset, fields)
    <3> SUFFICES ASSUME call.kind = "requestSchema" PROVE SchemaAt(call, stage, FirstPart, r.offset, fields)
      OBVIOUS
    <3>1. stage \in {"requestSchema", "fetchSchema"}
      BY <1>2, KindOfStage
    <3>2. FirstPart = "schema"
      BY <3>1 DEF FirstPart
    <3> QED
      BY <1>3, <2>1, <2>3, <3>2 DEF SchemaAt
  <2>6. call.kind = "batch" => BatchAt(call, stage, FirstPart, r.offset, fields)
    <3> SUFFICES ASSUME call.kind = "batch" PROVE BatchAt(call, stage, FirstPart, r.offset, fields)
      OBVIOUS
    <3>1. stage = "batch"
      BY <1>2, KindOfStage
    <3>2. FirstPart = "batch"
      BY <3>1 DEF FirstPart
    <3> QED
      BY <1>3, <2>1, <2>3, <3>2 DEF BatchAt
  <2>7. call.kind \in ValueStages => ValueAt(call, stage, FirstPart, r.offset, fields)
    <3> SUFFICES ASSUME call.kind \in ValueStages PROVE ValueAt(call, stage, FirstPart, r.offset, fields)
      OBVIOUS
    <3>1. stage \in ValueStages
      BY <1>2, KindOfStage
    <3>2. FirstPart = "value"
      BY <3>1 DEF FirstPart, ValueStages
    <3> QED
      BY <1>3, <2>1, <2>3, <3>2 DEF ValueAt
  <2>8. FirstPart \notin {"header", "done"}
    BY DEF FirstPart
  <2> QED
    BY <1>2, <2>1, <2>2, <2>3, <2>4, <2>5, <2>6, <2>7, <2>8, GotoPlaced
<1> QED
  BY <1>5, <1>6

-----------------------------------------------------------------------------
(* The parts of a statement's response. *)

\* after a statement's description,
LEMMA PlacedStatement ==
    ASSUME Shaped, Placed, ParseStatement
    PROVE  Placed'
<1>1. pc = "statement"
  BY DEF ParseStatement
<1>2. call.kind \in {"execute", "prepare"}
  BY <1>1, PartsOfKinds
<1>3. /\ Arrived /\ Sound /\ Fine(call, stage) /\ buffer \in Bytes /\ PacketOK(packet) /\ packet.error = NoError
      /\ IsStatement(call) /\ StatementAt(call, stage, "statement", offset, packet)
  BY <1>1, <1>2, PlacedFacts
<1>4. /\ stage \in {"execute", "prepare"} /\ Before(call, stage, packet)
      /\ offset = 12 /\ packet.infoArray = <<>> /\ ColumnsGot(call, packet) /\ RowsGot(call, packet)
  BY <1>3 DEF StatementAt
<1> DEFINE kinds == <<"int", "byte", "int", "byte", "int">>
           r == Parse(kinds, offset)
           fields == [packet EXCEPT !.statementType = r.value[2], !.columnCount = r.value[5]]
<1>5. Goto("columns", r, fields)
  BY DEF ParseStatement
<1>6. r = ReadAs(<<0, call.statementType, 0, 1, Len(call.columns)>>, 26)
  <2>1. StatementLaid(call, buffer, 8)
    BY <1>2, <1>3, <1>4, StatementArrived
  <2>2. /\ At(buffer, 12, Int4(0)) /\ At(buffer, 16, <<call.statementType>>) /\ At(buffer, 17, Int4(0))
        /\ At(buffer, 21, <<1>>) /\ At(buffer, 22, Int4(Len(call.columns)))
    BY <2>1 DEF StatementLaid
  <2>3. 0 \in Ints /\ 1 \in Byte /\ call.statementType \in Byte /\ Len(call.columns) \in Ints
    <3>1. 0 \in Ints
      BY FewInts
    <3>2. 1 \in Byte
      BY FewBytes
    <3>3. call.statementType \in Byte
      BY <1>3, StatementBodies
    <3>4. Len(call.columns) \in Ints
      BY <1>3, ColumnsBytes
    <3> QED
      BY <3>1, <3>2, <3>3, <3>4
  <2>4. /\ ParseField("int", 12) = ReadAs(0, 16) /\ ParseField("byte", 16) = ReadAs(call.statementType, 17)
        /\ ParseField("int", 17) = ReadAs(0, 21) /\ ParseField("byte", 21) = ReadAs(1, 22)
        /\ ParseField("int", 22) = ReadAs(Len(call.columns), 26)
    <3>1. ParseField("int", 12) = ReadAs(0, 12 + 4)
      BY <1>3, <2>2, <2>3, FieldAt
    <3>2. ParseField("byte", 16) = ReadAs(call.statementType, 16 + 1)
      BY <1>3, <2>2, <2>3, FieldAt
    <3>3. ParseField("int", 17) = ReadAs(0, 17 + 4)
      BY <1>3, <2>2, <2>3, FieldAt
    <3>4. ParseField("byte", 21) = ReadAs(1, 21 + 1)
      BY <1>3, <2>2, <2>3, FieldAt
    <3>5. ParseField("int", 22) = ReadAs(Len(call.columns), 22 + 4)
      BY <1>3, <2>2, <2>3, FieldAt
    <3> QED
      BY <3>1, <3>2, <3>3, <3>4, <3>5
  <2>5. "int" \in FieldKinds /\ "byte" \in FieldKinds /\ 12 \in Int
    BY DEF FieldKinds
  <2> QED
    BY <1>3, <1>4, <2>4, <2>5, FiveFields
<1>7. r.value[2] = call.statementType /\ r.value[5] = Len(call.columns) /\ r.offset = 26
  BY <1>6 DEF ReadAs
<1> HIDE DEF r
<1>8. /\ fields.error = NoError /\ fields.infoArray = packet.infoArray /\ fields.rows = packet.rows
      /\ fields.currentTupleCount = packet.currentTupleCount
      /\ fields.statementType = call.statementType /\ fields.columnCount = Len(call.columns)
  BY <1>3, <1>7 DEF PacketOK, NoPacket
<1> HIDE DEF fields
<1>9. Start(SentColumns(call), 0) = 0 /\ Len(fields.infoArray) = 0
  BY <1>4, <1>8 DEF Start
<1>10. StatementAt(call, stage, "columns", r.offset, fields)
  <2>1. ColumnsGot(call, fields) /\ RowsGot(call, fields) /\ Before(call, stage, fields)
    BY <1>4, <1>8 DEF ColumnsGot, RowsGot, Before
  <2>2. r.offset = 26 + Start(SentColumns(call), Len(fields.infoArray))
    BY <1>7, <1>9
  <2> QED
    BY <1>4, <1>8, <2>1, <2>2 DEF StatementAt
<1> QED
  BY <1>2, <1>3, <1>5, <1>8, <1>10, GotoPlaced DEF ValueStages

\* A column is read where it is, and the next one is behind it.
LEMMA PlacedColumn ==
    ASSUME Shaped, Placed, ParseColumn, call.kind \in {"execute", "prepare"}
    PROVE  Placed'
<1>1. pc = "columns"
  BY DEF ParseColumn
<1>3. /\ Arrived /\ Sound /\ Fine(call, stage) /\ buffer \in Bytes /\ PacketOK(packet) /\ packet.error = NoError
      /\ IsStatement(call) /\ StatementAt(call, stage, "columns", offset, packet)
  BY <1>1, PlacedFacts
<1> DEFINE k == Len(packet.infoArray)
           n == Len(call.columns)
<1>4. /\ stage \in {"execute", "prepare"} /\ Before(call, stage, packet)
      /\ packet.columnCount = n /\ packet.statementType = call.statementType
      /\ offset = 26 + Start(SentColumns(call), k)
      /\ ColumnsGot(call, packet) /\ RowsGot(call, packet)
  BY <1>3 DEF StatementAt
<1>5. /\ SentColumns(call) \in Seq(Bytes) /\ Len(SentColumns(call)) = n /\ n \in Nat
      /\ \A i \in 1..n : SentColumns(call)[i] = ColumnOctets(call.columns[i]) /\ IsColumn(call.columns[i])
  BY <1>3, ColumnsBytes
<1>6. Listed(packet.infoArray) /\ k \in Nat /\ k <= n
  BY <1>3, <1>4 DEF PacketOK, Listed, ColumnsGot
<1>7. StatementLaid(call, buffer, 8) /\ At(buffer, 26, FlattenSeq(SentColumns(call)))
  <2>1. StatementLaid(call, buffer, 8)
    BY <1>3, <1>4, StatementArrived
  <2> QED
    BY <2>1 DEF StatementLaid
<1>8. CASE k < n
  <2> DEFINE type == ParseColumnType(offset)
             r == Parse(ColumnFields, type.offset)
             column == [ColumnType |-> type.value, Name |-> r.value[3]]
             fields == [packet EXCEPT !.infoArray = Append(@, column)]
             sent == call.columns[k + 1]
  <2>1. Goto("columns", r, fields)
    BY <1>4, <1>8 DEF ParseColumn
  <2>2. k + 1 \in 1..n /\ k + 1 - 1 = k
    BY <1>5, <1>6, <1>8
  <2>3. At(buffer, offset, ColumnOctets(sent)) /\ IsColumn(sent)
    <3>1. At(buffer, 26 + Start(SentColumns(call), (k + 1) - 1), SentColumns(call)[k + 1])
      BY <1>3, <1>5, <1>7, <2>2, PartsAt
    <3> QED
      BY <1>4, <1>5, <2>2, <3>1
  <2>4. /\ type.value = CUBRIDDataType[sent.type] /\ r.value[3] = sent.name
        /\ r.offset = offset + Len(ColumnOctets(sent))
    BY <1>3, <1>4, <2>3, ColumnRead
  <2> HIDE DEF r, type
  <2>5. /\ Listed(fields.infoArray) /\ Len(fields.infoArray) = k + 1 /\ fields.infoArray[k + 1] = column
        /\ \A i \in 1..k : fields.infoArray[i] = packet.infoArray[i]
    <3>1. fields.infoArray = Append(packet.infoArray, column)
      BY <1>3 DEF PacketOK, NoPacket
    <3> HIDE DEF fields, column
    <3> QED
      BY <1>6, <3>1, AppendAny
  <2>6. column = [ColumnType |-> CUBRIDDataType[sent.type], Name |-> sent.name]
    BY <2>4
  <2> HIDE DEF column
  <2>7. /\ fields.error = NoError /\ fields.rows = packet.rows
        /\ fields.currentTupleCount = packet.currentTupleCount
        /\ fields.statementType = call.statementType /\ fields.columnCount = n
    BY <1>3, <1>4 DEF PacketOK, NoPacket
  <2> HIDE DEF fields
  <2>8. ColumnsGot(call, fields)
    <3>1. \A i \in 1..(k + 1) : fields.infoArray[i] =
             [ColumnType |-> CUBRIDDataType[call.columns[i].type], Name |-> call.columns[i].name]
      <4> TAKE i \in 1..(k + 1)
      <4>1. CASE i = k + 1
        BY <2>5, <2>6, <4>1
      <4>2. CASE i \in 1..k
        BY <1>4, <2>5, <4>2 DEF ColumnsGot
      <4> QED
        BY <1>6, <4>1, <4>2
    <3> QED
      BY <2>2, <2>5, <3>1 DEF ColumnsGot
  <2>9. RowsGot(call, fields) /\ Before(call, stage, fields)
    BY <1>4, <2>7 DEF RowsGot, Before
  <2>10. r.offset = 26 + Start(SentColumns(call), Len(fields.infoArray))
    <3>1. Start(SentColumns(call), k + 1) = Start(SentColumns(call), (k + 1) - 1) + Len(SentColumns(call)[k + 1])
      BY <1>5, <2>2, StartProperties
    <3>2. Start(SentColumns(call), k) \in Nat /\ Len(SentColumns(call)[k + 1]) \in Nat
      <4>1. SentColumns(call)[k + 1] \in Bytes
        BY <1>5, <2>2
      <4> QED
        BY <1>5, <1>6, <4>1, StartProperties, BytesProperties
    <3>3. SentColumns(call)[k + 1] = ColumnOctets(sent)
      BY <1>5, <2>2
    <3> QED
      BY <1>4, <2>2, <2>4, <2>5, <3>1, <3>2, <3>3
  <2>11. StatementAt(call, stage, "columns", r.offset, fields)
    BY <1>4, <2>7, <2>8, <2>9, <2>10 DEF StatementAt
  <2> QED
    BY <1>3, <2>1, <2>7, <2>11, GotoPlaced DEF ValueStages
<1>9. CASE ~(k < n)
  <2> DEFINE r == ReadAs(Null, offset)
  <2>1. Goto(AfterColumns, r, packet)
    BY <1>4, <1>9 DEF ParseColumn
  <2>2. k = n
    BY <1>5, <1>6, <1>9
  <2>3. r.offset = 26 + Len(FlattenSeq(SentColumns(call))) /\ Len(FlattenSeq(SentColumns(call))) \in Nat
    BY <1>4, <1>5, <2>2, StartProperties DEF ReadAs
  <2> HIDE DEF r
  <2>4. Described(call, packet)
    BY <1>4, <2>2 DEF Described
  <2>5. AfterColumns = IF stage = "execute" THEN "counts" ELSE "done"
    BY DEF AfterColumns
  <2>6. StatementAt(call, stage, AfterColumns, r.offset, packet) /\ (AfterColumns = "done" => r.offset = Len(buffer))
    <3>1. CASE stage = "execute"
      <4>1. ResultsFor(call, stage) = 30 + Len(FlattenSeq(SentColumns(call)))
        BY <3>1 DEF ResultsFor
      <4>2. r.offset = ResultsFor(call, stage) - 4
        BY <2>3, <4>1
      <4> QED
        BY <1>4, <2>4, <2>5, <3>1, <4>2 DEF StatementAt
    <3>2. CASE stage = "prepare"
      <4>1. Len(buffer) = 26 + Len(FlattenSeq(SentColumns(call)))
        BY <1>3, <3>2, StatementArrived
      <4>2. FirstFor(call, stage) = 1 /\ Len(packet.rows) \in Nat
        BY <1>3, <3>2 DEF FirstFor, PacketOK, Listed
      <4>3. Len(packet.rows) = packet.currentTupleCount /\ packet.currentTupleCount = 0
        BY <1>4, <4>2 DEF Before
      <4> QED
        BY <1>4, <2>3, <2>4, <2>5, <3>2, <4>1, <4>3 DEF StatementAt
    <3> QED
      BY <1>4, <3>1, <3>2
  <2> QED
    BY <1>3, <2>1, <2>5, <2>6, GotoPlaced DEF ValueStages
<1> QED
  BY <1>8, <1>9

\* The counts of an execution, up to its results.
LEMMA PlacedCounts ==
    ASSUME Shaped, Placed, ParseCounts
    PROVE  Placed'
<1>1. pc = "counts"
  BY DEF ParseCounts
<1>2. call.kind \in {"execute", "prepare"}
  BY <1>1, PartsOfKinds
<1>3. /\ Arrived /\ Sound /\ Fine(call, stage) /\ buffer \in Bytes /\ PacketOK(packet) /\ packet.error = NoError
      /\ IsStatement(call) /\ StatementAt(call, stage, "counts", offset, packet)
  BY <1>1, <1>2, PlacedFacts
<1> DEFINE R == ResultsFor(call, stage)
<1>4. /\ stage \in {"execute", "executePrepared"} /\ Before(call, stage, packet) /\ Described(call, packet)
      /\ offset = R - (IF stage = "execute" THEN 4 ELSE 0)
      /\ ColumnsGot(call, packet) /\ RowsGot(call, packet)
  BY <1>3 DEF StatementAt
<1> DEFINE r == Parse(CountFields, offset)
           fields == [packet EXCEPT !.resultCount = Last(r.value), !.resultInfos = 0]
<1>5. Goto("results", r, fields)
  BY DifferingFields DEF ParseCounts
<1>6. r.offset = R + 5 /\ Last(r.value) = 1
  <2>1. R \in Nat /\ R = ResultsAt
    BY <1>2, <1>3, StatementArrived, SamePlaces
  <2>2. At(buffer, R, <<0>>) /\ At(buffer, R + 1, Int4(1))
    BY <1>2, <1>3, <1>4, <2>1, StatementArrived DEF ResultLaid
  <2>3. 0 \in Byte /\ 1 \in Ints /\ Len(call.rows) \in Ints
    <3>1. 0 \in Byte
      BY FewBytes
    <3>2. 1 \in Ints
      BY FewInts
    <3>3. Len(call.rows) \in Ints
      BY <1>3, StatementBodies
    <3> QED
      BY <3>1, <3>2, <3>3
  <2>4. ParseField("byte", R) = ReadAs(0, R + 1)
    BY <1>3, <2>2, <2>3, FieldAt
  <2>5. ParseField("int", R + 1) = ReadAs(1, R + 5)
    <3>1. ParseField("int", R + 1) = ReadAs(1, R + 1 + 4)
      BY <1>3, <2>2, <2>3, FieldAt
    <3> QED
      BY <2>1, <3>1
  <2>6. "int" \in FieldKinds /\ "byte" \in FieldKinds
    BY DEF FieldKinds
  <2> HIDE DEF R
  <2>7. CASE stage = "execute"
    <3>1. offset = R - 4 /\ offset = 26 + Len(FlattenSeq(SentColumns(call))) /\ offset \in Int
      <4>1. R = 30 + Len(FlattenSeq(SentColumns(call))) /\ Len(FlattenSeq(SentColumns(call))) \in Nat
        BY <1>2, <1>3, <2>7, StatementArrived DEF ResultsFor, R
      <4> QED
        BY <1>4, <2>7, <4>1 DEF R
    <3>2. ParseField("int", offset) = ReadAs(Len(call.rows), R)
      <4>1. At(buffer, offset, Int4(Len(call.rows)))
        BY <1>2, <1>3, <2>7, <3>1, StatementArrived
      <4>2. ParseField("int", offset) = ReadAs(Len(call.rows), offset + 4)
        BY <1>3, <2>3, <4>1, FieldAt
      <4> QED
        BY <2>1, <3>1, <4>2
    <3>3. r = ReadAs(<<Len(call.rows), 0, 1>>, R + 5)
      BY <1>3, <2>4, <2>5, <2>6, <2>7, <3>1, <3>2, ThreeFields DEF CountFields
    <3> QED
      BY <3>3 DEF ReadAs, Last
  <2>8. CASE stage = "executePrepared"
    <3>1. offset = R /\ offset \in Int
      BY <1>4, <2>1, <2>8 DEF R
    <3>2. r = ReadAs(<<0, 1>>, R + 5)
      BY <1>3, <2>4, <2>5, <2>6, <2>8, <3>1, TwoFields DEF CountFields
    <3> QED
      BY <3>2 DEF ReadAs, Last
  <2> QED
    BY <1>4, <2>7, <2>8
<1> HIDE DEF r, R
<1>7. /\ fields.error = NoError /\ fields.infoArray = packet.infoArray /\ fields.rows = packet.rows
      /\ fields.currentTupleCount = packet.currentTupleCount
      /\ fields.statementType = packet.statementType /\ fields.columnCount = packet.columnCount
      /\ fields.resultCount = 1 /\ fields.resultInfos = 0
  BY <1>3, <1>6 DEF PacketOK, NoPacket
<1> HIDE DEF fields
<1>8. StatementAt(call, stage, "results", r.offset, fields)
  <2>1. ColumnsGot(call, fields) /\ RowsGot(call, fields) /\ Before(call, stage, fields) /\ Described(call, fields)
    BY <1>4, <1>7 DEF ColumnsGot, RowsGot, Before, Described
  <2>2. fields.resultInfos \in 0..1
    BY <1>7
  <2>3. r.offset = ResultsFor(call, stage) + 5 + 21 * fields.resultInfos
    <3>1. R \in Nat
      BY <1>2, <1>3, StatementArrived, SamePlaces DEF R
    <3> QED
      BY <1>6, <1>7, <3>1 DEF R
  <2> QED
    BY <1>4, <1>7, <2>1, <2>2, <2>3 DEF StatementAt
<1> QED
  BY <1>2, <1>3, <1>5, <1>7, <1>8, GotoPlaced DEF ValueStages

\* after the result of a statement,
LEMMA PlacedResultInfo ==
    ASSUME Shaped, Placed, ParseResultInfo
    PROVE  Placed'
<1>1. pc = "results"
  BY DEF ParseResultInfo
<1>2. call.kind \in {"execute", "prepare"}
  BY <1>1, PartsOfKinds
<1>3. /\ Arrived /\ Sound /\ Fine(call, stage) /\ buffer \in Bytes /\ PacketOK(packet) /\ packet.error = NoError
      /\ IsStatement(call) /\ StatementAt(call, stage, "results", offset, packet)
  BY <1>1, <1>2, PlacedFacts
<1> DEFINE R == ResultsFor(call, stage)
<1>4. /\ stage \in {"execute", "executePrepared"} /\ Before(call, stage, packet) /\ Described(call, packet)
      /\ packet.resultCount = 1 /\ packet.resultInfos \in 0..1
      /\ offset = R + 5 + 21 * packet.resultInfos
      /\ ColumnsGot(call, packet) /\ RowsGot(call, packet)
  BY <1>3 DEF StatementAt
<1>5. R \in Nat /\ R = ResultsAt
  BY <1>2, <1>3, StatementArrived, SamePlaces
<1>6. CASE packet.resultInfos < packet.resultCount
  <2> DEFINE r == Parse(<<"byte", "int", "oid", "int", "int">>, offset)
             fields == [packet EXCEPT !.resultInfos = @ + 1]
  <2>1. Goto("results", r, fields)
    BY <1>6 DEF ParseResultInfo
  <2>2. packet.resultInfos = 0 /\ offset = R + 5 /\ offset \in Int
    BY <1>4, <1>5, <1>6
  <2>3. r.offset = R + 26
    <3>1. /\ At(buffer, R + 5, <<call.statementType>>) /\ At(buffer, R + 6, Int4(Len(call.rows)))
          /\ At(buffer, R + 10, Oid) /\ At(buffer, R + 18, Int4(0)) /\ At(buffer, R + 22, Int4(0))
      BY <1>2, <1>3, <1>4, <1>5, StatementArrived DEF ResultLaid
    <3>2. 0 \in Ints
      BY FewInts
    <3>3. call.statementType \in Byte /\ Len(call.rows) \in Ints
      BY <1>3, StatementBodies
    <3> HIDE DEF R
    <3>4. ParseField("byte", R + 5) = ReadAs(call.statementType, R + 6)
      <4>1. ParseField("byte", R + 5) = ReadAs(call.statementType, R + 5 + 1)
        BY <1>3, <3>1, <3>3, FieldAt
      <4> QED
        BY <1>5, <4>1
    <3>5. ParseField("int", R + 6) = ReadAs(Len(call.rows), R + 10)
      <4>1. ParseField("int", R + 6) = ReadAs(Len(call.rows), R + 6 + 4)
        BY <1>3, <3>1, <3>3, FieldAt
      <4> QED
        BY <1>5, <4>1
    <3>6. ParseField("oid", R + 10) = ReadAs(Oid, R + 18)
      <4>1. ParseField("oid", R + 10) = ReadAs(Oid, R + 10 + 8)
        BY <1>3, <3>1, FieldAt
      <4> QED
        BY <1>5, <4>1
    <3>7. ParseField("int", R + 18) = ReadAs(0, R + 22)
      <4>1. ParseField("int", R + 18) = ReadAs(0, R + 18 + 4)
        BY <1>3, <3>1, <3>2, FieldAt
      <4> QED
        BY <1>5, <4>1
    <3>8. ParseField("int", R + 22) = ReadAs(0, R + 26)
      <4>1. ParseField("int", R + 22) = ReadAs(0, R + 22 + 4)
        BY <1>3, <3>1, <3>2, FieldAt
      <4> QED
        BY <1>5, <4>1
    <3>9. "int" \in FieldKinds /\ "byte" \in FieldKinds /\ "oid" \in FieldKinds
      BY DEF FieldKinds
    <3>10. r = ReadAs(<<call.statementType, Len(call.rows), Oid, 0, 0>>, R + 26)
      BY <1>3, <2>2, <3>4, <3>5, <3>6, <3>7, <3>8, <3>9, FiveFields
    <3> QED
      BY <3>10 DEF ReadAs
  <2> HIDE DEF r
  <2>4. /\ fields.error = NoError /\ fields.infoArray = packet.infoArray /\ fields.rows = packet.rows
        /\ fields.currentTupleCount = packet.currentTupleCount
        /\ fields.statementType = packet.statementType /\ fields.columnCount = packet.columnCount
        /\ fields.resultCount = 1 /\ fields.resultInfos = 1
    BY <1>3, <1>4, <2>2 DEF PacketOK, NoPacket
  <2> HIDE DEF fields
  <2>5. StatementAt(call, stage, "results", r.offset, fields)
    <3>1. ColumnsGot(call, fields) /\ RowsGot(call, fields) /\ Before(call, stage, fields) /\ Described(call, fields)
      BY <1>4, <2>4 DEF ColumnsGot, RowsGot, Before, Described
    <3>2. fields.resultInfos \in 0..1
      BY <2>4
    <3>3. r.offset = ResultsFor(call, stage) + 5 + 21 * fields.resultInfos
      BY <1>5, <2>3, <2>4
    <3> QED
      BY <1>4, <2>4, <3>1, <3>2, <3>3 DEF StatementAt
  <2> QED
    BY <1>2, <1>3, <2>1, <2>4, <2>5, GotoPlaced DEF ValueStages
<1>7. CASE ~(packet.resultInfos < packet.resultCount)
  <2> DEFINE r == ReadAs(Null, offset)
  <2>1. Goto("tail", r, packet)
    BY <1>7 DEF ParseResultInfo
  <2>2. packet.resultInfos = 1
    BY <1>4, <1>7
  <2>3. r.offset = R + 26
    BY <1>4, <1>5, <2>2 DEF ReadAs
  <2> HIDE DEF r
  <2>4. StatementAt(call, stage, "tail", r.offset, packet)
    BY <1>4, <2>3 DEF StatementAt
  <2> QED
    BY <1>2, <1>3, <2>1, <2>4, GotoPlaced DEF ValueStages
<1> QED
  BY <1>6, <1>7

\* What is behind the results takes as many bytes as the version has it.
LEMMA TailParsed ==
    ASSUME Arrived, Sound, call.kind \in {"execute", "prepare"}, stage \in {"execute", "executePrepared"}
    PROVE  Parse(TailFields, ResultsAt + 26).offset = ResultsAt + (26 + TailSize(call))
<1> DEFINE T == ResultsAt + 26
<1>1. T \in Int /\ ResultsAt \in Nat /\ buffer \in Bytes /\ ResultLaid(call, buffer, ResultsAt)
  BY StatementArrived
<1>2. At(buffer, T, IncludeOctets(call)) /\ At(buffer, T + Len(IncludeOctets(call)), ShardOctets(call))
  BY <1>1 DEF ResultLaid
<1>3. Len(IncludeOctets(call)) = (IF call.version > 1 THEN 1 ELSE 0)
  BY TailBytes
<1>4. 0 \in Ints
  BY FewInts
<1>5. 0 \in Byte
  BY FewBytes
<1>6. "int" \in FieldKinds /\ "byte" \in FieldKinds
  BY DEF FieldKinds
<1>7. call.version > 1 => ParseField("byte", T) = ReadAs(0, T + 1)
  BY <1>1, <1>2, <1>5, FieldAt DEF IncludeOctets
<1>8. call.version > 4 =>
        ParseField("int", T + Len(IncludeOctets(call))) = ReadAs(0, T + Len(IncludeOctets(call)) + 4)
  BY <1>1, <1>2, <1>4, FieldAt DEF ShardOctets
<1> HIDE DEF T
<1>9. Parse(TailFields, T).offset = T + TailSize(call)
  <2>1. CASE call.version > 1 /\ call.version > 4
    <3>1. TailFields = <<"byte", "int">>
      BY <2>1, DifferingFields
    <3>2. ParseField("int", T + 1) = ReadAs(0, T + 1 + 4)
      BY <1>3, <1>8, <2>1
    <3>3. Parse(TailFields, T) = ReadAs(<<0, 0>>, T + 1 + 4)
      BY <1>1, <1>6, <1>7, <2>1, <3>1, <3>2, TwoFields
    <3> QED
      BY <1>1, <2>1, <3>3 DEF ReadAs, TailSize
  <2>2. CASE call.version > 1 /\ ~(call.version > 4)
    <3>1. TailFields = <<"byte">>
      BY <2>2, DifferingFields
    <3>2. Parse(TailFields, T) = ReadAs(<<0>>, T + 1)
      BY <1>1, <1>6, <1>7, <2>2, <3>1, OneField
    <3> QED
      BY <1>1, <2>2, <3>2 DEF ReadAs, TailSize
  <2>3. CASE ~(call.version > 1) /\ call.version > 4
    <3>1. TailFields = <<"int">>
      BY <2>3, DifferingFields
    <3>2. ParseField("int", T) = ReadAs(0, T + 4)
      BY <1>1, <1>3, <1>8, <2>3
    <3>3. Parse(TailFields, T) = ReadAs(<<0>>, T + 4)
      BY <1>1, <1>6, <2>3, <3>1, <3>2, OneField
    <3> QED
      BY <1>1, <2>3, <3>3 DEF ReadAs, TailSize
  <2>4. CASE ~(call.version > 1) /\ ~(call.version > 4)
    <3>1. TailFields = <<>>
      BY <2>4, DifferingFields
    <3>2. Parse(TailFields, T) = ReadAs(<<>>, T)
      BY <1>1, <3>1, NoField
    <3> QED
      BY <1>1, <2>4, <3>2 DEF ReadAs, TailSize
  <2> QED
    BY <2>1, <2>2, <2>3, <2>4
<1>10. TailSize(call) \in Nat
  BY DEF TailSize
<1> QED
  BY <1>1, <1>9, <1>10 DEF T

\* after the tail, whatever the version,
LEMMA PlacedTail ==
    ASSUME Shaped, Placed, ParseTail
    PROVE  Placed'
<1>1. pc = "tail"
  BY DEF ParseTail
<1>2. call.kind \in {"execute", "prepare"}
  BY <1>1, PartsOfKinds
<1>3. /\ Arrived /\ Sound /\ Fine(call, stage) /\ buffer \in Bytes /\ PacketOK(packet) /\ packet.error = NoError
      /\ IsStatement(call) /\ StatementAt(call, stage, "tail", offset, packet)
  BY <1>1, <1>2, PlacedFacts
<1> DEFINE R == ResultsFor(call, stage)
<1>4. /\ stage \in {"execute", "executePrepared"} /\ Before(call, stage, packet) /\ Described(call, packet)
      /\ offset = R + 26
      /\ ColumnsGot(call, packet) /\ RowsGot(call, packet)
  BY <1>3 DEF StatementAt
<1>5. R \in Nat /\ R = ResultsAt /\ TailSize(call) \in Nat
  BY <1>2, <1>3, StatementArrived, SamePlaces
<1> DEFINE r == Parse(TailFields, offset)
           fields == [packet EXCEPT !.currentTupleCount = 0]
<1>6. r.offset = R + (26 + TailSize(call))
  BY <1>2, <1>3, <1>4, <1>5, TailParsed
<1>7. FirstFor(call, stage) = 1 /\ Len(packet.rows) \in Nat /\ packet.currentTupleCount = 0
  BY <1>3, <1>4 DEF FirstFor, PacketOK, Listed, Before
<1> HIDE DEF R
<1>8. CASE packet.statementType = SELECT
  <2>1. Goto("tuples", r, fields)
    BY <1>8 DEF ParseTail
  <2> HIDE DEF r
  <2>2. /\ fields.error = NoError /\ fields.infoArray = packet.infoArray /\ fields.rows = packet.rows
        /\ fields.currentTupleCount = packet.currentTupleCount
        /\ fields.statementType = packet.statementType /\ fields.columnCount = packet.columnCount
    BY <1>3, <1>7 DEF PacketOK, NoPacket
  <2> HIDE DEF fields
  <2>3. ColumnsGot(call, fields) /\ RowsGot(call, fields) /\ Before(call, stage, fields) /\ Described(call, fields)
    BY <1>4, <2>2 DEF ColumnsGot, RowsGot, Before, Described
  <2>4. r.offset = TuplesFor(call, stage) + (IF stage = "fetch" THEN 4 ELSE 0)
    <3>1. TuplesFor(call, stage) = R + (26 + TailSize(call))
      BY <1>4 DEF TuplesFor, R
    <3> QED
      BY <1>4, <1>5, <1>6, <3>1
  <2>5. call.statementType = SELECT
    BY <1>4, <1>8 DEF Described
  <2>6. StatementAt(call, stage, "tuples", r.offset, fields)
    BY <1>4, <2>3, <2>4, <2>5 DEF StatementAt
  <2> QED
    BY <1>2, <1>3, <2>1, <2>2, <2>6, GotoPlaced DEF ValueStages
<1>9. CASE packet.statementType # SELECT
  <2>1. Goto("done", r, packet)
    BY <1>9 DEF ParseTail
  <2> HIDE DEF r
  <2>2. call.statementType # SELECT
    BY <1>4, <1>9 DEF Described
  <2>3. r.offset = Len(buffer)
    <3>1. Len(buffer) = ResultsAt + (26 + TailSize(call) + Len(TupleOctets(call)))
      BY <1>2, <1>3, <1>4, StatementArrived
    <3>2. Len(TupleOctets(call)) = 0
      BY <2>2 DEF TupleOctets
    <3> QED
      BY <1>5, <1>6, <3>1, <3>2
  <2>4. Len(packet.rows) = packet.currentTupleCount
    BY <1>4, <1>7 DEF Before
  <2>5. StatementAt(call, stage, "done", r.offset, packet)
    BY <1>4, <2>2, <2>4 DEF StatementAt
  <2> QED
    BY <1>2, <1>3, <2>1, <2>3, <2>5, GotoPlaced DEF ValueStages
<1> QED
  BY <1>8, <1>9

\* after the number of rows,
LEMMA PlacedTuples ==
    ASSUME Shaped, Placed, ParseTuples
    PROVE  Placed'
<1>1. pc = "tuples"
  BY DEF ParseTuples
<1>2. call.kind \in {"execute", "prepare"}
  BY <1>1, PartsOfKinds
<1>3. /\ Arrived /\ Sound /\ Fine(call, stage) /\ buffer \in Bytes /\ PacketOK(packet) /\ packet.error = NoError
      /\ IsStatement(call) /\ StatementAt(call, stage, "tuples", offset, packet)
  BY <1>1, <1>2, PlacedFacts
<1> DEFINE T == TuplesFor(call, stage)
<1>4. /\ stage # "prepare" /\ (stage # "fetch" => call.statementType = SELECT)
      /\ Before(call, stage, packet) /\ Described(call, packet)
      /\ offset = T + (IF stage = "fetch" THEN 4 ELSE 0)
      /\ ColumnsGot(call, packet) /\ RowsGot(call, packet)
  BY <1>3 DEF StatementAt
<1>5. T \in Nat /\ At(buffer, T, Int4(0)) /\ At(buffer, T + 4, Int4(RowCount)) /\ RowCount \in Nat /\ RowCount \in Ints
  BY <1>2, <1>3, <1>4, RowsArrived, SamePlaces
<1> DEFINE r == Parse(TupleFields, offset)
           fields == [packet EXCEPT !.tupleCount = Last(r.value), !.read = 0]
<1>6. Goto("rows", r, fields)
  BY DifferingFields DEF ParseTuples
<1> HIDE DEF T
<1>7. r.offset = T + 8 /\ Last(r.value) = RowCount
  <2>1. ParseField("int", T + 4) = ReadAs(RowCount, T + 8)
    <3>1. ParseField("int", T + 4) = ReadAs(RowCount, T + 4 + 4)
      BY <1>3, <1>5, FieldAt
    <3> QED
      BY <1>5, <3>1
  <2>2. ParseField("int", T) = ReadAs(0, T + 4)
    <3>1. 0 \in Ints
      BY FewInts
    <3> QED
      BY <1>3, <1>5, <3>1, FieldAt
  <2>3. "int" \in FieldKinds
    BY DEF FieldKinds
  <2>4. CASE stage = "fetch"
    <3>1. offset = T + 4 /\ offset \in Int
      BY <1>4, <1>5, <2>4 DEF T
    <3>2. r = ReadAs(<<RowCount>>, T + 8)
      BY <1>3, <2>1, <2>3, <2>4, <3>1, OneField DEF TupleFields
    <3> QED
      BY <3>2 DEF ReadAs, Last
  <2>5. CASE stage # "fetch"
    <3>1. offset = T /\ offset \in Int
      BY <1>4, <1>5, <2>5 DEF T
    <3>2. r = ReadAs(<<0, RowCount>>, T + 8)
      BY <1>3, <2>1, <2>2, <2>3, <2>5, <3>1, TwoFields DEF TupleFields
    <3> QED
      BY <3>2 DEF ReadAs, Last
  <2> QED
    BY <2>4, <2>5
<1> HIDE DEF r
<1>8. /\ fields.error = NoError /\ fields.infoArray = packet.infoArray /\ fields.rows = packet.rows
      /\ fields.currentTupleCount = packet.currentTupleCount
      /\ fields.statementType = packet.statementType /\ fields.columnCount = packet.columnCount
      /\ fields.tupleCount = RowCount /\ fields.read = 0
  BY <1>3, <1>7 DEF PacketOK, NoPacket
<1> HIDE DEF fields
<1>9. StatementAt(call, stage, "rows", r.offset, fields)
  <2>1. ColumnsGot(call, fields) /\ RowsGot(call, fields) /\ Described(call, fields)
    BY <1>4, <1>8 DEF ColumnsGot, RowsGot, Described
  <2>2. fields.tupleCount = LastFor(call, stage) - FirstFor(call, stage) + 1
    BY <1>8, SamePlaces
  <2>3. fields.read \in 0..fields.tupleCount
    BY <1>5, <1>8
  <2>4. fields.currentTupleCount = FirstFor(call, stage) - 1 /\ Len(fields.rows) = fields.currentTupleCount + fields.read
    <3>1. fields.currentTupleCount = FirstFor(call, stage) - 1 /\ Len(fields.rows) = FirstFor(call, stage) - 1
      BY <1>4, <1>8 DEF Before
    <3>2. FirstFor(call, stage) \in Nat
      BY <1>2, <1>3, <1>4, RowsArrived, SamePlaces
    <3> QED
      BY <1>8, <3>1, <3>2
  <2>5. r.offset = TuplesFor(call, stage) + 8 + Start(RowsFor(call, stage), fields.read)
    <3>1. Start(RowsFor(call, stage), 0) = 0
      BY DEF Start
    <3> QED
      BY <1>5, <1>7, <1>8, <3>1 DEF T
  <2> QED
    BY <1>4, <2>1, <2>2, <2>3, <2>4, <2>5 DEF StatementAt
<1> QED
  BY <1>2, <1>3, <1>6, <1>8, <1>9, GotoPlaced DEF ValueStages

\* Whether a packet has only been read where the parser can keep its place.
InStepOf(c, s, p) ==
    /\ c.kind = "prepare" =>
          \A i \in DOMAIN p.rows, j \in DOMAIN c.columns :
              c.rows[i][j].value = Null \/ c.rows[i][j].type \notin ZonedTypes
    /\ s = "fetchSchema" => SchemaFields(c.schemaType) # <<>> \/ c.rows = <<>>

\* InStep depends on the call, the response and the packet alone.
LEMMA InStepIs ==
    /\ InStep <=> InStepOf(call, stage, packet)
    /\ InStep' <=> InStepOf(call', stage', packet')
<1>1. InStep <=> InStepOf(call, stage, packet)
  BY DEF InStep, InStepOf, Sent
<1>2. InStep' <=> InStepOf(call', stage', packet')
  BY DEF InStep, InStepOf, Sent
<1> QED
  BY <1>1, <1>2

\* after a row, if no time with a zone was among those the old protocol read,
LEMMA PlacedRow ==
    ASSUME Shaped, Placed, ParseRow, InStep'
    PROVE  Placed'
<1>1. pc = "rows"
  BY DEF ParseRow
<1>2. call.kind \in {"execute", "prepare"}
  BY <1>1, PartsOfKinds
<1>3. /\ Arrived /\ Sound /\ Fine(call, stage) /\ buffer \in Bytes /\ PacketOK(packet) /\ packet.error = NoError
      /\ IsStatement(call) /\ StatementAt(call, stage, "rows", offset, packet)
  BY <1>1, <1>2, PlacedFacts
<1> DEFINE T == TuplesFor(call, stage) + 8
           first == FirstFor(call, stage)
           sent == RowsFor(call, stage)
           k == packet.read
           n == packet.tupleCount
<1>4. /\ stage # "prepare" /\ (stage # "fetch" => call.statementType = SELECT) /\ Described(call, packet)
      /\ ColumnsGot(call, packet) /\ RowsGot(call, packet)
  BY <1>3 DEF StatementAt
<1>5. /\ n = LastFor(call, stage) - first + 1 /\ k \in 0..n
      /\ packet.currentTupleCount = first - 1
      /\ Len(packet.rows) = packet.currentTupleCount + k
      /\ offset = T + Start(sent, k)
  BY <1>3 DEF StatementAt
<1>6. /\ T \in Nat /\ n \in Nat /\ first \in Nat /\ first > 0
      /\ sent \in Seq(Bytes) /\ Len(sent) = n
      /\ \A i \in 1..n : sent[i] = RowOctets(call, call.rows[first + i - 1]) /\ IsRow(call, call.rows[first + i - 1])
      /\ At(buffer, T, FlattenSeq(sent))
      /\ Len(buffer) = T + Len(FlattenSeq(sent))
  <2>1. TuplesFor(call, stage) = TuplesAt /\ first = FirstRow /\ n = RowCount /\ sent = Rows
    BY <1>5, SamePlaces
  <2> HIDE DEF first, n, sent
  <2>2. /\ TuplesAt \in Nat /\ RowCount \in Nat /\ FirstRow \in Nat /\ FirstRow > 0
        /\ Rows \in Seq(Bytes) /\ Len(Rows) = RowCount
        /\ \A i \in 1..RowCount : /\ Rows[i] = RowOctets(call, call.rows[FirstRow + i - 1])
                                  /\ IsRow(call, call.rows[FirstRow + i - 1])
        /\ At(buffer, TuplesAt + 8, FlattenSeq(Rows))
        /\ Len(buffer) = TuplesAt + 8 + Len(FlattenSeq(Rows))
    BY <1>2, <1>3, <1>4, RowsArrived
  <2> QED
    BY <2>1, <2>2
<1> HIDE DEF T, first, sent
<1>7. CASE k < n
  <2> DEFINE r == ParseCells(packet.infoArray, Parse(<<"int", "oid">>, offset).offset)
             fields == [packet EXCEPT !.rows = Append(@, r.value), !.read = @ + 1]
             row == call.rows[first + k]
  <2>1. Goto("rows", r, fields)
    BY <1>7 DEF ParseRow
  <2>2. k + 1 \in 1..n /\ (k + 1) - 1 = k /\ k \in Nat /\ first + (k + 1) - 1 = first + k
    BY <1>5, <1>6, <1>7, SMTT(30)
  <2>3. At(buffer, offset, RowOctets(call, row)) /\ IsRow(call, row) /\ sent[k + 1] = RowOctets(call, row)
    <3>1. At(buffer, T + Start(sent, (k + 1) - 1), sent[k + 1])
      BY <1>3, <1>6, <2>2, PartsAt
    <3>2. sent[k + 1] = RowOctets(call, call.rows[first + (k + 1) - 1]) /\ IsRow(call, call.rows[first + (k + 1) - 1])
      BY <1>6, <2>2
    <3> QED
      BY <1>5, <2>2, <3>1, <3>2
  <2>4. Listed(packet.rows) /\ Len(packet.rows) + 1 = first + k
    <3>1. Listed(packet.rows)
      BY <1>3 DEF PacketOK
    <3> QED
      BY <1>5, <1>6, <2>2, <3>1
  <2> HIDE DEF row
  <2>5. /\ fields.rows = Append(packet.rows, r.value) /\ fields.read = k + 1
        /\ fields.error = NoError /\ fields.infoArray = packet.infoArray
        /\ fields.currentTupleCount = packet.currentTupleCount
        /\ fields.statementType = packet.statementType /\ fields.columnCount = packet.columnCount
        /\ fields.tupleCount = n
    BY <1>3 DEF PacketOK, NoPacket
  <2>6. /\ Listed(fields.rows) /\ Len(fields.rows) = first + k /\ fields.rows[first + k] = r.value
        /\ \A i \in 1..Len(packet.rows) : fields.rows[i] = packet.rows[i]
    <3> HIDE DEF fields, r
    <3> QED
      BY <2>4, <2>5, AppendAny
  <2> HIDE DEF fields
  <2>7. call.kind = "prepare" =>
           \A j \in 1..Len(packet.infoArray) : row[j].value = Null \/ row[j].type \notin ZonedTypes
    <3> SUFFICES ASSUME call.kind = "prepare", NEW j \in 1..Len(packet.infoArray)
                 PROVE  row[j].value = Null \/ row[j].type \notin ZonedTypes
      OBVIOUS
    <3>1. call' = call /\ stage' = stage /\ packet' = fields
      BY <2>1 DEF Goto
    <3>2. InStepOf(call, stage, fields)
      BY <3>1, InStepIs
    <3>3. j \in DOMAIN call.columns
      <4>1. IsList(call.columns) /\ Len(packet.infoArray) = Len(call.columns)
        BY <1>3, <1>4 DEF IsStatement, Described
      <4> QED
        BY <4>1, ListFacts
    <3>4. first + k \in DOMAIN fields.rows
      <4>1. DOMAIN fields.rows = 1..(first + k)
        BY <2>6, ListedDomain
      <4> QED
        BY <1>6, <2>2, <4>1
    <3> QED
      BY <3>2, <3>3, <3>4 DEF InStepOf, row
  <2>8. /\ r.offset = offset + Len(RowOctets(call, row))
        /\ \A j \in 1..Len(packet.infoArray) : Readable(row[j]) => r.value[j] = Meant(row[j])
    <3>1. Len(packet.infoArray) = Len(call.columns)
      BY <1>4 DEF Described
    <3>2. \A j \in 1..Len(packet.infoArray) : packet.infoArray[j].ColumnType = CUBRIDDataType[call.columns[j].type]
      <4> TAKE j \in 1..Len(packet.infoArray)
      <4>1. packet.infoArray[j] = [ColumnType |-> CUBRIDDataType[call.columns[j].type], Name |-> call.columns[j].name]
        BY <1>4 DEF ColumnsGot
      <4> QED
        BY <4>1
    <3> QED
      BY <1>3, <2>3, <2>7, <3>1, <3>2, RowRead
  <2> HIDE DEF r
  <2>9. RowsGot(call, fields)
    <3> SUFFICES ASSUME NEW i \in 1..Len(fields.rows), NEW j \in 1..Len(call.columns), Readable(call.rows[i][j])
                 PROVE  fields.rows[i][j] = Meant(call.rows[i][j])
      BY DEF RowsGot
    <3>1. CASE i = first + k
      <4>1. j \in 1..Len(packet.infoArray)
        BY <1>4 DEF Described
      <4> QED
        BY <2>6, <2>8, <3>1, <4>1 DEF row
    <3>2. CASE i \in 1..Len(packet.rows)
      BY <1>4, <2>6, <3>2 DEF RowsGot
    <3>3. i = first + k \/ i \in 1..Len(packet.rows)
      BY <1>6, <2>2, <2>4, <2>6
    <3> QED
      BY <3>1, <3>2, <3>3
  <2>10. ColumnsGot(call, fields) /\ Described(call, fields)
    BY <1>4, <2>5 DEF ColumnsGot, Described
  <2>11. r.offset = T + Start(sent, fields.read)
    <3>1. Start(sent, k + 1) = Start(sent, (k + 1) - 1) + Len(sent[k + 1])
      BY <1>6, <2>2, StartProperties
    <3>2. Start(sent, k) \in Nat
      BY <1>5, <1>6, StartProperties
    <3>3. Len(sent[k + 1]) \in Nat
      <4>1. sent[k + 1] \in Bytes
        BY <1>6, <2>2
      <4> QED
        BY <4>1, BytesProperties
    <3> QED
      BY <1>5, <1>6, <2>2, <2>3, <2>5, <2>8, <3>1, <3>2, <3>3
  <2>12. /\ fields.tupleCount = LastFor(call, stage) - FirstFor(call, stage) + 1
         /\ fields.read \in 0..fields.tupleCount
         /\ fields.currentTupleCount = FirstFor(call, stage) - 1
         /\ Len(fields.rows) = fields.currentTupleCount + fields.read
    BY <1>5, <1>6, <2>2, <2>5, <2>6 DEF first
  <2>13. StatementAt(call, stage, "rows", r.offset, fields)
    BY <1>4, <2>9, <2>10, <2>11, <2>12 DEF StatementAt, T, sent
  <2> QED
    BY <1>2, <1>3, <2>1, <2>5, <2>13, GotoPlaced DEF ValueStages
<1>8. CASE ~(k < n)
  <2> DEFINE r == ReadAs(Null, offset)
             fields == [packet EXCEPT !.currentTupleCount = @ + packet.tupleCount]
  <2>1. Goto("done", r, fields)
    BY <1>8 DEF ParseRow
  <2>2. k = n
    BY <1>5, <1>6, <1>8
  <2>3. r.offset = Len(buffer)
    <3>1. Len(FlattenSeq(sent)) = Start(sent, n)
      BY <1>6, StartProperties
    <3> QED
      BY <1>5, <1>6, <2>2, <3>1 DEF ReadAs
  <2> HIDE DEF r
  <2>4. /\ fields.rows = packet.rows /\ fields.error = NoError /\ fields.infoArray = packet.infoArray
        /\ fields.currentTupleCount = packet.currentTupleCount + n
        /\ fields.statementType = packet.statementType /\ fields.columnCount = packet.columnCount
    BY <1>3 DEF PacketOK, NoPacket
  <2> HIDE DEF fields
  <2>5. ColumnsGot(call, fields) /\ RowsGot(call, fields) /\ Described(call, fields)
    BY <1>4, <2>4 DEF ColumnsGot, RowsGot, Described
  <2>6. Len(fields.rows) = fields.currentTupleCount
    BY <1>5, <2>2, <2>4
  <2>7. stage \in {"execute", "executePrepared"} => fields.currentTupleCount = call.first
    <3> SUFFICES ASSUME stage \in {"execute", "executePrepared"} PROVE fields.currentTupleCount = call.first
      OBVIOUS
    <3>1. first = 1 /\ LastFor(call, stage) = call.first
      BY DEF first, FirstFor, LastFor
    <3>2. call.first \in Nat
      BY <1>3, StatementBodies
    <3> QED
      BY <1>5, <2>4, <3>1, <3>2
  <2>8. StatementAt(call, stage, "done", r.offset, fields)
    BY <1>4, <2>5, <2>6, <2>7 DEF StatementAt
  <2> QED
    BY <1>2, <1>3, <2>1, <2>3, <2>4, <2>8, GotoPlaced DEF ValueStages
<1> QED
  BY <1>7, <1>8

\* What a statement's response leaves done is where the next one begins.
LEMMA PlacedExecute ==
    ASSUME Shaped, Placed, ExecutePrepared \/ Fetch
    PROVE  Placed'
<1>1. pc = "done" /\ packet.error = NoError /\ stage \in {"execute", "prepare", "executePrepared"}
  BY DEF ExecutePrepared, Fetch
<1>2. Arrived /\ call \in Calls /\ PacketOK(packet)
  BY DEF Shaped, Typed, Arrived
<1>3. call.kind \in {"execute", "prepare"}
  BY <1>1, <1>2, KindOfStage
<1>4. StatementAt(call, stage, "done", offset, packet)
  BY <1>1, <1>3 DEF Placed, PlacedAt
<1>5. Fine(call, stage)
  <2> SUFFICES ASSUME call.failing = stage PROVE call.error = NoError
    BY DEF Fine
  <2> QED
    BY <1>1 DEF Placed, PlacedAt
<1>6. /\ ColumnsGot(call, packet) /\ RowsGot(call, packet) /\ Described(call, packet)
      /\ Len(packet.rows) = packet.currentTupleCount
      /\ stage = "prepare" => packet.currentTupleCount = 0
      /\ stage \in {"execute", "executePrepared"} /\ call.statementType = SELECT =>
            packet.currentTupleCount = call.first
  BY <1>4, <1>5 DEF StatementAt
<1> DEFINE next == IF stage = "prepare" THEN "executePrepared" ELSE "fetch"
<1>7. stage' = next /\ offset' = 0 /\ pc' = "header" /\ call' = call /\ packet' = packet
  BY DEF ExecutePrepared, Fetch, Expect
<1>8. Before(call, next, packet)
  <2>1. CASE stage = "prepare"
    BY <1>6, <2>1 DEF Before, FirstFor
  <2>2. CASE stage # "prepare"
    <3>1. packet.statementType = SELECT /\ call.statementType = SELECT
      <4>1. packet.statementType = SELECT
        BY <2>2 DEF ExecutePrepared, Fetch
      <4> QED
        BY <1>6, <4>1 DEF Described
    <3>2. call.first \in Nat
      BY <1>2, <1>3, CallFacts, StatementBodies
    <3>3. packet.currentTupleCount = call.first
      BY <1>1, <1>6, <2>2, <3>1
    <3> QED
      BY <1>6, <2>2, <3>2, <3>3 DEF Before, FirstFor
  <2> QED
    BY <2>1, <2>2
<1>9. StatementAt(call, next, "header", 0, packet)
  BY <1>6, <1>8 DEF StatementAt
<1> HIDE DEF next
<1>10. PlacedAt(call, next, "header", 0, packet)
  BY <1>1, <1>3, <1>9 DEF PlacedAt, ValueStages
<1> QED
  BY <1>7, <1>10 DEF Placed

-----------------------------------------------------------------------------
(* The parts of a schema, of a batch and of the single values. *)

\* when a schema's rows are asked for,
LEMMA PlacedFetchSchema ==
    ASSUME Shaped, Placed, FetchSchema
    PROVE  Placed'
<1>1. pc = "done" /\ packet.error = NoError /\ stage = "requestSchema"
  BY DEF FetchSchema
<1>2. Arrived
  BY DEF Shaped, Typed
<1>3. call.kind = "requestSchema"
  BY <1>1, <1>2, KindOfStage
<1>4. packet.rows = <<>>
  BY <1>1, <1>3 DEF Placed, PlacedAt, SchemaAt
<1>5. stage' = "fetchSchema" /\ offset' = 0 /\ pc' = "header" /\ call' = call /\ packet' = packet
  BY DEF FetchSchema, Expect
<1>6. SchemaAt(call, "fetchSchema", "header", 0, packet)
  BY <1>4 DEF SchemaAt
<1>7. PlacedAt(call, "fetchSchema", "header", 0, packet)
  BY <1>1, <1>3, <1>6 DEF PlacedAt, ValueStages
<1> QED
  BY <1>5, <1>7 DEF Placed

\* after the number of a schema's columns,
LEMMA PlacedSchema ==
    ASSUME Shaped, Placed, ParseSchema
    PROVE  Placed'
<1>1. pc = "schema"
  BY DEF ParseSchema
<1>2. call.kind = "requestSchema"
  BY <1>1, PartsOfKinds
<1>3. /\ Arrived /\ Sound /\ Fine(call, stage) /\ buffer \in Bytes /\ PacketOK(packet) /\ packet.error = NoError
      /\ IsSchema(call) /\ SchemaAt(call, stage, "schema", offset, packet)
  BY <1>1, <1>2, PlacedFacts
<1>4. /\ offset = 12 /\ packet.rows = <<>> /\ stage \in {"requestSchema", "fetchSchema"}
      /\ stage = "requestSchema" => packet.infoArray = <<>>
  <2>1. stage \in {"requestSchema", "fetchSchema"}
    BY <1>2, <1>3, KindOfStage
  <2> QED
    BY <1>3, <2>1 DEF SchemaAt
<1>5. "int" \in FieldKinds /\ 12 \in Int
  BY DEF FieldKinds
<1>6. At(buffer, 12, Int4(Len(call.rows))) /\ Len(call.rows) \in Ints /\ Len(call.rows) \in Nat
  BY <1>2, <1>3, <1>4, SchemaArrived, SchemaRowsBytes
<1>7. ParseField("int", 12) = ReadAs(Len(call.rows), 16)
  <2>1. ParseField("int", 12) = ReadAs(Len(call.rows), 12 + 4)
    BY <1>3, <1>6, FieldAt
  <2> QED
    BY <2>1
<1>8. CASE stage = "requestSchema"
  <2> DEFINE r == Parse(<<"int", "int">>, offset)
             fields == [packet EXCEPT !.tupleCount = r.value[1], !.columnCount = r.value[2]]
             n == Len(SchemaColumns(call.schemaType))
  <2>1. Goto("columns", r, fields)
    BY <1>8 DEF ParseSchema
  <2>2. n \in Ints /\ n \in Nat
    BY SchemaColumnsBytes
  <2>3. ParseField("int", 16) = ReadAs(n, 20)
    <3>1. At(buffer, 16, Int4(n))
      BY <1>2, <1>3, <1>8, SchemaArrived
    <3> HIDE DEF n
    <3>2. ParseField("int", 16) = ReadAs(n, 16 + 4)
      BY <1>3, <2>2, <3>1, FieldAt
    <3> QED
      BY <3>2
  <2> HIDE DEF n
  <2>4. r = ReadAs(<<Len(call.rows), n>>, 20)
    BY <1>3, <1>4, <1>5, <1>7, <2>3, TwoFields
  <2>5. r.value[2] = n /\ r.offset = 20
    BY <2>4 DEF ReadAs
  <2> HIDE DEF r
  <2>6. /\ fields.error = NoError /\ fields.rows = packet.rows /\ fields.columnCount = n
        /\ fields.infoArray = packet.infoArray
    BY <1>3, <2>5 DEF PacketOK, NoPacket
  <2> HIDE DEF fields
  <2>7. SchemaAt(call, stage, "columns", r.offset, fields)
    <3>1. Start(SentSchema(call.schemaType), Len(fields.infoArray)) = 0 /\ Len(fields.infoArray) = 0
      BY <1>4, <1>8, <2>6 DEF Start
    <3> QED
      BY <1>4, <1>8, <2>2, <2>5, <2>6, <3>1 DEF SchemaAt, n
  <2> QED
    BY <1>2, <1>3, <2>1, <2>6, <2>7, GotoPlaced DEF ValueStages
<1>9. CASE stage = "fetchSchema"
  <2> DEFINE r == Parse(<<"int">>, offset)
             fields == [packet EXCEPT !.tupleCount = r.value[1], !.read = 0]
  <2>1. Goto("schemaRows", r, fields)
    BY <1>9 DEF ParseSchema
  <2>2. r = ReadAs(<<Len(call.rows)>>, 16)
    BY <1>3, <1>4, <1>5, <1>7, OneField, ZenonT(40)
  <2>3. r.value[1] = Len(call.rows) /\ r.offset = 16
    BY <2>2 DEF ReadAs
  <2> HIDE DEF r
  <2>4. fields.error = NoError /\ fields.rows = packet.rows /\ fields.tupleCount = Len(call.rows) /\ fields.read = 0
    BY <1>3, <2>3 DEF PacketOK, NoPacket
  <2> HIDE DEF fields
  <2>5. SchemaAt(call, stage, "schemaRows", r.offset, fields)
    <3>1. Start(SentSchemaRows(call), 0) = 0
      BY DEF Start
    <3>2. Len(fields.rows) = 0
      BY <1>4, <2>4
    <3> QED
      BY <1>6, <1>9, <2>3, <2>4, <3>1, <3>2 DEF SchemaAt
  <2> QED
    BY <1>2, <1>3, <2>1, <2>4, <2>5, GotoPlaced DEF ValueStages
<1> QED
  BY <1>4, <1>8, <1>9

\* after one of these,
LEMMA PlacedSchemaColumn ==
    ASSUME Shaped, Placed, ParseColumn, call.kind = "requestSchema"
    PROVE  Placed'
<1>1. pc = "columns"
  BY DEF ParseColumn
<1>2. /\ Arrived /\ Sound /\ Fine(call, stage) /\ buffer \in Bytes /\ PacketOK(packet) /\ packet.error = NoError
      /\ IsSchema(call) /\ SchemaAt(call, stage, "columns", offset, packet)
  BY <1>1, PlacedFacts
<1> DEFINE k == Len(packet.infoArray)
           n == Len(SchemaColumns(call.schemaType))
           sent == SentSchema(call.schemaType)
<1>3. /\ stage = "requestSchema" /\ packet.columnCount = n /\ k <= n /\ offset = 20 + Start(sent, k)
      /\ packet.rows = <<>>
  BY <1>2 DEF SchemaAt
<1>4. /\ sent \in Seq(Bytes) /\ Len(sent) = n /\ n \in Nat
      /\ \A i \in 1..n : /\ SchemaColumns(call.schemaType)[i] \in SchemaTypeNames
                         /\ sent[i] = SchemaColumnOctets(SchemaColumns(call.schemaType)[i])
  BY SchemaColumnsBytes
<1>5. Listed(packet.infoArray) /\ k \in Nat
  BY <1>2 DEF PacketOK, Listed
<1>6. At(buffer, 20, FlattenSeq(sent)) /\ Len(buffer) = 20 + Len(FlattenSeq(sent))
  BY <1>2, <1>3, SchemaArrived
<1> HIDE DEF sent, n
<1>7. CASE k < n
  <2> DEFINE type == ParseColumnType(offset)
             r == Parse(ColumnFields, type.offset)
             column == [ColumnType |-> type.value, Name |-> r.value[3]]
             fields == [packet EXCEPT !.infoArray = Append(@, column)]
             name == SchemaColumns(call.schemaType)[k + 1]
  <2>1. Goto("columns", r, fields)
    BY <1>3, <1>7 DEF ParseColumn
  <2>2. k + 1 \in 1..n /\ (k + 1) - 1 = k
    BY <1>4, <1>5, <1>7
  <2>3. At(buffer, offset, SchemaColumnOctets(name)) /\ name \in SchemaTypeNames /\ sent[k + 1] = SchemaColumnOctets(name)
    <3>1. At(buffer, 20 + Start(sent, (k + 1) - 1), sent[k + 1])
      BY <1>2, <1>4, <1>6, <2>2, PartsAt
    <3> QED
      BY <1>3, <1>4, <2>2, <3>1
  <2> HIDE DEF name
  <2>4. r.offset = offset + Len(SchemaColumnOctets(name))
    BY <1>2, <1>3, <2>3, SchemaColumnRead
  <2> HIDE DEF r, type
  <2>5. Len(fields.infoArray) = k + 1
    <3>1. fields.infoArray = Append(packet.infoArray, column)
      BY <1>2 DEF PacketOK, NoPacket
    <3> HIDE DEF fields, column
    <3> QED
      BY <1>5, <3>1, AppendAny
  <2> HIDE DEF column
  <2>6. fields.error = NoError /\ fields.rows = packet.rows /\ fields.columnCount = n
    BY <1>2, <1>3 DEF PacketOK, NoPacket
  <2> HIDE DEF fields
  <2>7. r.offset = 20 + Start(sent, Len(fields.infoArray))
    <3>1. Start(sent, k + 1) = Start(sent, (k + 1) - 1) + Len(sent[k + 1])
      BY <1>4, <2>2, StartProperties
    <3>2. Start(sent, k) \in Nat
      BY <1>3, <1>4, <1>5, StartProperties
    <3>3. Len(sent[k + 1]) \in Nat
      <4>1. sent[k + 1] \in Bytes
        BY <1>4, <2>2
      <4> QED
        BY <4>1, BytesProperties
    <3> QED
      BY <1>3, <2>2, <2>3, <2>4, <2>5, <3>1, <3>2, <3>3
  <2>8. SchemaAt(call, stage, "columns", r.offset, fields)
    BY <1>3, <2>2, <2>5, <2>6, <2>7 DEF SchemaAt, sent, n
  <2> QED
    BY <1>2, <2>1, <2>6, <2>8, GotoPlaced DEF ValueStages
<1>8. CASE ~(k < n)
  <2> DEFINE r == ReadAs(Null, offset)
  <2>1. Goto("done", r, packet)
    BY <1>3, <1>8 DEF ParseColumn, AfterColumns
  <2>2. k = n
    BY <1>3, <1>4, <1>5, <1>8
  <2>3. r.offset = Len(buffer)
    BY <1>3, <1>4, <1>6, <2>2, StartProperties DEF ReadAs
  <2> HIDE DEF r
  <2>4. SchemaAt(call, stage, "done", r.offset, packet)
    BY <1>3 DEF SchemaAt
  <2> QED
    BY <1>2, <2>1, <2>3, <2>4, GotoPlaced DEF ValueStages
<1> QED
  BY <1>7, <1>8

\* A row of a schema is read where it is, unless the driver does not know its type.
LEMMA PlacedSchemaRow ==
    ASSUME Shaped, Placed, ParseSchemaRow, InStep
    PROVE  Placed'
<1>1. pc = "schemaRows"
  BY DEF ParseSchemaRow
<1>2. call.kind = "requestSchema"
  BY <1>1, PartsOfKinds
<1>3. /\ Arrived /\ Sound /\ Fine(call, stage) /\ buffer \in Bytes /\ PacketOK(packet) /\ packet.error = NoError
      /\ IsSchema(call) /\ SchemaAt(call, stage, "schemaRows", offset, packet)
  BY <1>1, <1>2, PlacedFacts
<1> DEFINE k == packet.read
           n == Len(call.rows)
           sent == SentSchemaRows(call)
<1>4. /\ stage = "fetchSchema" /\ packet.tupleCount = n /\ k \in 0..n /\ Len(packet.rows) = k
      /\ \A i \in 1..k : packet.rows[i] = call.rows[i]
      /\ offset = 16 + Start(sent, k)
  BY <1>3 DEF SchemaAt
<1>5. /\ sent \in Seq(Bytes) /\ Len(sent) = n /\ n \in Nat
      /\ \A i \in 1..n : sent[i] = SchemaRow(call, call.rows[i]) /\ IsSchemaRow(call.schemaType, call.rows[i])
  BY <1>3, SchemaRowsBytes
<1>6. At(buffer, 16, FlattenSeq(sent)) /\ Len(buffer) = 16 + Len(FlattenSeq(sent))
  BY <1>2, <1>3, <1>4, SchemaArrived
<1>7. Listed(packet.rows)
  BY <1>3 DEF PacketOK
<1> HIDE DEF sent
<1>8. CASE k < n
  <2> DEFINE r == Parse(<<"int", "oid">> \o SchemaFields(call.schemaType), offset)
             value == SubSeq(r.value, 3, Len(r.value))
             fields == [packet EXCEPT !.rows = Append(@, value), !.read = @ + 1]
             row == call.rows[k + 1]
  <2>1. Goto("schemaRows", r, fields)
    BY <1>4, <1>8 DEF ParseSchemaRow
  <2>2. k + 1 \in 1..n /\ (k + 1) - 1 = k /\ k \in Nat
    BY <1>4, <1>5, <1>8
  <2>3. At(buffer, offset, SchemaRow(call, row)) /\ IsSchemaRow(call.schemaType, row) /\ sent[k + 1] = SchemaRow(call, row)
    <3>1. At(buffer, 16 + Start(sent, (k + 1) - 1), sent[k + 1])
      BY <1>3, <1>5, <1>6, <2>2, PartsAt
    <3> QED
      BY <1>4, <1>5, <2>2, <3>1
  <2>4. SchemaFields(call.schemaType) # <<>>
    <3>1. SchemaFields(call.schemaType) # <<>> \/ call.rows = <<>>
      BY <1>4 DEF InStep
    <3>2. call.rows = <<>> => n = 0
      OBVIOUS
    <3> QED
      BY <1>4, <1>8, <3>1, <3>2
  <2> HIDE DEF row
  <2>5. r.offset = offset + Len(SchemaRow(call, row)) /\ value = row
    BY <1>3, <2>3, <2>4, SchemaRowRead
  <2> HIDE DEF value, r
  <2>6. /\ fields.rows = Append(packet.rows, value) /\ fields.read = k + 1
        /\ fields.error = NoError /\ fields.tupleCount = n
    BY <1>3, <1>4 DEF PacketOK, NoPacket
  <2> HIDE DEF fields
  <2>7. /\ Len(fields.rows) = k + 1 /\ fields.rows[k + 1] = row
        /\ \A i \in 1..k : fields.rows[i] = packet.rows[i]
    BY <1>4, <1>7, <2>5, <2>6, AppendAny
  <2>8. \A i \in 1..fields.read : fields.rows[i] = call.rows[i]
    <3> SUFFICES ASSUME NEW i \in 1..(k + 1) PROVE fields.rows[i] = call.rows[i]
      BY <2>6
    <3>1. CASE i = k + 1
      BY <2>7, <3>1 DEF row
    <3>2. CASE i \in 1..k
      BY <1>4, <2>7, <3>2
    <3> QED
      BY <2>2, <3>1, <3>2
  <2>9. r.offset = 16 + Start(sent, fields.read)
    <3>1. Start(sent, k + 1) = Start(sent, (k + 1) - 1) + Len(sent[k + 1])
      BY <1>5, <2>2, StartProperties
    <3>2. Start(sent, k) \in Nat
      BY <1>4, <1>5, StartProperties
    <3>3. Len(sent[k + 1]) \in Nat
      <4>1. sent[k + 1] \in Bytes
        BY <1>5, <2>2
      <4> QED
        BY <4>1, BytesProperties
    <3> QED
      BY <1>4, <2>2, <2>3, <2>5, <2>6, <3>1, <3>2, <3>3
  <2>10. SchemaAt(call, stage, "schemaRows", r.offset, fields)
    BY <1>4, <2>2, <2>6, <2>7, <2>8, <2>9 DEF SchemaAt, sent
  <2> QED
    BY <1>2, <1>3, <2>1, <2>6, <2>10, GotoPlaced DEF ValueStages
<1>9. CASE ~(k < n)
  <2> DEFINE r == ReadAs(Null, offset)
  <2>1. Goto("done", r, packet)
    BY <1>4, <1>9 DEF ParseSchemaRow
  <2>2. k = n
    BY <1>4, <1>5, <1>9
  <2>3. r.offset = Len(buffer)
    BY <1>4, <1>5, <1>6, <2>2, StartProperties DEF ReadAs
  <2> HIDE DEF r
  <2>4. packet.rows = call.rows
    <3>1. Listed(call.rows)
      BY <1>3, ListFacts DEF IsSchema
    <3> QED
      BY <1>4, <1>7, <2>2, <3>1 DEF Listed
  <2>5. SchemaAt(call, stage, "done", r.offset, packet)
    BY <1>4, <2>4 DEF SchemaAt
  <2> QED
    BY <1>2, <1>3, <2>1, <2>3, <2>5, GotoPlaced DEF ValueStages
<1> QED
  BY <1>8, <1>9

\* after the number of a batch's results,
LEMMA PlacedBatch ==
    ASSUME Shaped, Placed, ParseBatch
    PROVE  Placed'
<1>1. pc = "batch"
  BY DEF ParseBatch
<1>2. call.kind = "batch"
  BY <1>1, PartsOfKinds
<1>3. /\ Arrived /\ Sound /\ Fine(call, stage) /\ buffer \in Bytes /\ PacketOK(packet) /\ packet.error = NoError
      /\ IsBatch(call) /\ BatchAt(call, stage, "batch", offset, packet)
  BY <1>1, <1>2, PlacedFacts
<1>4. offset = 12 /\ packet.read = 0 /\ packet.results = <<>> /\ packet.errors = <<>>
  BY <1>3 DEF BatchAt
<1> DEFINE r == Parse(<<"int">>, offset)
           fields == [packet EXCEPT !.executedCount = r.value[1]]
           n == Len(call.results)
<1>5. Goto("executed", r, fields)
  BY DEF ParseBatch
<1>6. At(buffer, 12, Int4(n)) /\ n \in Ints /\ n \in Nat
  BY <1>2, <1>3, BatchArrived, ResultsBytes
<1> HIDE DEF n
<1>7. r = ReadAs(<<n>>, 16)
  <2>1. ParseField("int", 12) = ReadAs(n, 12 + 4)
    BY <1>3, <1>6, FieldAt
  <2>2. ParseField("int", 12) = ReadAs(n, 16)
    BY <2>1
  <2>3. "int" \in FieldKinds /\ 12 \in Int
    BY DEF FieldKinds
  <2> QED
    BY <1>3, <1>4, <2>2, <2>3, OneField
<1>8. r.value[1] = n /\ r.offset = 16
  BY <1>7 DEF ReadAs
<1> HIDE DEF r
<1>9. /\ fields.error = NoError /\ fields.executedCount = n /\ fields.read = 0
      /\ fields.results = <<>> /\ fields.errors = <<>>
  BY <1>3, <1>4, <1>8 DEF PacketOK, NoPacket
<1> HIDE DEF fields
<1>10. BatchAt(call, stage, "executed", r.offset, fields)
  <2>1. Start(SentResults(call), 0) = 0 /\ FirstParts(CountsFor(call), 0) = <<>> /\ FirstParts(ErrorsFor(call), 0) = <<>>
    BY DEF Start, FirstParts
  <2> QED
    BY <1>6, <1>8, <1>9, <2>1 DEF BatchAt, n
<1> QED
  BY <1>2, <1>3, <1>5, <1>9, <1>10, GotoPlaced DEF ValueStages

\* What the statements of a batch add up to.
LEMMA PartsAdded ==
    ASSUME NEW c, IsBatch(c)
    PROVE  LET n == Len(c.results)
               Adds(parts, k, part) == FirstParts(parts, k) = FirstParts(parts, k - 1) \o part
           IN  /\ n \in Nat
               /\ FlattenSeq(CountsFor(c)) = FirstParts(CountsFor(c), n)
               /\ FlattenSeq(ErrorsFor(c)) = FirstParts(ErrorsFor(c), n)
               /\ \A k \in 0..n : /\ FirstParts(CountsFor(c), k) \in Seq(Ints)
                                  /\ FirstParts(ErrorsFor(c), k) \in Seq([code : Ints, message : Texts])
               /\ \A k \in 1..n :
                     LET result == c.results[k]
                     IN  /\ result.count < 0 => /\ Adds(CountsFor(c), k, <<>>)
                                                /\ Adds(ErrorsFor(c), k, <<result.error>>)
                         /\ ~(result.count < 0) => /\ Adds(CountsFor(c), k, <<result.count>>)
                                                   /\ Adds(ErrorsFor(c), k, <<>>)
<1> DEFINE n == Len(c.results)
           counts == CountsFor(c)
           errors == ErrorsFor(c)
           Errors == [code : Ints, message : Texts]
<1>1. n \in Nat /\ DOMAIN c.results = 1..n
  BY ListFacts DEF IsBatch
<1>2. \A i \in 1..n : c.results[i].count \in Ints /\ c.results[i].error \in Errors
  BY ResultsBytes DEF IsError
<1>3. /\ counts = [i \in 1..n |-> IF c.results[i].count < 0 THEN <<>> ELSE <<c.results[i].count>>]
      /\ errors = [i \in 1..n |-> IF c.results[i].count < 0 THEN <<c.results[i].error>> ELSE <<>>]
  BY <1>1 DEF CountsFor, ErrorsFor
<1> HIDE DEF n, counts, errors, Errors
<1>4. counts \in Seq(Seq(Ints)) /\ Len(counts) = n
  <2>1. \A i \in 1..n : (IF c.results[i].count < 0 THEN <<>> ELSE <<c.results[i].count>>) \in Seq(Ints)
    BY <1>2
  <2> QED
    BY <1>1, <1>3, <2>1
<1>5. errors \in Seq(Seq(Errors)) /\ Len(errors) = n
  <2>1. \A i \in 1..n : (IF c.results[i].count < 0 THEN <<c.results[i].error>> ELSE <<>>) \in Seq(Errors)
    BY <1>2
  <2> QED
    BY <1>1, <1>3, <2>1
<1>6. /\ \A k \in 0..n : FirstParts(counts, k) \in Seq(Ints)
      /\ \A k \in 1..n : FirstParts(counts, k) = FirstParts(counts, k - 1) \o counts[k]
      /\ FlattenSeq(counts) = FirstParts(counts, n)
  BY <1>4, FirstPartsProperties
<1>7. /\ \A k \in 0..n : FirstParts(errors, k) \in Seq(Errors)
      /\ \A k \in 1..n : FirstParts(errors, k) = FirstParts(errors, k - 1) \o errors[k]
      /\ FlattenSeq(errors) = FirstParts(errors, n)
  BY <1>5, FirstPartsProperties
<1>8. \A k \in 1..n :
         /\ c.results[k].count < 0 => /\ FirstParts(counts, k) = FirstParts(counts, k - 1) \o <<>>
                                      /\ FirstParts(errors, k) = FirstParts(errors, k - 1) \o <<c.results[k].error>>
         /\ ~(c.results[k].count < 0) => /\ FirstParts(counts, k) = FirstParts(counts, k - 1) \o <<c.results[k].count>>
                                         /\ FirstParts(errors, k) = FirstParts(errors, k - 1) \o <<>>
  <2> TAKE k \in 1..n
  <2>1. FirstParts(counts, k) = FirstParts(counts, k - 1) \o counts[k] /\ FirstParts(errors, k) = FirstParts(errors, k - 1) \o errors[k]
    BY <1>6, <1>7
  <2>2. c.results[k].count < 0 => counts[k] = <<>> /\ errors[k] = <<c.results[k].error>>
    BY <1>3
  <2>3. ~(c.results[k].count < 0) => counts[k] = <<c.results[k].count>> /\ errors[k] = <<>>
    BY <1>3
  <2> QED
    BY <2>1, <2>2, <2>3
<1> QED
  BY <1>1, <1>6, <1>7, <1>8 DEF n, counts, errors, Errors

\* A list with nothing, or with one element, behind it.
LEMMA Adding ==
    ASSUME NEW S, NEW list \in Seq(S), NEW e \in S
    PROVE  list \o <<>> = list /\ list \o <<e>> = Append(list, e)
  OBVIOUS

\* after a result of a batch,
LEMMA PlacedExecuted ==
    ASSUME Shaped, Placed, ParseExecuted
    PROVE  Placed'
<1>1. pc = "executed"
  BY DEF ParseExecuted
<1>2. call.kind = "batch"
  BY <1>1, PartsOfKinds
<1>3. /\ Arrived /\ Sound /\ Fine(call, stage) /\ buffer \in Bytes /\ PacketOK(packet) /\ packet.error = NoError
      /\ IsBatch(call) /\ BatchAt(call, stage, "executed", offset, packet) /\ call.version \in Nat
  BY <1>1, <1>2, PlacedFacts
<1> DEFINE k == packet.read
           n == Len(call.results)
           sent == SentResults(call)
           counts == CountsFor(call)
           errors == ErrorsFor(call)
           Errors == [code : Ints, message : Texts]
<1>4. /\ packet.executedCount = n /\ k \in 0..n
      /\ packet.results = FirstParts(counts, k) /\ packet.errors = FirstParts(errors, k)
      /\ offset = 16 + Start(sent, k)
  BY <1>3 DEF BatchAt
<1>5. /\ sent \in Seq(Bytes) /\ Len(sent) = n /\ n \in Nat
      /\ \A i \in 1..n :
            /\ sent[i] = BatchOctets(call, call.results[i])
            /\ call.results[i].count \in Ints /\ IsError(call.results[i].error)
            /\ call.results[i].count < 0 /\ ~(call.version > 2) => call.results[i].error.code = call.results[i].count
  BY <1>3, ResultsBytes
<1>6. /\ At(buffer, 16, FlattenSeq(sent))
      /\ At(buffer, 16 + Len(FlattenSeq(sent)), ShardOctets(call))
      /\ Len(buffer) = 16 + Len(FlattenSeq(sent)) + (IF call.version > 4 THEN 4 ELSE 0)
      /\ Len(FlattenSeq(sent)) \in Nat
  BY <1>2, <1>3, BatchArrived
<1>7. /\ FlattenSeq(counts) = FirstParts(counts, n) /\ FlattenSeq(errors) = FirstParts(errors, n)
      /\ \A i \in 0..n : FirstParts(counts, i) \in Seq(Ints) /\ FirstParts(errors, i) \in Seq(Errors)
      /\ \A i \in 1..n :
           /\ call.results[i].count < 0 => /\ FirstParts(counts, i) = FirstParts(counts, i - 1) \o <<>>
                                           /\ FirstParts(errors, i) = FirstParts(errors, i - 1) \o <<call.results[i].error>>
           /\ ~(call.results[i].count < 0) => /\ FirstParts(counts, i) = FirstParts(counts, i - 1) \o <<call.results[i].count>>
                                              /\ FirstParts(errors, i) = FirstParts(errors, i - 1) \o <<>>
  BY <1>3, PartsAdded
<1> HIDE DEF sent, counts, errors, n
<1>8. CASE k < n
  <2> DEFINE head == Parse(<<"byte", "int">>, offset)
             count == head.value[2]
             number == IF call.version > 2 THEN ParseInt(buffer, head.offset) ELSE ReadAs(count, head.offset)
             message == Parse(<<"string">>, number.offset)
             error == [code |-> number.value, message |-> message.value[1]]
             changed == Parse(<<"int", "short", "short">>, head.offset)
             failed == [packet EXCEPT !.read = @ + 1, !.errors = Append(@, error)]
             done == [packet EXCEPT !.read = @ + 1, !.results = Append(@, count)]
             result == call.results[k + 1]
  <2>1. IF count < 0 THEN Goto("executed", message, failed) ELSE Goto("executed", changed, done)
    BY <1>4, <1>8 DEF ParseExecuted
  <2>2. k + 1 \in 1..n /\ (k + 1) - 1 = k /\ k \in Nat
    BY <1>4, <1>5, <1>8
  <2>3. /\ At(buffer, offset, BatchOctets(call, result)) /\ result.count \in Ints /\ IsError(result.error)
        /\ result.count < 0 /\ ~(call.version > 2) => result.error.code = result.count
        /\ sent[k + 1] = BatchOctets(call, result)
    <3>1. At(buffer, 16 + Start(sent, (k + 1) - 1), sent[k + 1])
      BY <1>3, <1>5, <1>6, <2>2, PartsAt
    <3> QED
      BY <1>4, <1>5, <2>2, <3>1
  <2>4. /\ result.count < 0 => /\ FirstParts(counts, k + 1) = packet.results \o <<>>
                               /\ FirstParts(errors, k + 1) = packet.errors \o <<result.error>>
        /\ ~(result.count < 0) => /\ FirstParts(counts, k + 1) = packet.results \o <<result.count>>
                                  /\ FirstParts(errors, k + 1) = packet.errors \o <<>>
        /\ packet.results \in Seq(Ints) /\ packet.errors \in Seq(Errors)
    BY <1>4, <1>7, <2>2
  <2>5. result.error \in Errors
    BY <2>3 DEF IsError
  <2> HIDE DEF result
  <2>6. /\ count = result.count
        /\ result.count < 0 => message.offset = offset + Len(BatchOctets(call, result)) /\ error = result.error
        /\ ~(result.count < 0) => changed.offset = offset + Len(BatchOctets(call, result))
    BY <1>3, <2>3, ResultRead
  <2> HIDE DEF head, count, number, message, error, changed
  <2>7. 16 + Start(sent, k + 1) = offset + Len(BatchOctets(call, result))
    <3>1. Start(sent, k + 1) = Start(sent, (k + 1) - 1) + Len(sent[k + 1])
      BY <1>5, <2>2, StartProperties
    <3>2. Start(sent, k) \in Nat
      BY <1>4, <1>5, StartProperties
    <3>3. Len(sent[k + 1]) \in Nat
      <4>1. sent[k + 1] \in Bytes
        BY <1>5, <2>2
      <4> QED
        BY <4>1, BytesProperties
    <3> QED
      BY <1>4, <2>2, <2>3, <3>1, <3>2, <3>3
  <2>8. CASE result.count < 0
    <3>1. Goto("executed", message, failed)
      BY <2>1, <2>6, <2>8
    <3>2. /\ failed.error = NoError /\ failed.executedCount = n /\ failed.read = k + 1
          /\ failed.results = packet.results /\ failed.errors = Append(packet.errors, error)
      BY <1>3, <1>4 DEF PacketOK, NoPacket
    <3> HIDE DEF failed
    <3>3. failed.results = FirstParts(counts, k + 1)
      <4>1. packet.results \o <<>> = packet.results
        BY <2>4
      <4> QED
        BY <2>4, <2>8, <3>2, <4>1
    <3>4. failed.errors = FirstParts(errors, k + 1)
      <4>1. Append(packet.errors, error) = packet.errors \o <<result.error>>
        BY <2>4, <2>5, <2>6, <2>8, Adding
      <4> QED
        BY <2>4, <2>8, <3>2, <4>1
    <3>5. BatchAt(call, stage, "executed", message.offset, failed)
      BY <2>2, <2>6, <2>7, <2>8, <3>2, <3>3, <3>4 DEF BatchAt, n, sent, counts, errors
    <3> QED
      BY <1>2, <1>3, <3>1, <3>2, <3>5, GotoPlaced DEF ValueStages
  <2>9. CASE ~(result.count < 0)
    <3>1. Goto("executed", changed, done)
      BY <2>1, <2>6, <2>9
    <3>2. /\ done.error = NoError /\ done.executedCount = n /\ done.read = k + 1
          /\ done.errors = packet.errors /\ done.results = Append(packet.results, count)
      BY <1>3, <1>4 DEF PacketOK, NoPacket
    <3> HIDE DEF done
    <3>3. done.results = FirstParts(counts, k + 1)
      <4>1. Append(packet.results, count) = packet.results \o <<result.count>>
        BY <2>3, <2>4, <2>6, Adding
      <4> QED
        BY <2>4, <2>9, <3>2, <4>1
    <3>4. done.errors = FirstParts(errors, k + 1)
      <4>1. packet.errors \o <<>> = packet.errors
        BY <2>4
      <4> QED
        BY <2>4, <2>9, <3>2, <4>1
    <3>5. BatchAt(call, stage, "executed", changed.offset, done)
      BY <2>2, <2>6, <2>7, <2>9, <3>2, <3>3, <3>4 DEF BatchAt, n, sent, counts, errors
    <3> QED
      BY <1>2, <1>3, <3>1, <3>2, <3>5, GotoPlaced DEF ValueStages
  <2> QED
    BY <2>8, <2>9
<1>9. CASE ~(k < n)
  <2> DEFINE kinds == IF call.version > 4 THEN <<"int">> ELSE <<>>
             r == Parse(kinds, offset)
  <2>1. Goto("done", r, packet)
    BY <1>4, <1>9 DEF ParseExecuted
  <2>2. k = n
    BY <1>4, <1>5, <1>9
  <2>3. offset = 16 + Len(FlattenSeq(sent)) /\ offset \in Int
    BY <1>4, <1>5, <1>6, <2>2, StartProperties
  <2>4. r.offset = Len(buffer)
    <3>1. CASE call.version > 4
      <4>1. At(buffer, offset, Int4(0))
        BY <1>6, <2>3, <3>1 DEF ShardOctets
      <4>2. 0 \in Ints
        BY FewInts
      <4>3. ParseField("int", offset) = ReadAs(0, offset + 4)
        BY <1>3, <4>1, <4>2, FieldAt
      <4>4. "int" \in FieldKinds
        BY DEF FieldKinds
      <4>5. kinds = <<"int">>
        BY <3>1
      <4> HIDE DEF kinds
      <4>6. Parse(<<"int">>, offset) = ReadAs(<<0>>, offset + 4)
        BY <1>3, <2>3, <4>3, <4>4, OneField
      <4>7. r.offset = offset + 4
        BY <4>5, <4>6 DEF ReadAs
      <4> QED
        BY <1>6, <2>3, <3>1, <4>7
    <3>2. CASE ~(call.version > 4)
      <4>1. kinds = <<>>
        BY <3>2
      <4> HIDE DEF kinds
      <4>2. r = ReadAs(<<>>, offset)
        BY <1>3, <2>3, <4>1, NoField
      <4> QED
        BY <1>6, <2>3, <3>2, <4>2 DEF ReadAs
    <3> QED
      BY <3>1, <3>2
  <2> HIDE DEF r
  <2>5. BatchAt(call, stage, "done", r.offset, packet)
    BY <1>4, <1>7, <2>2 DEF BatchAt, counts, errors
  <2> QED
    BY <1>2, <1>3, <2>1, <2>4, <2>5, GotoPlaced DEF ValueStages
<1> QED
  BY <1>8, <1>9

\* Where the locator of a LOB is in its handle.
LEMMA LocatorAt ==
    ASSUME NEW b \in Bytes, NEW o, NEW lob \in LobHandles, At(b, o, LobOctets("blob", lob))
    PROVE  /\ At(b, o + 16, lob.locator) /\ lob.locator \in Bytes /\ o \in Nat
           /\ Slice(b, o + 16, Len(lob.locator)) = lob.locator
<1> DEFINE packed == LobOctets("blob", lob)
           kind == Int4(LobNumber["blob"])
           length == Long8(lob.length)
           size == Int4(Len(lob.locator) + 1)
           locator == lob.locator
           zero == <<0>>
           text == Text(locator)
<1>1. locator \in Bytes /\ lob.length \in LongInts(Ints) /\ Len(locator) \in Nat
  BY LobHandleFields, BytesProperties
<1>2. kind \in Bytes /\ Len(kind) = 4
  <2>1. LobNumber["blob"] \in Int
    BY DEF LobNumber
  <2> QED
    BY <2>1, NumBytes
<1>3. length \in Bytes /\ Len(length) = 8
  BY <1>1, LongBytes
<1>4. text \in Bytes
  BY <1>1, TextBytes
<1>5. size \in Bytes /\ Len(size) = 4
  <2>1. Len(locator) + 1 \in Int
    BY <1>1
  <2> QED
    BY <2>1, NumBytes
<1>6. packed = kind \o length \o text
  BY DEF LobOctets
<1>7. text = size \o locator \o zero /\ zero \in Bytes
  BY FewBytes DEF Text
<1>8. o \in Nat
  BY DEF At
<1> HIDE DEF packed, kind, length, text, zero, locator, size
<1>9. At(b, o, kind \o length \o text)
  BY <1>6 DEF packed
<1>10. At(b, o + (Len(kind) + Len(length)), text)
  BY <1>2, <1>3, <1>4, <1>9, Split3
<1>11. At(b, o + 12, size \o locator \o zero)
  BY <1>2, <1>3, <1>7, <1>10
<1>12. At(b, o + 12 + Len(size), locator)
  BY <1>1, <1>5, <1>7, <1>11, Split3
<1>13. At(b, o + 16, locator)
  BY <1>5, <1>8, <1>12
<1>14. Slice(b, o + 16, Len(locator)) = locator
  BY <1>1, <1>13, SliceRead
<1> QED
  BY <1>1, <1>8, <1>13, <1>14 DEF locator

\* The value that is read is the one the answer is about, and it ends the response.
ValueOf(s) ==
    LET rest == packet.length - 4
    IN  CASE s = "openDatabase" ->
               LET id == ParseInt(buffer, offset + 8)
               IN  ReadAs([version |-> ProtocolVersion(ByteAt(buffer, offset + 4)),
                           sessionId |-> id.value], id.offset)
          [] s = "engineVersion" -> ParseNullTerminatedString(buffer, offset, rest)
          [] s = "dbParameter" -> ParseInt(buffer, offset)
          [] s = "responseCode" -> ReadAs(packet.code, offset)
          [] s = "lobRead" -> ParseBytes(buffer, offset, packet.code)
          [] s = "lobNew" -> ReadAs(Slice(buffer, offset + 16, rest - 16 - 1), offset + rest)

\* A response of one value is read to its end, and as the value sent,
LEMMA AnswerRead ==
    ASSUME Arrived, Sound, call.kind \in ValueStages, offset = 12,
           packet.code = CodeFor(call, stage), packet.length = Len(Body(call, stage))
    PROVE  ValueOf(stage).offset = Len(buffer) /\ ValueOf(stage).value = AnswerFor(call, stage)
<1> DEFINE body == Body(call, stage)
           rest == packet.length - 4
           Goal == ValueOf(stage).offset = Len(buffer) /\ ValueOf(stage).value = AnswerFor(call, stage)
<1> SUFFICES Goal
  OBVIOUS
<1>1. stage = call.kind /\ IsAnswer(call) /\ buffer \in Bytes /\ At(buffer, 8, body) /\ Len(buffer) = 8 + Len(body)
  BY ValueArrived
<1> HIDE DEF Goal
<1>2. CASE stage = "openDatabase"
  <2> DEFINE info == BrokerInfo(call)
  <2>1. /\ Triple(body, Int4(0), info, Int4(call.number)) /\ Len(Int4(0)) = 4
        /\ info \in Bytes /\ Len(info) = 8 /\ call.number \in Ints /\ call.version \in 0..7 /\ Len(Int4(call.number)) = 4
    BY <1>1, <1>2, ValueBodies
  <2>2. info[5] = Indicator + call.version
    BY DEF BrokerInfo
  <2> HIDE DEF info
  <2>3. At(buffer, 8 + Len(Int4(0)), info) /\ At(buffer, 8 + (Len(Int4(0)) + Len(info)), Int4(call.number))
    BY <1>1, <2>1 DEF Triple
  <2>4. At(buffer, 12, info) /\ At(buffer, 20, Int4(call.number)) /\ Len(buffer) = 24
    <3> DEFINE zero == Int4(0)
               number == Int4(call.number)
    <3>1. Len(zero) = 4 /\ Len(number) = 4 /\ Len(info) = 8
      BY <2>1
    <3>2. Len(body) = Len(zero) + Len(info) + Len(number)
      BY <2>1 DEF Triple
    <3>3. At(buffer, 8 + Len(zero), info) /\ At(buffer, 8 + (Len(zero) + Len(info)), number)
      BY <2>3
    <3> HIDE DEF zero, number, body
    <3>4. At(buffer, 12, info) /\ At(buffer, 20, number) /\ Len(buffer) = 24
      BY <1>1, <3>1, <3>2, <3>3
    <3> QED
      BY <3>4 DEF number
  <2>5. ByteAt(buffer, 16) = Indicator + call.version
    <3>1. 4 \in 0..(Len(info) - 1)
      BY <2>1
    <3>2. ByteAt(buffer, 12 + 4) = info[4 + 1]
      BY <1>1, <2>1, <2>4, <3>1, ByteRead
    <3> QED
      BY <2>2, <3>2
  <2>6. ProtocolVersion(ByteAt(buffer, 16)) = call.version
    BY <2>1, <2>5, Masks DEF ProtocolVersion
  <2>7. ParseInt(buffer, 20) = ReadAs(call.number, 20 + 4)
    BY <1>1, <2>1, <2>4, ReadWhatIsAt
  <2>8. ValueOf(stage) = ReadAs([version |-> ProtocolVersion(ByteAt(buffer, 16)),
                                 sessionId |-> ParseInt(buffer, 20).value], ParseInt(buffer, 20).offset)
    BY <1>2 DEF ValueOf
  <2>9. AnswerFor(call, stage) = [version |-> call.version, sessionId |-> call.number]
    BY <1>2 DEF AnswerFor
  <2> QED
    BY <2>4, <2>6, <2>7, <2>8, <2>9 DEF ReadAs, Goal
<1>3. CASE stage = "engineVersion"
  <2>1. Triple(body, Int4(0), call.text, <<0>>) /\ call.text \in Bytes /\ Len(<<0>>) = 1 /\ Len(Int4(0)) = 4
    BY <1>1, <1>3, ValueBodies
  <2>2. At(buffer, 8 + Len(Int4(0)), call.text)
    BY <1>1, <2>1 DEF Triple
  <2>3. At(buffer, 12, call.text) /\ Len(call.text) \in Nat /\ Len(body) = 5 + Len(call.text)
    <3> DEFINE zero == Int4(0)
               end == <<0>>
    <3>1. Len(zero) = 4 /\ Len(end) = 1
      BY <2>1
    <3>2. Len(body) = Len(zero) + Len(call.text) + Len(end) /\ Len(call.text) \in Nat
      BY <2>1 DEF Triple
    <3>3. At(buffer, 8 + Len(zero), call.text)
      BY <2>2
    <3> HIDE DEF zero, end, body
    <3> QED
      BY <3>1, <3>2, <3>3
  <2>4. rest = Len(call.text) + 1
    BY <2>3
  <2>5. ParseNullTerminatedString(buffer, 12, Len(call.text) + 1) = ReadAs(call.text, 12 + (Len(call.text) + 1))
    BY <1>1, <2>1, <2>3, TextRead
  <2>6. ValueOf(stage) = ParseNullTerminatedString(buffer, 12, rest)
    BY <1>3 DEF ValueOf
  <2>7. AnswerFor(call, stage) = call.text
    BY <1>3 DEF AnswerFor
  <2> QED
    BY <1>1, <2>3, <2>4, <2>5, <2>6, <2>7 DEF ReadAs, Goal
<1>4. CASE stage = "dbParameter"
  <2>1. Pair(body, Int4(0), Int4(call.number)) /\ call.number \in Ints /\ Len(Int4(call.number)) = 4 /\ Len(Int4(0)) = 4
    BY <1>1, <1>4, ValueBodies
  <2>2. At(buffer, 8 + Len(Int4(0)), Int4(call.number)) /\ Len(body) = Len(Int4(0)) + Len(Int4(call.number))
    BY <1>1, <2>1 DEF Pair
  <2>3. At(buffer, 12, Int4(call.number)) /\ Len(body) = 8
    <3> DEFINE zero == Int4(0)
               number == Int4(call.number)
    <3>1. Len(zero) = 4 /\ Len(number) = 4 /\ At(buffer, 8 + Len(zero), number) /\ Len(body) = Len(zero) + Len(number)
      BY <2>1, <2>2
    <3> HIDE DEF zero, number, body
    <3>2. At(buffer, 12, number) /\ Len(body) = 8
      BY <3>1
    <3> QED
      BY <3>2 DEF number
  <2>4. ParseInt(buffer, 12) = ReadAs(call.number, 12 + 4)
    BY <1>1, <2>1, <2>3, ReadWhatIsAt
  <2>5. ValueOf(stage) = ParseInt(buffer, 12)
    BY <1>4 DEF ValueOf
  <2>6. AnswerFor(call, stage) = call.number
    BY <1>4 DEF AnswerFor
  <2> QED
    BY <1>1, <2>3, <2>4, <2>5, <2>6 DEF ReadAs, Goal
<1>5. CASE stage = "responseCode"
  <2>1. Len(body) = 4
    BY <1>1, <1>5, ValueBodies
  <2>2. ValueOf(stage) = ReadAs(packet.code, 12)
    BY <1>5 DEF ValueOf
  <2>3. AnswerFor(call, stage) = call.number /\ CodeFor(call, stage) = call.number
    BY <1>5 DEF AnswerFor, CodeFor
  <2> QED
    BY <1>1, <2>1, <2>2, <2>3 DEF ReadAs, Goal
<1>6. CASE stage = "lobRead"
  <2>1. Pair(body, Int4(Len(call.text)), call.text) /\ call.text \in Bytes /\ Len(Int4(Len(call.text))) = 4
    BY <1>1, <1>6, ValueBodies
  <2>2. At(buffer, 8 + Len(Int4(Len(call.text))), call.text)
    BY <1>1, <2>1 DEF Pair
  <2>3. At(buffer, 12, call.text) /\ Len(body) = 4 + Len(call.text) /\ Len(call.text) \in Nat
    BY <2>1, <2>2 DEF Pair
  <2>4. ParseBytes(buffer, 12, Len(call.text)) = ReadAs(call.text, 12 + Len(call.text))
    BY <1>1, <2>1, <2>3, ReadWhatIsAt
  <2>5. ValueOf(stage) = ParseBytes(buffer, 12, packet.code)
    BY <1>6 DEF ValueOf
  <2>6. AnswerFor(call, stage) = call.text /\ CodeFor(call, stage) = Len(call.text)
    BY <1>6 DEF AnswerFor, CodeFor
  <2> QED
    BY <1>1, <2>3, <2>4, <2>5, <2>6 DEF ReadAs, Goal
<1>7. CASE stage = "lobNew"
  <2>1. Pair(body, Int4(0), LobOctets("blob", call.lob)) /\ call.lob \in LobHandles /\ Len(Int4(0)) = 4
    BY <1>1, <1>7, ValueBodies
  <2>2. At(buffer, 8 + Len(Int4(0)), LobOctets("blob", call.lob))
    BY <1>1, <2>1 DEF Pair
  <2>3. At(buffer, 12, LobOctets("blob", call.lob)) /\ Len(body) = 4 + Len(LobOctets("blob", call.lob))
    <3> DEFINE zero == Int4(0)
               handle == LobOctets("blob", call.lob)
    <3>1. Len(body) = Len(zero) + Len(handle)
      BY <2>1 DEF Pair
    <3>2. Len(zero) = 4 /\ At(buffer, 8 + Len(zero), handle)
      BY <2>1, <2>2
    <3> HIDE DEF zero, handle, body
    <3>3. At(buffer, 12, handle) /\ Len(body) = 4 + Len(handle)
      BY <3>1, <3>2
    <3> QED
      BY <3>3 DEF handle
  <2>4. "blob" \in LobTypes
    BY DEF LobTypes
  <2>5. /\ Len(LobOctets("blob", call.lob)) = call.lob.size /\ call.lob.size = Len(call.lob.locator) + 17
        /\ call.lob.locator \in Bytes /\ Len(call.lob.locator) \in Nat
    BY <2>1, <2>4, LobBytes, LobHandleFields, BytesProperties
  <2>6. Slice(buffer, 12 + 16, Len(call.lob.locator)) = call.lob.locator
    BY <1>1, <2>1, <2>3, LocatorAt
  <2>7. rest = Len(call.lob.locator) + 17 /\ rest - 16 - 1 = Len(call.lob.locator)
    BY <2>3, <2>5
  <2>8. ValueOf(stage) = ReadAs(Slice(buffer, 12 + 16, rest - 16 - 1), 12 + rest)
    BY <1>7 DEF ValueOf
  <2>9. AnswerFor(call, stage) = call.lob.locator
    BY <1>7 DEF AnswerFor
  <2>10. Len(buffer) = 12 + rest
    BY <1>1, <2>3, <2>5, <2>7
  <2>11. ValueOf(stage) = ReadAs(call.lob.locator, Len(buffer))
    BY <2>6, <2>7, <2>8, <2>10
  <2> QED
    BY <2>9, <2>11 DEF ReadAs, Goal
<1> QED
  BY <1>1, <1>2, <1>3, <1>4, <1>5, <1>6, <1>7 DEF ValueStages

\* so that nothing is left after it.
LEMMA PlacedValue ==
    ASSUME Shaped, Placed, ParseValue
    PROVE  Placed'
<1>1. pc = "value"
  BY DEF ParseValue
<1>2. call.kind \in ValueStages
  BY <1>1, PartsOfKinds
<1>3. /\ Arrived /\ Sound /\ Fine(call, stage) /\ PacketOK(packet) /\ packet.error = NoError
      /\ ValueAt(call, stage, "value", offset, packet)
  BY <1>1, <1>2, PlacedFacts
<1>4. offset = 12 /\ packet.code = CodeFor(call, stage) /\ packet.length = Len(Body(call, stage))
  BY <1>3 DEF ValueAt
<1> DEFINE r == ValueOf(stage)
           fields == [packet EXCEPT !.value = r.value]
<1>5. Goto("done", r, fields)
  BY DEF ParseValue, ValueOf
<1>6. r.offset = Len(buffer) /\ r.value = AnswerFor(call, stage)
  BY <1>2, <1>3, <1>4, AnswerRead
<1> HIDE DEF r
<1>7. fields.value = AnswerFor(call, stage) /\ fields.error = NoError
  BY <1>3, <1>6 DEF PacketOK, NoPacket
<1> HIDE DEF fields
<1>8. ValueAt(call, stage, "done", r.offset, fields)
  BY <1>7 DEF ValueAt
<1> QED
  BY <1>2, <1>3, <1>5, <1>6, <1>7, <1>8, GotoPlaced DEF ValueStages

-----------------------------------------------------------------------------
(* The parser keeps its place. *)

\* At first nothing has arrived.
LEMMA PlacedInit == Init => Placed
<1> SUFFICES ASSUME Init PROVE Placed
  OBVIOUS
<1>1. /\ call \in Calls /\ stage = call.kind /\ pc = "header" /\ offset = 0 /\ packet = NoPacket
  BY DEF Init
<1>2. /\ NoPacket.error = NoError /\ NoPacket.infoArray = <<>> /\ NoPacket.rows = <<>> /\ NoPacket.read = 0
      /\ NoPacket.currentTupleCount = 0 /\ NoPacket.results = <<>> /\ NoPacket.errors = <<>>
  BY DEF NoPacket
<1>3. call.kind \in {"execute", "prepare"} => StatementAt(call, stage, "header", 0, NoPacket)
  <2> SUFFICES ASSUME call.kind \in {"execute", "prepare"} PROVE StatementAt(call, stage, "header", 0, NoPacket)
    OBVIOUS
  <2>1. Before(call, stage, NoPacket)
    BY <1>1, <1>2 DEF Before, FirstFor
  <2>2. ColumnsGot(call, NoPacket)
    <3>1. Len(call.columns) \in Nat
      BY <1>1, CallFacts, ColumnsBytes
    <3> QED
      BY <1>2, <3>1 DEF ColumnsGot
  <2>3. RowsGot(call, NoPacket)
    BY <1>2 DEF RowsGot
  <2> QED
    BY <1>1, <1>2, <2>1, <2>2, <2>3 DEF StatementAt
<1>4. SchemaAt(call, stage, "header", 0, NoPacket)
  BY <1>2 DEF SchemaAt
<1>5. BatchAt(call, stage, "header", 0, NoPacket)
  BY <1>2 DEF BatchAt
<1>6. ValueAt(call, stage, "header", 0, NoPacket)
  BY DEF ValueAt
<1>7. PlacedAt(call, stage, "header", 0, NoPacket)
  BY <1>2, <1>3, <1>4, <1>5, <1>6 DEF PlacedAt
<1> QED
  BY <1>1, <1>7 DEF Placed

\* A parser that is in step after a step was so before: a packet only gains rows.
LEMMA InStepBefore ==
    ASSUME Shaped, [Next]_vars, InStep'
    PROVE  InStep
<1>1. Arrived /\ Listed(packet.rows)
  BY DEF Shaped, Typed, PacketOK
<1>2. DOMAIN packet = DOMAIN NoPacket
  BY DEF Shaped, Typed, PacketOK
<1>3. call' = call /\ (stage' = stage \/ stage = "requestSchema" \/ stage' \in {"executePrepared", "fetch"})
  BY DEF Next, vars, ParseHeader, ParseStatement, ParseColumn, ParseCounts, ParseResultInfo, ParseTail, ParseTuples,
     ParseRow, ParseSchema, ParseSchemaRow, ParseBatch, ParseExecuted, ParseValue, Goto, ExecutePrepared, FetchSchema,
     Fetch, Expect
<1>4. DOMAIN packet.rows \subseteq DOMAIN packet'.rows
  <2>1. packet'.rows = packet.rows \/ \E row : packet'.rows = Append(packet.rows, row)
    <3>1. CASE ParseHeader
      BY <1>2, <3>1 DEF ParseHeader, Goto, NoPacket
    <3>2. CASE ParseStatement
      BY <1>2, <3>2 DEF ParseStatement, Goto, NoPacket
    <3>3. CASE ParseColumn
      BY <1>2, <3>3 DEF ParseColumn, Goto, NoPacket
    <3>4. CASE ParseCounts
      BY <1>2, <3>4 DEF ParseCounts, Goto, NoPacket
    <3>5. CASE ParseResultInfo
      BY <1>2, <3>5 DEF ParseResultInfo, Goto, NoPacket
    <3>6. CASE ParseTail
      BY <1>2, <3>6 DEF ParseTail, Goto, NoPacket
    <3>7. CASE ParseTuples
      BY <1>2, <3>7 DEF ParseTuples, Goto, NoPacket
    <3>8. CASE ParseRow
      BY <1>2, <3>8 DEF ParseRow, Goto, NoPacket
    <3>9. CASE ParseSchema
      BY <1>2, <3>9 DEF ParseSchema, Goto, NoPacket
    <3>10. CASE ParseSchemaRow
      BY <1>2, <3>10 DEF ParseSchemaRow, Goto, NoPacket
    <3>11. CASE ParseBatch
      BY <1>2, <3>11 DEF ParseBatch, Goto, NoPacket
    <3>12. CASE ParseExecuted
      BY <1>2, <3>12 DEF ParseExecuted, Goto, NoPacket
    <3>13. CASE ParseValue
      BY <1>2, <3>13 DEF ParseValue, Goto, NoPacket
    <3>14. CASE ExecutePrepared \/ FetchSchema \/ Fetch \/ UNCHANGED vars
      BY <3>14 DEF ExecutePrepared, FetchSchema, Fetch, vars
    <3> QED
      BY <3>1, <3>2, <3>3, <3>4, <3>5, <3>6, <3>7, <3>8, <3>9, <3>10, <3>11, <3>12, <3>13, <3>14 DEF Next
  <2>2. CASE packet'.rows = packet.rows
    BY <2>2
  <2>3. CASE \E row : packet'.rows = Append(packet.rows, row)
    <3>1. PICK row : packet'.rows = Append(packet.rows, row)
      BY <2>3
    <3>2. Listed(packet'.rows) /\ Len(packet'.rows) = Len(packet.rows) + 1 /\ Len(packet.rows) \in Nat
      BY <1>1, <3>1, AppendAny DEF Listed
    <3>3. DOMAIN packet.rows = 1..Len(packet.rows) /\ DOMAIN packet'.rows = 1..(Len(packet.rows) + 1)
      BY <1>1, <3>2, ListedDomain
    <3> QED
      BY <3>2, <3>3
  <2> QED
    BY <2>1, <2>2, <2>3
<1>5. InStepOf(call, stage', packet')
  BY <1>3, InStepIs
<1>6. InStepOf(call, stage, packet)
  <2>1. stage = "fetchSchema" => stage' = stage
    <3>1. stage = "fetchSchema" => ~(ExecutePrepared \/ Fetch)
      BY DEF ExecutePrepared, Fetch
    <3>2. stage' = stage \/ ExecutePrepared \/ Fetch \/ stage = "requestSchema"
      BY DEF Next, vars, ParseHeader, ParseStatement, ParseColumn, ParseCounts, ParseResultInfo, ParseTail, ParseTuples,
         ParseRow, ParseSchema, ParseSchemaRow, ParseBatch, ParseExecuted, ParseValue, Goto, FetchSchema
    <3> QED
      BY <3>1, <3>2
  <2> QED
    BY <1>4, <1>5, <2>1 DEF InStepOf
<1> QED
  BY <1>6, InStepIs

\* As long as it is in step, a parser is where the response has what it reads next.
KeepsPlace == InStep => Placed

\* While rows and columns are in step, every step leaves the reader in its place.
LEMMA PlacedStep ==
    ASSUME Shaped, KeepsPlace, [Next]_vars
    PROVE  KeepsPlace'
<1> SUFFICES ASSUME InStep' PROVE Placed'
  BY DEF KeepsPlace
<1>1. InStep /\ Placed
  BY InStepBefore DEF KeepsPlace
<1>2. CASE ParseColumn
  <2>1. pc = "columns"
    BY <1>2 DEF ParseColumn
  <2>2. call.kind \in {"execute", "prepare"} \/ call.kind = "requestSchema"
    BY <1>1, <2>1, PartsOfKinds
  <2> QED
    BY <1>1, <1>2, <2>2, PlacedColumn, PlacedSchemaColumn
<1>3. CASE ParseHeader \/ ParseStatement \/ ParseCounts \/ ParseResultInfo \/ ParseTail \/ ParseTuples \/ ParseRow
  BY <1>1, <1>3, PlacedHeader, PlacedStatement, PlacedCounts, PlacedResultInfo, PlacedTail, PlacedTuples, PlacedRow
<1>4. CASE ParseSchema \/ ParseSchemaRow \/ ParseBatch \/ ParseExecuted \/ ParseValue
  BY <1>1, <1>4, PlacedSchema, PlacedSchemaRow, PlacedBatch, PlacedExecuted, PlacedValue
<1>5. CASE ExecutePrepared \/ FetchSchema \/ Fetch
  BY <1>1, <1>5, PlacedExecute, PlacedFetchSchema
<1>6. CASE UNCHANGED vars
  BY <1>1, <1>6 DEF vars, Placed
<1> QED
  BY <1>2, <1>3, <1>4, <1>5, <1>6 DEF Next

\* A parser keeps its place in every response it can follow: what it has read is what
\* was sent, and its offset is where the part it reads next begins.
THEOREM PlaceKept == Spec => []KeepsPlace
<1>1. Init => KeepsPlace
  BY PlacedInit DEF KeepsPlace
<1>2. Shaped /\ KeepsPlace /\ [Next]_vars => KeepsPlace'
  BY PlacedStep
<1> QED
  BY <1>1, <1>2, ShapedAlways, PTL DEF Spec

\* No field of a response is missed or read twice: a parser ends where the response does,
\* for any columns, rows, results, values, protocol version and error.
THEOREM ConsumedAlways == Spec => []ResponseConsumed
<1>1. Shaped /\ KeepsPlace => ResponseConsumed
  <2> SUFFICES ASSUME Shaped, Placed, pc = "done" PROVE offset = Len(buffer)
    BY DEF KeepsPlace, ResponseConsumed
  <2>1. offset = Len(Response(call, stage))
    BY DEF Placed, PlacedAt
  <2>2. buffer = Response(call, stage)
    BY DEF Shaped, Typed, Arrived
  <2> QED
    BY <2>1, <2>2
<1> QED
  BY <1>1, PlaceKept, ShapedAlways, PTL

\* What the driver hands out of a response is what the server was asked for: the rows of
\* statements and schemas, the results and errors of batches, values and errors.
THEOREM AnswersCorrect == Spec => []AnswersAsSent
<1>1. Shaped /\ KeepsPlace => AnswersAsSent
  <2> SUFFICES ASSUME Shaped, InStep, Placed, pc = "done"
               PROVE  /\ call.kind \in {"execute", "prepare"} => RowsAsStored
                      /\ OthersAsSent
    BY DEF KeepsPlace, AnswersAsSent, RowsAsStored, OthersAsSent
  <2>1. Arrived /\ Listed(packet.infoArray) /\ Listed(packet.rows)
    BY DEF Shaped, Typed, PacketOK
  <2>2. /\ packet.error = (IF call.failing = stage THEN call.error ELSE NoError)
        /\ call.kind \in {"execute", "prepare"} => StatementAt(call, stage, "done", offset, packet)
        /\ call.kind = "requestSchema" => SchemaAt(call, stage, "done", offset, packet)
        /\ call.kind = "batch" => BatchAt(call, stage, "done", offset, packet)
        /\ call.kind \in ValueStages => ValueAt(call, stage, "done", offset, packet)
    BY DEF Placed, PlacedAt
  <2>3. packet.error = NoError => Fine(call, stage)
    BY <2>2 DEF Fine
  <2>4. call.kind \in {"execute", "prepare"} => RowsAsStored
    <3> SUFFICES ASSUME call.kind \in {"execute", "prepare"}
                 PROVE  /\ \A i \in DOMAIN packet.infoArray :
                              packet.infoArray[i] = [ColumnType |-> CUBRIDDataType[call.columns[i].type],
                                                     Name |-> call.columns[i].name]
                        /\ \A i \in DOMAIN packet.rows, j \in DOMAIN packet.infoArray :
                              Readable(call.rows[i][j]) => packet.rows[i][j] = Meant(call.rows[i][j])
                        /\ Len(packet.rows) = packet.currentTupleCount
      BY DEF RowsAsStored
    <3>1. DOMAIN packet.infoArray = 1..Len(packet.infoArray) /\ DOMAIN packet.rows = 1..Len(packet.rows)
      BY <2>1, ListedDomain
    <3>2. ColumnsGot(call, packet) /\ RowsGot(call, packet) /\ Len(packet.rows) = packet.currentTupleCount
      BY <2>2 DEF StatementAt
    <3>3. \A j \in 1..Len(packet.infoArray) : j \in 1..Len(call.columns)
      <4>1. Len(packet.infoArray) \in Nat /\ Len(call.columns) \in Nat
        <5>1. call \in Calls
          BY <2>1 DEF Arrived
        <5> QED
          BY <2>1, <5>1, CallFacts, ColumnsBytes DEF Listed
      <4> QED
        BY <3>2, <4>1 DEF ColumnsGot
    <3> QED
      BY <3>1, <3>2, <3>3 DEF ColumnsGot, RowsGot
  <2>5. OthersAsSent
    <3>1. stage = "fetchSchema" /\ packet.error = NoError => packet.rows = call.rows
      BY <2>1, <2>2, <2>3, KindOfStage DEF SchemaAt
    <3>2. stage = "batch" /\ packet.error = NoError =>
            packet.results = All(CountsSent) /\ packet.errors = All(ErrorsSent)
      BY <2>1, <2>2, <2>3, KindOfStage DEF BatchAt, All, CountsSent, ErrorsSent, CountsFor, ErrorsFor
    <3>3. stage \in ValueStages /\ packet.error = NoError => packet.value = AnswerFor(call, stage)
      BY <2>1, <2>2, <2>3, KindOfStage DEF ValueAt
    <3> QED
      BY <2>2, <3>1, <3>2, <3>3 DEF OthersAsSent, AnswerFor, ValueStages
  <2> QED
    BY <2>4, <2>5
<1> QED
  BY <1>1, PlaceKept, ShapedAlways, PTL
=============================================================================

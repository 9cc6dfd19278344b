---------------------------- MODULE PacketCodec -----------------------------
(***************************************************************************)
(* PacketWriter and PacketReader: how numbers, texts, dates and LOB handles *)
(* become bytes and are read back.  A byte is a digit to Base, 256 in the   *)
(* driver; the checked instance scales it down, and an integer of four      *)
(* bytes, the 32 bits of JavaScript's shifts, with it.                      *)
(*                                                                          *)
(* A text is the sequence of its bytes.  A long is [hi, lo] for             *)
(* hi * IntSpan + lo.  A Date is <<year, month from 0, day, hour, minute,   *)
(* second, millisecond>>.  Floating point numbers are their bytes, numerics *)
(* their digits.  What is read is its value and the offset behind it.       *)
(***************************************************************************)
EXTENDS Integers, Sequences, SequencesExt

CONSTANTS
    Base,         \* the number of values of a byte
    Null,         \* null and undefined
    InvalidType   \* the Error that stands in for a value of an unknown type

\* The numbers of all types are bytes.
ASSUME BaseAssumption == Base \in Nat /\ Base > 32 /\ Base % 2 = 0

\* What a byte counts for in a number of four bytes, the high one first.
Place == <<Base * Base * Base, Base * Base, Base, 1>>
IntSpan == Base * Base * Base * Base

\* What two, four and eight bytes can tell.
Bytes == Seq(0..(Base - 1))
Words == 0..(Base * Base - 1)
SignedWords == -((Base * Base) \div 2)..((Base * Base) \div 2 - 1)
Ints == -(IntSpan \div 2)..(IntSpan \div 2 - 1)
Lengths == 0..(IntSpan \div 2 - 1)
LongInts(highs) == [hi : highs, lo : 0..(IntSpan - 1)]

ASSUME NullAssumption == Null \notin Bytes

\* The types by the number they have on the wire; "null" is also UNKNOWN.
CUBRIDDataType ==
    [null |-> 0, char |-> 1, string |-> 2, nchar |-> 3, varnchar |-> 4, bit |-> 5,
     varbit |-> 6, numeric |-> 7, int |-> 8, short |-> 9, monetary |-> 10, float |-> 11,
     double |-> 12, date |-> 13, time |-> 14, timestamp |-> 15, set |-> 16,
     multiset |-> 17, sequence |-> 18, object |-> 19, resultset |-> 20, bigint |-> 21,
     datetime |-> 22, blob |-> 23, clob |-> 24, enum |-> 25, timestamptz |-> 29,
     timestampltz |-> 30, datetimetz |-> 31, datetimeltz |-> 32]
Types == DOMAIN CUBRIDDataType
Numbers(types) == {CUBRIDDataType[t] : t \in types}

TextTypes == {"char", "nchar", "string", "varnchar", "enum"}
SetTypes == {"set", "multiset", "sequence"}
ZonedTypes == {"timestamptz", "timestampltz", "datetimetz", "datetimeltz"}
LobTypes == {"blob", "clob"}
LobNumber == [blob |-> 33, clob |-> 34]

(* Operators named after a fault are mutants of the definition they precede. *)

-----------------------------------------------------------------------------
(* PacketWriter. *)

Unmasked(n, size) == [i \in 1..size |-> n \div Place[4 - size + i]]

\* The (value >> 8k) & 0xFF of _writeByte, _writeShort and _writeInt.
WriteNum(n, size) == [i \in 1..size |-> (n \div Place[4 - size + i]) % Base]
WriteInt(n) == WriteNum(n, 4)

\* The remainder of a negative number is negative, and the quotient is rounded
\* towards zero: one more than hi.
WriteLong(long) ==
    WriteInt(IF long.hi < 0 /\ long.lo > 0 THEN long.hi + 1 ELSE long.hi) \o WriteInt(long.lo)

WriteNullTerminatedString(value) ==
    LET text == IF value = Null THEN <<>> ELSE value
    IN  WriteInt(Len(text) + 1) \o text \o <<0>>

MonthsFromZero(date) == FlattenSeq([i \in 1..7 |-> WriteNum(date[i], 2)])

\* Months count from 0 in a Date and from 1 in the server.
WriteDateTime(date) ==
    FlattenSeq([i \in 1..7 |-> WriteNum(IF i = 2 THEN date[i] + 1 ELSE date[i], 2)])

WriteDate(date) == WriteDateTime(SubSeq(date, 1, 3) \o <<0, 0, 0, 0>>)
WriteTime(date) == WriteDateTime(<<0, -1, 0>> \o SubSeq(date, 4, 6) \o <<0>>)
WriteTimestamp(date) == WriteDateTime(SubSeq(date, 1, 6) \o <<0>>)

WriteLob(type, lob) ==
    WriteInt(lob.size) \o WriteInt(LobNumber[type]) \o WriteLong(lob.length)
                       \o WriteNullTerminatedString(lob.locator)

-----------------------------------------------------------------------------
(* PacketReader. *)

ReadAs(value, offset) == [value |-> value, offset |-> offset]

Unsigned(n) == n % IntSpan

\* The value of `<<`: 32 bits with a sign.
Wrap(n) == ((n + IntSpan \div 2) % IntSpan) - IntSpan \div 2

\* A byte outside of the buffer is undefined, and 0 in `&`.
ByteAt(buffer, at) == IF at \in 0..(Len(buffer) - 1) THEN buffer[at + 1] ELSE 0

\* slice() counts a negative index from the end, and stays within the buffer.
Index(buffer, at) ==
    LET i == IF at < 0 THEN Len(buffer) + at ELSE at
    IN  IF i < 0 THEN 0 ELSE IF i > Len(buffer) THEN Len(buffer) ELSE i
Slice(buffer, at, size) == SubSeq(buffer, Index(buffer, at) + 1, Index(buffer, at + size))

\* The values after each byte of the loop.
ValuesRead(buffer, at, size) ==
    LET value[n \in 0..size] ==
          IF n = 0 THEN 0 ELSE Wrap(value[n - 1] * Base + ByteAt(buffer, at + n - 1))
    IN  value
ParseNum(buffer, at, size) == ReadAs(ValuesRead(buffer, at, size)[size], at + size)

ParseByte(buffer, at) == ReadAs(ByteAt(buffer, at), at + 1)
ParseShort(buffer, at) == ParseNum(buffer, at, 2)
ParseInt(buffer, at) == ParseNum(buffer, at, 4)
ParseBytes(buffer, at, size) == ReadAs(Slice(buffer, at, size), at + size)

\* All eight bytes go through the 32 bits.
ParseLong(buffer, at) ==
    LET n == ParseNum(buffer, at, 8).value
    IN  ReadAs([hi |-> IF n < 0 THEN -1 ELSE 0, lo |-> n % IntSpan], at + 8)

ParseNullTerminatedString(buffer, at, length) ==
    IF length <= 0 THEN ReadAs(<<>>, at)
    ELSE ReadAs(Slice(buffer, at, length - 1), at + length)

Shorts(buffer, at, n) == [i \in 1..n |-> ParseShort(buffer, at + 2 * (i - 1)).value]

ParseDate(buffer, at) ==
    LET f == Shorts(buffer, at, 3)
    IN  ReadAs(<<f[1], f[2] - 1, f[3], 0, 0, 0, 0>>, at + 6)
ParseTime(buffer, at) ==
    ReadAs(<<1970, 0, 1>> \o Shorts(buffer, at, 3) \o <<0>>, at + 6)
ParseTimeStamp(buffer, at) ==
    LET f == Shorts(buffer, at, 6)
    IN  ReadAs([f EXCEPT ![2] = @ - 1] \o <<0>>, at + 12)
ParseDateTime(buffer, at) ==
    ReadAs([Shorts(buffer, at, 7) EXCEPT ![2] = @ - 1], at + 14)

\* The time zone takes what the date leaves of the value, but for its null.
ParseZoned(buffer, at, size, date) ==
    ReadAs(<<date.value, Slice(buffer, date.offset, size - (date.offset - at) - 1)>>, at + size)

ParseObject(buffer, at) ==
    ReadAs(<<ParseInt(buffer, at).value, ParseShort(buffer, at + 4).value,
             ParseShort(buffer, at + 6).value>>, at + 8)

ReadLob(buffer, at, size) ==
    LET packed == Slice(buffer, at, size)
    IN  ReadAs([size |-> size, length |-> ParseLong(packed, 4).value,
                locator |-> Slice(packed, 16, ParseInt(packed, 12).value - 1)], at + size)

\* Collections and result sets are passed over.
ParseSequence(buffer, at) ==
    ReadAs(Null, at + 8 + ParseInt(buffer, at).value * ParseInt(buffer, at + 4).value)
ParseResultSet(buffer, at) == ReadAs(Null, at + 4)

-----------------------------------------------------------------------------
(* The values of rows and of parameters, by type. *)

\* _readValue(); the old protocol's knows no time zones, and nothing of null.
ReadValue(protocol, type, size, buffer, at) ==
    CASE type \in Numbers(TextTypes) -> ParseNullTerminatedString(buffer, at, size)
      [] type \in Numbers({"numeric"}) -> ParseNullTerminatedString(buffer, at, size)
      [] type \in Numbers({"short"}) -> ParseShort(buffer, at)
      [] type \in Numbers({"int"}) -> ParseInt(buffer, at)
      [] type \in Numbers({"bigint"}) -> ParseLong(buffer, at)
      [] type \in Numbers({"float"}) -> ParseBytes(buffer, at, 4)
      [] type \in Numbers({"double", "monetary"}) -> ParseBytes(buffer, at, 8)
      [] type \in Numbers({"date"}) -> ParseDate(buffer, at)
      [] type \in Numbers({"time"}) -> ParseTime(buffer, at)
      [] type \in Numbers({"datetime"}) -> ParseDateTime(buffer, at)
      [] type \in Numbers({"timestamp"}) -> ParseTimeStamp(buffer, at)
      [] type \in Numbers({"timestamptz", "timestampltz"}) /\ protocol = "new" ->
            ParseZoned(buffer, at, size, ParseTimeStamp(buffer, at))
      [] type \in Numbers({"datetimetz", "datetimeltz"}) /\ protocol = "new" ->
            ParseZoned(buffer, at, size, ParseDateTime(buffer, at))
      [] type \in Numbers({"object"}) -> ParseObject(buffer, at)
      [] type \in Numbers({"bit", "varbit"}) -> ParseBytes(buffer, at, size)
      [] type \in Numbers(SetTypes) -> ParseSequence(buffer, at)
      [] type \in Numbers(LobTypes) -> ReadLob(buffer, at, size)
      [] type \in Numbers({"resultset"}) -> ParseResultSet(buffer, at)
      [] type \in Numbers({"null"}) /\ protocol = "new" -> ReadAs(Null, at)
      [] OTHER -> ReadAs(InvalidType, at)

\* add...(): a value behind its length.
Add(bytes) == WriteInt(Len(bytes)) \o bytes

\* getCUBRIDDataTypeNumber(): "varchar" is another name of STRING, ENUM has none.
DataTypeNumber(name) ==
    CUBRIDDataType[IF name = "varchar" THEN "string" ELSE IF name = "enum" THEN "null" ELSE name]

\* _writeParamValue() for one parameter of a type it knows.
WriteParamValue(name, value) ==
    LET type == DataTypeNumber(name)
    IN  Add(<<type>>) \o
        CASE type \in Numbers(TextTypes \cup {"numeric"}) -> WriteNullTerminatedString(value)
          [] type \in Numbers({"short"}) -> Add(WriteNum(value, 2))
          [] type \in Numbers({"int"}) -> Add(WriteInt(value))
          [] type \in Numbers({"bigint"}) -> Add(WriteLong(value))
          [] type \in Numbers({"float", "double", "monetary", "bit", "varbit"}) -> Add(value)
          [] type \in Numbers({"date"}) -> Add(WriteDate(value))
          [] type \in Numbers({"time"}) -> Add(WriteTime(value))
          [] type \in Numbers({"datetime"}) -> Add(WriteDateTime(value))
          [] type \in Numbers({"timestamp"}) -> Add(WriteTimestamp(value))
          [] type \in Numbers(LobTypes) -> WriteLob(name, value)
          [] type \in Numbers(SetTypes \cup {"object"}) -> WriteInt(0) \o <<0>>
          [] type \in Numbers({"resultset"}) -> WriteInt(4) \o <<0>>
=============================================================================

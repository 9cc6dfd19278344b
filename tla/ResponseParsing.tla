--------------------------- MODULE ResponseParsing --------------------------
(***************************************************************************)
(* What the packets make of the bytes the server answers with: one call and *)
(* its responses.  Nothing in a response says what comes next; parser and   *)
(* server have to agree on every field, or all that follows is misread.     *)
(*                                                                          *)
(* A call carries what the server holds: the columns and rows of a          *)
(* statement, the parameters given to it, the rows of a schema, the results *)
(* of a batch.  A stored value is [type, value]; the server sends the first *)
(* `first` rows at once, the rest with the fetch.  The server's layout is   *)
(* written down apart from the parser's, from what src/ and its tests       *)
(* expect of it.                                                            *)
(***************************************************************************)
EXTENDS PacketCodec

CONSTANT Calls      \* the calls and what the server will answer

\* The kinds of call, by the response the server gives first.
Kinds == {"execute", "prepare", "requestSchema", "batch", "openDatabase",
          "engineVersion", "dbParameter", "lobNew", "lobRead", "responseCode"}
NoError == [code |-> 0, message |-> <<>>]

VARIABLES
    call,     \* the call
    stage,    \* the response being parsed: of Kinds, or a second one of the call
    buffer,   \* PacketReader._buffer
    offset,   \* PacketReader._offset
    pc,       \* the part of the response that is read next
    packet,   \* the fields of the packet
    request   \* the parameters written for the execution of a prepared statement

vars == <<call, stage, buffer, offset, pc, packet, request>>

SELECT == 21
Masked == Base \div 2      \* MASK_TYPE_HAS_2_BYTES
Indicator == Base \div 4   \* CAS_PROTO_INDICATOR

-----------------------------------------------------------------------------
(* The server. *)

\* Two's complement, high byte first.
Octets(n, size) == [i \in 1..size |-> (n \div Place[4 - size + i]) % Base]
Int4(n) == Octets(n, 4)
Long8(long) == Int4(long.hi) \o Int4(long.lo)
Text(text) == Int4(Len(text) + 1) \o text \o <<0>>
Shorts2(fields) == FlattenSeq([i \in DOMAIN fields |-> Octets(fields[i], 2)])
Oid == Int4(0) \o Int4(0)
All(parts) == FlattenSeq(parts)

LobOctets(type, lob) ==
    Int4(LobNumber[type]) \o Long8(lob.length) \o Text(lob.locator)

\* A stored value.  Dates are stored with months from 1.
ValueOctets(type, v) ==
    CASE type \in TextTypes \cup {"numeric"} -> v \o <<0>>
      [] type = "short" -> Octets(v, 2)
      [] type \in {"int", "resultset"} -> Int4(v)
      [] type = "bigint" -> Long8(v)
      [] type \in {"float", "double", "monetary", "bit", "varbit"} -> v
      [] type \in {"date", "time", "timestamp", "datetime"} -> Shorts2(v)
      [] type \in ZonedTypes -> Shorts2(v[1]) \o v[2] \o <<0>>
      [] type = "object" -> Int4(v[1]) \o Octets(v[2], 2) \o Octets(v[3], 2)
      [] type \in SetTypes -> Int4(v[1]) \o Int4(v[2]) \o [i \in 1..(v[1] * v[2]) |-> 0]
      [] type \in LobTypes -> LobOctets(type, v)

\* In a column without a type each value brings its own.
Sized(columnType, sv) ==
    IF sv.value = Null THEN Int4(-1)
    ELSE LET octets == ValueOctets(sv.type, sv.value)
             typed == IF columnType = "null" THEN <<CUBRIDDataType[sv.type]>> \o octets ELSE octets
         IN  Int4(Len(typed)) \o typed

RowOctets(c, row) ==
    Int4(1) \o Oid \o All([j \in DOMAIN row |-> Sized(c.columns[j].type, row[j])])

RowsFrom(c, from, to) ==
    Int4(to - from + 1) \o All([i \in 1..(to - from + 1) |-> RowOctets(c, c.rows[from + i - 1])])

TypeOctets(column) ==
    IF column.wide THEN <<Masked, CUBRIDDataType[column.type]>> ELSE <<CUBRIDDataType[column.type]>>

ColumnOctets(column) ==
    TypeOctets(column) \o Octets(0, 2) \o Int4(10) \o Text(column.name) \o Text(column.name)
        \o Text(<<>>) \o <<1>> \o Text(<<>>) \o <<0, 0, 0, 0, 0, 0, 0>>

StatementOctets(c) ==
    Int4(c.handle) \o Int4(0) \o <<c.statementType>> \o Int4(0) \o <<1>> \o Int4(Len(c.columns))
        \o All([i \in DOMAIN c.columns |-> ColumnOctets(c.columns[i])])

ResultOctets(c) ==
    <<0>> \o Int4(1) \o <<c.statementType>> \o Int4(Len(c.rows)) \o Oid \o Int4(0) \o Int4(0)
        \o (IF c.version > 1 THEN <<0>> ELSE <<>>)
        \o (IF c.version > 4 THEN Int4(0) ELSE <<>>)
        \o (IF c.statementType = SELECT THEN Int4(0) \o RowsFrom(c, 1, c.first) ELSE <<>>)

\* What the server sends of a schema, column by column.
SchemaColumns(schemaType) ==
    CASE schemaType \in {1, 2} -> <<"string", "short">>
      [] schemaType = 4 -> <<"string", "short", "short", "int">> \o [i \in 1..4 |-> "short"]
                           \o <<"string", "int", "string", "string", "short">>
      [] schemaType = 11 -> <<"short", "string", "string">> \o [i \in 1..4 |-> "short"]
      [] schemaType \in {17, 18} -> [i \in 1..4 |-> "string"] \o [i \in 1..3 |-> "short"]
                                    \o <<"string", "string">>
      [] schemaType = 16 -> <<"string", "string", "int", "string">>
      [] OTHER -> <<"string", "string", "string">>

SchemaRow(c, row) ==
    Int4(1) \o Oid \o All([j \in DOMAIN row |->
        LET octets == ValueOctets(SchemaColumns(c.schemaType)[j], row[j])
        IN  Int4(Len(octets)) \o octets])

SchemaColumnOctets(type) ==
    TypeOctets([type |-> type, wide |-> TRUE]) \o Octets(0, 2) \o Int4(10) \o Text(<<1>>)

BatchOctets(c, result) ==
    <<20>> \o Int4(result.count) \o
    (IF result.count < 0
     THEN (IF c.version > 2 THEN Int4(result.error.code) ELSE <<>>) \o Text(result.error.message)
     ELSE Oid)

Body(c, s) ==
    CASE s = "execute" -> StatementOctets(c) \o Int4(Len(c.rows)) \o ResultOctets(c)
      [] s = "prepare" -> StatementOctets(c)
      [] s = "executePrepared" -> Int4(Len(c.rows)) \o ResultOctets(c)
      [] s = "fetch" -> Int4(0) \o RowsFrom(c, c.first + 1, Len(c.rows))
      [] s = "requestSchema" ->
            Int4(c.handle) \o Int4(Len(c.rows)) \o Int4(Len(SchemaColumns(c.schemaType)))
                \o All([i \in DOMAIN SchemaColumns(c.schemaType) |->
                            SchemaColumnOctets(SchemaColumns(c.schemaType)[i])])
      [] s = "fetchSchema" ->
            Int4(0) \o Int4(Len(c.rows)) \o All([i \in DOMAIN c.rows |-> SchemaRow(c, c.rows[i])])
      [] s = "batch" ->
            Int4(0) \o Int4(Len(c.results))
                \o All([i \in DOMAIN c.results |-> BatchOctets(c, c.results[i])])
                \o (IF c.version > 4 THEN Int4(0) ELSE <<>>)
      [] s = "openDatabase" -> Int4(0) \o <<1, 1, 1, 0, Indicator + c.version, 0, 0, 0>> \o Int4(c.number)
      [] s = "engineVersion" -> Int4(0) \o c.text \o <<0>>
      [] s = "dbParameter" -> Int4(0) \o Int4(c.number)
      [] s = "responseCode" -> Int4(c.number)
      [] s = "lobNew" -> Int4(0) \o LobOctets("blob", c.lob)
      [] s = "lobRead" -> Int4(Len(c.text)) \o c.text

\* A CAS error may come without a message.
ErrorOctets(error) ==
    Int4(-1) \o Int4(error.code)
        \o (IF error.message = <<>> THEN <<>> ELSE error.message \o <<0>>)

Response(c, s) ==
    LET body == IF c.error # NoError /\ c.failing = s THEN ErrorOctets(c.error) ELSE Body(c, s)
    IN  Int4(Len(body)) \o Int4(0) \o body

\* What the server takes a parameter from.
ParamOctets(name, v) ==
    LET type == IF name = "varchar" THEN "string" ELSE name
        dated(fields) == Int4(14) \o Shorts2(fields)
        stamp == [v EXCEPT ![2] = @ + 1]
        sized == ValueOctets(type, v)
    IN  Int4(1) \o <<CUBRIDDataType[type]>> \o
        CASE type = "date" -> dated(SubSeq(stamp, 1, 3) \o <<0, 0, 0, 0>>)
          [] type = "time" -> dated(<<0, 0, 0>> \o SubSeq(v, 4, 6) \o <<0>>)
          [] type = "timestamp" -> dated(SubSeq(stamp, 1, 6) \o <<0>>)
          [] type = "datetime" -> dated(stamp)
          [] OTHER -> Int4(Len(sized)) \o sized

-----------------------------------------------------------------------------
(* What the server may hold: what it has the bytes for. *)

Fields(n) == [1..n -> Words]
Texts == {text \in Bytes : Len(text) + 1 \in Lengths}
LobHandles ==
    {lob \in [size : Nat, length : LongInts(Lengths), locator : Bytes] : lob.size = Len(lob.locator) + 17}

ValuesOf(type) ==
    CASE type \in TextTypes \cup {"numeric", "bit", "varbit"} -> Bytes
      [] type = "short" -> SignedWords
      [] type \in {"int", "resultset"} -> Ints
      [] type = "bigint" -> LongInts(Ints)
      [] type = "float" -> [1..4 -> 0..(Base - 1)]
      [] type \in {"double", "monetary"} -> [1..8 -> 0..(Base - 1)]
      [] type \in {"date", "time"} -> Fields(3)
      [] type = "timestamp" -> Fields(6)
      [] type = "datetime" -> Fields(7)
      [] type \in {"timestamptz", "timestampltz"} -> Fields(6) \X Bytes
      [] type \in {"datetimetz", "datetimeltz"} -> Fields(7) \X Bytes
      [] type = "object" -> Ints \X Words \X Words
      [] type \in SetTypes -> Lengths \X Lengths
      [] type \in LobTypes -> LobHandles

IsStored(sv) ==
    /\ sv.type \in Types \ {"null"}
    /\ sv.value = Null \/ ( /\ sv.value \in ValuesOf(sv.type)
                           /\ Len(ValueOctets(sv.type, sv.value)) + 1 \in Lengths)

IsList(list) == Len(list) \in Lengths /\ list = [i \in 1..Len(list) |-> list[i]]

IsColumn(column) ==
    /\ column.type \in Types /\ column.wide \in BOOLEAN /\ column.name \in Texts
    /\ column.wide \/ CUBRIDDataType[column.type] < Masked

\* Each value of a column has its type, if it has one.
IsRow(c, row) ==
    /\ IsList(row) /\ Len(row) = Len(c.columns)
    /\ \A j \in 1..Len(row) : IsStored(row[j]) /\ c.columns[j].type \in {"null", row[j].type}

ParamTypes == (Types \cup {"varchar"}) \ (ZonedTypes \cup {"null", "enum"})

\* What the user may give as a parameter; a Date for all but the time zones.
GivenAs(type) ==
    CASE type \in TextTypes \cup {"varchar", "numeric", "float", "double", "monetary", "bit", "varbit"} -> Bytes
      [] type \in {"short", "int", "resultset"} -> Int
      [] type = "bigint" -> LongInts(Int)
      [] type \in {"date", "time", "timestamp", "datetime"} -> [1..7 -> Int]
      [] type = "object" -> Int \X Int \X Int
      [] type \in SetTypes -> Int \X Int
      [] type \in LobTypes -> LobHandles

IsParam(param) ==
    /\ param.type \in ParamTypes
    /\ \/ param.type \in TextTypes \cup {"varchar"} /\ param.value = Null
       \/ param.value \in GivenAs(param.type)

IsStatement(c) ==
    /\ c.handle \in Lengths /\ c.statementType \in 0..(Base - 1)
    /\ IsList(c.columns) /\ IsList(c.rows) /\ IsList(c.params) /\ c.first \in 0..Len(c.rows)
    /\ \A j \in 1..Len(c.columns) : IsColumn(c.columns[j])
    /\ \A i \in 1..Len(c.rows) : IsRow(c, c.rows[i])
    /\ \A i \in 1..Len(c.params) : IsParam(c.params[i])

SchemaValuesOf(type) ==
    CASE type = "string" -> Texts [] type = "short" -> Words [] type = "int" -> Ints

IsSchema(c) ==
    /\ c.handle \in Lengths /\ IsList(c.rows)
    /\ \A i \in 1..Len(c.rows) :
          /\ IsList(c.rows[i]) /\ Len(c.rows[i]) = Len(SchemaColumns(c.schemaType))
          /\ \A j \in 1..Len(c.rows[i]) : c.rows[i][j] \in SchemaValuesOf(SchemaColumns(c.schemaType)[j])

IsError(error) == error \in [code : Ints, message : Texts]

\* The older brokers send the code of an error as the count.
IsBatch(c) ==
    /\ IsList(c.results)
    /\ \A i \in 1..Len(c.results) :
          LET result == c.results[i]
          IN  /\ result.count \in Ints /\ IsError(result.error)
              /\ result.count < 0 /\ c.version <= 2 => result.error.code = result.count

IsAnswer(c) ==
    CASE c.kind \in {"execute", "prepare"} -> IsStatement(c)
      [] c.kind = "requestSchema" -> IsSchema(c)
      [] c.kind = "batch" -> IsBatch(c)
      [] c.kind = "openDatabase" -> c.version \in 0..7 /\ c.number \in Ints
      [] c.kind = "dbParameter" -> c.number \in Ints
      [] c.kind = "responseCode" -> c.number \in Lengths
      [] c.kind \in {"engineVersion", "lobRead"} -> c.text \in Bytes
      [] c.kind = "lobNew" -> c.lob \in LobHandles

StagesOf(kind) ==
    {kind} \cup (CASE kind = "execute" -> {"fetch"}
                 [] kind = "prepare" -> {"executePrepared", "fetch"}
                 [] kind = "requestSchema" -> {"fetchSchema"}
                 [] OTHER -> {})

\* The length of a response, too, is told in four bytes.
ASSUME CallsAssumption ==
    \A c \in Calls :
        /\ c.kind \in Kinds /\ c.version \in Nat /\ IsError(c.error) /\ IsAnswer(c)
        /\ Len(ErrorOctets(c.error)) \in Lengths
        /\ \A s \in StagesOf(c.kind) : Len(Body(c, s)) \in Lengths

-----------------------------------------------------------------------------
(* The parser. *)

\* One field of a response, by the method that reads it; an oid is eight bytes,
\* and the length before a number of a schema is not looked at.
ParseField(kind, at) ==
    CASE kind = "byte" -> ParseByte(buffer, at)
      [] kind = "short" -> ParseShort(buffer, at)
      [] kind = "int" -> ParseInt(buffer, at)
      [] kind = "oid" -> ParseBytes(buffer, at, 8)
      [] kind = "sizedShort" -> ParseShort(buffer, at + 4)
      [] kind = "sizedInt" -> ParseInt(buffer, at + 4)
      [] kind = "string" ->
            ParseNullTerminatedString(buffer, at + 4, ParseInt(buffer, at).value)

\* Where each of successive fields ends, and their values.
FieldEnds(kinds, at) ==
    LET end[n \in 0..Len(kinds)] ==
          IF n = 0 THEN at ELSE ParseField(kinds[n], end[n - 1]).offset
    IN  end
Parse(kinds, at) ==
    ReadAs([n \in 1..Len(kinds) |-> ParseField(kinds[n], FieldEnds(kinds, at)[n - 1]).value],
           FieldEnds(kinds, at)[Len(kinds)])

NoPacket ==
    [code |-> 0, length |-> 0, statementType |-> 0, columnCount |-> 0, infoArray |-> <<>>,
     resultCount |-> 0, resultInfos |-> 0, tupleCount |-> 0, rows |-> <<>>, read |-> 0,
     currentTupleCount |-> 0, executedCount |-> 0, results |-> <<>>, errors |-> <<>>,
     value |-> Null, error |-> NoError]

Counts == {"code", "length", "statementType", "columnCount", "resultCount", "resultInfos",
           "tupleCount", "read", "currentTupleCount", "executedCount"}

\* A cursor that has lost its place may go anywhere, even below 0.
TypeOK ==
    /\ call \in Calls
    /\ stage \in StagesOf(call.kind)
    /\ offset \in Int
    /\ pc \in {"header", "statement", "columns", "counts", "results", "tail", "tuples",
               "rows", "schema", "schemaRows", "batch", "executed", "value", "done"}
    /\ buffer \in Bytes
    /\ request \in Bytes
    /\ DOMAIN packet = DOMAIN NoPacket
    /\ \A count \in Counts : packet[count] \in Int

Init ==
    /\ call \in Calls
    /\ stage = call.kind
    /\ buffer = Response(call, stage)
    /\ offset = 0
    /\ pc = "header"
    /\ packet = NoPacket
    /\ request = <<>>

\* A new PacketReader holds the next response.
Expect(s) ==
    /\ stage' = s
    /\ buffer' = Response(call, s)
    /\ offset' = 0
    /\ pc' = "header"
    /\ UNCHANGED call

Goto(part, r, fields) ==
    /\ pc' = part
    /\ offset' = r.offset
    /\ packet' = fields
    /\ UNCHANGED <<call, stage, buffer, request>>

\* The response code and the error code come before the message.
MessageLength(length) == length - 2 * 4

Failed(code) == IF stage \in {"fetch", "fetchSchema"} THEN code # 0 ELSE code < 0

FirstPart ==
    CASE stage \in {"execute", "prepare"} -> "statement"
      [] stage = "executePrepared" -> "counts"
      [] stage = "fetch" -> "tuples"
      [] stage \in {"requestSchema", "fetchSchema"} -> "schema"
      [] stage = "batch" -> "batch"
      [] OTHER -> "value"

\* Length, CAS info, response code; an error by readError().
ParseHeader ==
    /\ pc = "header"
    /\ LET r == Parse(<<"int", "int", "int">>, offset)
           length == r.value[1]
           code == r.value[3]
           number == ParseInt(buffer, r.offset)
           message == ParseNullTerminatedString(buffer, number.offset, MessageLength(length))
       IN  IF Failed(code)
           THEN Goto("done", message,
                     [packet EXCEPT !.error = [code |-> number.value, message |-> message.value]])
           ELSE Goto(FirstPart, r, [packet EXCEPT !.code = code, !.length = length])

\* Cache lifetime, statement type, bind count, updatable, column count.
ParseStatement ==
    /\ pc = "statement"
    /\ LET r == Parse(<<"int", "byte", "int", "byte", "int">>, offset)
       IN  Goto("columns", r, [packet EXCEPT !.statementType = r.value[2], !.columnCount = r.value[5]])

\* One byte, or two when the first has the mask's bit.
ParseColumnType(at) ==
    LET legacy == ParseByte(buffer, at)
    IN  IF (legacy.value \div Masked) % 2 = 1 THEN ParseByte(buffer, legacy.offset) ELSE legacy

\* Scale, precision, name; of a statement's columns also the real name, table,
\* nullable, default and seven flags.
ColumnFields ==
    <<"short", "int", "string">> \o
    (IF stage = "requestSchema" THEN <<>>
     ELSE <<"string", "string", "byte", "string">> \o [i \in 1..7 |-> "byte"])

AfterColumns == CASE stage = "execute" -> "counts" [] OTHER -> "done"

ParseColumn ==
    /\ pc = "columns"
    /\ IF Len(packet.infoArray) < packet.columnCount
       THEN LET type == ParseColumnType(offset)
                r == Parse(ColumnFields, type.offset)
            IN  Goto("columns", r,
                     [packet EXCEPT !.infoArray =
                        Append(@, [ColumnType |-> type.value, Name |-> r.value[3]])])
       ELSE Goto(AfterColumns, ReadAs(Null, offset), packet)

\* The row count (of a prepared statement it was the response code), cache
\* reusable, result count.
ParseCounts ==
    /\ pc = "counts"
    /\ LET r == Parse((IF stage = "execute" THEN <<"int">> ELSE <<>>) \o <<"byte", "int">>, offset)
       IN  Goto("results", r, [packet EXCEPT !.resultCount = Last(r.value), !.resultInfos = 0])

\* Statement type, result count, OID, seconds and milliseconds of the cache.
ParseResultInfo ==
    /\ pc = "results"
    /\ IF packet.resultInfos < packet.resultCount
       THEN Goto("results", Parse(<<"byte", "int", "oid", "int", "int">>, offset),
                 [packet EXCEPT !.resultInfos = @ + 1])
       ELSE Goto("tail", ReadAs(Null, offset), packet)

TailOfNewest == IF call.version > 4 THEN <<"byte", "int">> ELSE <<>>

\* include_column_info and the shard, as the protocol version has them.
TailFields ==
    (IF call.version > 1 THEN <<"byte">> ELSE <<>>) \o
    (IF call.version > 4 THEN <<"int">> ELSE <<>>)

ParseTail ==
    /\ pc = "tail"
    /\ LET r == Parse(TailFields, offset)
       IN  IF packet.statementType = SELECT
           THEN Goto("tuples", r, [packet EXCEPT !.currentTupleCount = 0])
           ELSE Goto("done", r, packet)

\* The fetch code, which a fetch has as its response code, and the tuple count.
ParseTuples ==
    /\ pc = "tuples"
    /\ LET r == Parse((IF stage = "fetch" THEN <<>> ELSE <<"int">>) \o <<"int">>, offset)
       IN  Goto("rows", r, [packet EXCEPT !.tupleCount = Last(r.value), !.read = 0])

Protocol == IF call.kind = "prepare" THEN "old" ELSE "new"

\* One value of a row: its size, the type if the column has none, the value.  The
\* rows of a CALL would all be typed so, but only those of a SELECT are read.
ParseCell(columnType, at) ==
    LET size == ParseInt(buffer, at).value
    IN  IF size <= 0 THEN ReadAs(Null, at + 4)
        ELSE IF columnType = CUBRIDDataType["null"]
        THEN ReadValue(Protocol, ByteAt(buffer, at + 4), size - 1, buffer, at + 5)
        ELSE ReadValue(Protocol, columnType, size, buffer, at + 4)

\* Where the value of each column ends in a row, and the values.
CellEnds(columns, at) ==
    LET end[j \in 0..Len(columns)] ==
          IF j = 0 THEN at ELSE ParseCell(columns[j].ColumnType, end[j - 1]).offset
    IN  end
ParseCells(columns, at) ==
    ReadAs([j \in 1..Len(columns) |->
                ParseCell(columns[j].ColumnType, CellEnds(columns, at)[j - 1]).value],
           CellEnds(columns, at)[Len(columns)])

\* getValues(), a row at a time: index, OID, the values of the columns.
ParseRow ==
    /\ pc = "rows"
    /\ IF packet.read < packet.tupleCount
       THEN LET r == ParseCells(packet.infoArray, Parse(<<"int", "oid">>, offset).offset)
            IN  Goto("rows", r, [packet EXCEPT !.rows = Append(@, r.value), !.read = @ + 1])
       ELSE Goto("done", ReadAs(Null, offset),
                 [packet EXCEPT !.currentTupleCount = @ + packet.tupleCount])

\* The fields parseFetchSchema() reads by the type of the schema; of other types
\* it reads none.
SchemaFields(schemaType) ==
    CASE schemaType \in {1, 2} -> <<"string", "sizedShort">>
      [] schemaType = 4 ->
            <<"string", "sizedShort", "sizedShort", "sizedInt", "sizedShort", "sizedShort",
              "sizedShort", "sizedShort", "string", "sizedInt", "string", "string", "sizedShort">>
      [] schemaType = 11 ->
            <<"sizedShort", "string", "string", "sizedShort", "sizedShort", "sizedShort",
              "sizedShort">>
      [] schemaType \in {17, 18} ->
            <<"string", "string", "string", "string", "sizedShort", "sizedShort", "sizedShort",
              "string", "string">>
      [] schemaType = 16 -> <<"string", "string", "sizedInt", "string">>
      [] schemaType = 13 -> <<"string", "string", "string">>
      [] OTHER -> <<>>

\* The number of rows and columns of the request, the number of rows of the fetch.
ParseSchema ==
    /\ pc = "schema"
    /\ IF stage = "requestSchema"
       THEN LET r == Parse(<<"int", "int">>, offset)
            IN  Goto("columns", r, [packet EXCEPT !.tupleCount = r.value[1], !.columnCount = r.value[2]])
       ELSE LET r == Parse(<<"int">>, offset)
            IN  Goto("schemaRows", r, [packet EXCEPT !.tupleCount = r.value[1], !.read = 0])

\* One row of parseFetchSchema(): index, OID, fields.
ParseSchemaRow ==
    /\ pc = "schemaRows"
    /\ IF packet.read < packet.tupleCount
       THEN LET r == Parse(<<"int", "oid">> \o SchemaFields(call.schemaType), offset)
            IN  Goto("schemaRows", r,
                     [packet EXCEPT !.rows = Append(@, SubSeq(r.value, 3, Len(r.value))),
                                    !.read = @ + 1])
       ELSE Goto("done", ReadAs(Null, offset), packet)

ParseBatch ==
    /\ pc = "batch"
    /\ LET r == Parse(<<"int">>, offset)
       IN  Goto("executed", r, [packet EXCEPT !.executedCount = r.value[1]])

\* The result of one statement of a batch: its type and the rows it changed, or
\* an error, whose code newer brokers send apart.
ParseExecuted ==
    /\ pc = "executed"
    /\ IF packet.read < packet.executedCount
       THEN LET head == Parse(<<"byte", "int">>, offset)
                count == head.value[2]
                number == IF call.version > 2 THEN ParseInt(buffer, head.offset)
                          ELSE ReadAs(count, head.offset)
                message == Parse(<<"string">>, number.offset)
            IN  IF count < 0
                THEN Goto("executed", message,
                          [packet EXCEPT !.read = @ + 1,
                             !.errors = Append(@, [code |-> number.value,
                                                   message |-> message.value[1]])])
                ELSE Goto("executed", Parse(<<"int", "short", "short">>, head.offset),
                          [packet EXCEPT !.read = @ + 1, !.results = Append(@, count)])
       ELSE Goto("done", Parse(IF call.version > 4 THEN <<"int">> ELSE <<>>, offset), packet)

\* The protocol version in the broker's info; unknown ones count as the latest.
ProtocolVersion(byte) == IF byte - Indicator \in 0..7 THEN byte - Indicator ELSE 7

\* The responses that are a single value.
ParseValue ==
    /\ pc = "value"
    /\ LET rest == packet.length - 4
           value ==
             CASE stage = "openDatabase" ->
                    LET id == ParseInt(buffer, offset + 8)
                    IN  ReadAs([version |-> ProtocolVersion(ByteAt(buffer, offset + 4)),
                                sessionId |-> id.value], id.offset)
               [] stage = "engineVersion" -> ParseNullTerminatedString(buffer, offset, rest)
               [] stage = "dbParameter" -> ParseInt(buffer, offset)
               [] stage = "responseCode" -> ReadAs(packet.code, offset)
               [] stage = "lobRead" -> ParseBytes(buffer, offset, packet.code)
               [] stage = "lobNew" -> ReadAs(Slice(buffer, offset + 16, rest - 16 - 1), offset + rest)
       IN  Goto("done", value, [packet EXCEPT !.value = value.value])

\* The execution of what was prepared, with its parameters in order.
ExecutePrepared ==
    /\ pc = "done" /\ stage = "prepare" /\ packet.error = NoError
    /\ request' = FlattenSeq([i \in DOMAIN call.params |->
                        WriteParamValue(call.params[i].type, call.params[i].value)])
    /\ Expect("executePrepared")
    /\ UNCHANGED packet

FetchSchema ==
    /\ pc = "done" /\ stage = "requestSchema" /\ packet.error = NoError
    /\ Expect("fetchSchema")
    /\ UNCHANGED <<packet, request>>

\* A fetch() of what the first response left; its rows go through the packet of
\* the statement.
Fetch ==
    /\ pc = "done" /\ stage \in {"execute", "executePrepared"} /\ packet.error = NoError
    /\ packet.statementType = SELECT
    /\ packet.currentTupleCount < Len(call.rows)
    /\ Expect("fetch")
    /\ UNCHANGED <<packet, request>>

Next ==
    \/ ParseHeader \/ ParseStatement \/ ParseColumn \/ ParseCounts \/ ParseResultInfo
    \/ ParseTail \/ ParseTuples \/ ParseRow \/ ParseSchema \/ ParseSchemaRow
    \/ ParseBatch \/ ParseExecuted \/ ParseValue
    \/ ExecutePrepared \/ FetchSchema \/ Fetch

Spec == Init /\ [][Next]_vars

-----------------------------------------------------------------------------
(* What should come of it. *)

\* The stored values a response of rows has delivered so far.
Sent == {call.rows[i][j] : i \in DOMAIN packet.rows, j \in DOMAIN call.columns}

\* _readValue() of the old protocol does not advance over a date with a time
\* zone, nor parseFetchSchema() over a row of a type it does not list.
InStep ==
    /\ call.kind = "prepare" => \A sv \in Sent : sv.value = Null \/ sv.type \notin ZonedTypes
    /\ stage = "fetchSchema" => SchemaFields(call.schemaType) # <<>> \/ call.rows = <<>>

\* A parser ends exactly at the end of its response, whatever the columns, rows,
\* protocol version and error: no field is missed or read twice.
ResponseConsumed == pc = "done" /\ InStep => offset = Len(buffer)

Fits(long) == long.hi = (IF long.lo < IntSpan \div 2 THEN 0 ELSE -1)

\* What can be given back: by the 32 bits of parseNum() no negative SHORT, no BIGINT
\* and no length of a LOB beyond them; an empty string of bits looks like null.
Readable(sv) ==
    sv.value = Null \/
    CASE sv.type = "short" -> sv.value >= 0
      [] sv.type = "bigint" -> Fits(sv.value)
      [] sv.type \in LobTypes -> Fits(sv.value.length)
      [] sv.type \in {"bit", "varbit"} -> sv.value # <<>>
      [] OTHER -> TRUE

\* What the user should get for a stored value.
Meant(sv) ==
    LET date(f) == [f EXCEPT ![2] = @ - 1]
        v == sv.value
    IN  IF v = Null THEN Null ELSE
        CASE sv.type = "date" -> date(v) \o <<0, 0, 0, 0>>
          [] sv.type = "time" -> <<1970, 0, 1>> \o v \o <<0>>
          [] sv.type = "timestamp" -> date(v) \o <<0>>
          [] sv.type = "datetime" -> date(v)
          [] sv.type \in {"timestamptz", "timestampltz"} -> <<date(v[1]) \o <<0>>, v[2]>>
          [] sv.type \in {"datetimetz", "datetimeltz"} -> <<date(v[1]), v[2]>>
          [] sv.type \in SetTypes \cup {"resultset"} -> Null
          [] OTHER -> v

\* Each value of each row is the one that is stored, under its column's name and
\* type, across the first response and the fetch; values that cannot be read
\* leave the others as they are.
RowsAsStored ==
    pc = "done" /\ InStep /\ call.kind \in {"execute", "prepare"} =>
        /\ \A i \in DOMAIN packet.infoArray :
              packet.infoArray[i] = [ColumnType |-> CUBRIDDataType[call.columns[i].type],
                                     Name |-> call.columns[i].name]
        /\ \A i \in DOMAIN packet.rows, j \in DOMAIN packet.infoArray :
              Readable(call.rows[i][j]) => packet.rows[i][j] = Meant(call.rows[i][j])
        /\ Len(packet.rows) = packet.currentTupleCount

\* What each statement of a batch adds to the results and to the errors.
CountsSent ==
    [i \in DOMAIN call.results |->
        IF call.results[i].count < 0 THEN <<>> ELSE <<call.results[i].count>>]
ErrorsSent ==
    [i \in DOMAIN call.results |->
        IF call.results[i].count < 0 THEN <<call.results[i].error>> ELSE <<>>]

\* The other answers come out as they were sent: rows of a schema, the results and
\* errors of a batch, single values, and the code and message of an error.
OthersAsSent ==
    pc = "done" /\ InStep =>
        /\ packet.error = (IF call.failing = stage THEN call.error ELSE NoError)
        /\ stage = "fetchSchema" /\ packet.error = NoError => packet.rows = call.rows
        /\ stage = "batch" /\ packet.error = NoError =>
              packet.results = All(CountsSent) /\ packet.errors = All(ErrorsSent)
        /\ stage \in {"engineVersion", "lobRead"} /\ packet.error = NoError =>
              packet.value = call.text
        /\ stage \in {"dbParameter", "responseCode"} /\ packet.error = NoError =>
              packet.value = call.number
        /\ stage = "lobNew" /\ packet.error = NoError => packet.value = call.lob.locator
        /\ stage = "openDatabase" /\ packet.error = NoError =>
              packet.value = [version |-> call.version, sessionId |-> call.number]

AnswersAsSent == RowsAsStored /\ OthersAsSent

\* What the driver writes as the value it was given: not so a negative BIGINT, a
\* null (a text is written as '', but Buffer.byteLength() throws on it or takes it
\* for 'null' when the length is predicted), and the types it only has a placeholder for.
Writable(param) ==
    /\ param.value # Null
    /\ param.type \notin SetTypes \cup {"object", "resultset", "null"}
    /\ param.type = "bigint" => param.value.hi >= 0

\* The parameters of an execution reach the server as they were given.
ParamsAsGiven ==
    stage = "executePrepared" /\ (\A i \in DOMAIN call.params : Writable(call.params[i])) =>
        request = FlattenSeq([i \in DOMAIN call.params |->
                        ParamOctets(call.params[i].type, call.params[i].value)])
=============================================================================

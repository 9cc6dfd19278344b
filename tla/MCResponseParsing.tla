-------------------------- MODULE MCResponseParsing -------------------------
(***************************************************************************)
(* Calls for TLC: statements of a column of every type beside one of INT,   *)
(* which shows whether the first was read to its end, with up to two rows   *)
(* in one or two responses; parameters of every type in twos; schemas of    *)
(* every type; batches of up to two statements; an error at every response. *)
(* With 64 values to a byte the numbers of all types have their own value,  *)
(* and an integer of four bytes has 24 bits.                                *)
(***************************************************************************)
EXTENDS ResponseParsing, FiniteSets

Long(hi, lo) == [hi |-> hi, lo |-> lo]
Letters == {<<>>, <<7, 63>>}
Longs == {Long(0, 70), Long(-1, IntSpan - 1), Long(-1, IntSpan \div 2), Long(1, 5), Long(-2, 0)}
Lob(length) == [size |-> 19, length |-> length, locator |-> <<9, 8>>]
Stamp == <<2024, 2, 29, 23, 59, 58>>
Zone == <<40, 41>>

\* Values the server may hold, by type.
Samples(type) ==
    CASE type \in TextTypes -> Letters
      [] type = "numeric" -> {<<12, 46, 13>>}
      [] type = "short" -> {5, 2047, -3}
      [] type = "int" -> {70, -1, IntSpan \div 2 - 1, -(IntSpan \div 2)}
      [] type = "resultset" -> {3}
      [] type = "bigint" -> Longs
      [] type = "float" -> {<<1, 2, 3, 4>>}
      [] type \in {"double", "monetary"} -> {<<1, 2, 3, 4, 5, 6, 7, 8>>}
      [] type = "date" -> {<<2024, 2, 29>>, <<1, 1, 1>>}
      [] type = "time" -> {<<23, 59, 58>>}
      [] type = "timestamp" -> {Stamp}
      [] type = "datetime" -> {Stamp \o <<999>>}
      [] type \in {"timestamptz", "timestampltz"} -> {<<Stamp, Zone>>}
      [] type \in {"datetimetz", "datetimeltz"} -> {<<Stamp \o <<999>>, Zone>>}
      [] type = "object" -> {<<90, 3, 1>>}
      [] type \in {"bit", "varbit"} -> {<<33>>, <<>>}
      [] type \in SetTypes -> {<<2, 3>>, <<0, 0>>}
      [] type \in LobTypes -> {Lob(Long(0, 80)), Lob(Long(1, 0))}

Sample(type) == CHOOSE v \in Samples(type) : TRUE
Stored(type, v) == [type |-> type, value |-> v]
Cell(type) == {Stored(type, v) : v \in Samples(type)}
Column(type, wide) == [type |-> type, wide |-> wide, name |-> <<3>>]

\* Whether the column has a type or its values have.
Columns(type, typed) ==
    <<Column(IF typed THEN type ELSE "null", CUBRIDDataType[type] > 15), Column("int", FALSE)>>
RowsOf(cells) == {<<cell, Stored("int", 77)>> : cell \in cells}
TwoRows(type) ==
    {<<a, b>> : a \in RowsOf(Cell(type)), b \in RowsOf({Stored(type, Sample(type)), Stored(type, Null)})}

Error == [code |-> -5, message |-> <<4, 5>>]
Call(kind, version) == [kind |-> kind, version |-> version, error |-> NoError, failing |-> "none"]
Select(kind, version, columns, rows, first) ==
    Call(kind, version) @@
    [handle |-> 6, statementType |-> SELECT, columns |-> columns, rows |-> rows, first |-> first,
     params |-> <<>>]

ValueTypes == Types \ {"null"}
Selects ==
    UNION {{Select(kind, 5, Columns(type, typed), rows, first) :
                kind \in {"execute", "prepare"}, typed \in BOOLEAN, rows \in TwoRows(type),
                first \in 1..2} : type \in ValueTypes} \cup
    {Select(kind, version, columns, <<>>, 0) :
        kind \in {"execute", "prepare"}, version \in {1, 2, 5},
        columns \in {<<>>, <<Column("int", TRUE)>>}}
NonSelects ==
    {[Select("execute", version, <<>>, <<>>, 0) EXCEPT !.statementType = 20] : version \in {1, 2, 5}}

\* What a parameter is given as; dates as the Date of JavaScript.
Given(type) ==
    IF type \in {"date", "time", "timestamp", "datetime"} THEN {<<2024, 0, 31, 23, 59, 58, 999>>}
    ELSE Samples(type)
Params == UNION {{[type |-> type, value |-> v] : v \in Given(type)} : type \in ParamTypes \ {"varchar"}}
              \cup {[type |-> "string", value |-> Null], [type |-> "varchar", value |-> <<7>>]}
Prepared ==
    {[Select("prepare", 1, <<>>, <<>>, 0) EXCEPT !.statementType = 20, !.params = params] :
        params \in {<<p>> : p \in Params} \cup {<<p, [type |-> "int", value |-> 7]>> : p \in Params}}

SchemaTypes == {1, 2, 4, 11, 13, 16, 17, 12}
SchemaValue(type) == IF type = "string" THEN <<8, 9>> ELSE 6
SchemaRows(t) ==
    LET row == [j \in DOMAIN SchemaColumns(t) |-> SchemaValue(SchemaColumns(t)[j])]
        bare == [j \in DOMAIN row |-> IF SchemaColumns(t)[j] = "string" THEN <<>> ELSE 6]
    IN  {<<>>, <<row>>, <<row, bare>>}
Schemas ==
    UNION {{Call("requestSchema", 5) @@ [handle |-> 6, schemaType |-> t, rows |-> rows] :
                rows \in SchemaRows(t)} : t \in SchemaTypes}

Result == [count : {0, 3}, error : {NoError}] \cup [count : {-1}, error : {[Error EXCEPT !.code = -1]}]
Batches ==
    {Call("batch", version) @@ [results |-> results] :
        version \in {2, 3, 5}, results \in {<<>>} \cup {<<a>> : a \in Result} \cup (Result \X Result)}

Values ==
    {Call("openDatabase", version) @@ [number |-> 99] : version \in {0, 4, 7}} \cup
    {Call("engineVersion", 5) @@ [text |-> <<10, 11>>],
     Call("dbParameter", 5) @@ [number |-> 300], Call("responseCode", 5) @@ [number |-> 2],
     Call("lobNew", 5) @@ [lob |-> Lob(Long(0, 0))],
     Call("lobRead", 5) @@ [text |-> <<>>], Call("lobRead", 5) @@ [text |-> <<1, 2>>]}

\* Every kind of response may be an error, with a message or without.
Second == [prepare |-> "executePrepared", requestSchema |-> "fetchSchema", execute |-> "fetch"]
Failing ==
    LET some == {Select(kind, 5, Columns("char", TRUE), <<row, row>>, 1) :
                    kind \in {"execute", "prepare"}, row \in RowsOf(Cell("char"))}
                \cup Schemas \cup Batches \cup Values
    IN  UNION {{[c EXCEPT !.error = e, !.failing = s] :
                    s \in {c.kind} \cup (IF c.kind \in DOMAIN Second THEN {Second[c.kind]} ELSE {})} :
               c \in some, e \in {Error, [Error EXCEPT !.message = <<>>]}}

MCCalls == Selects \cup NonSelects \cup Prepared \cup Schemas \cup Batches \cup Values \cup Failing
=============================================================================

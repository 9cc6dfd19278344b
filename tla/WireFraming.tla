---------------------------- MODULE WireFraming -----------------------------
(***************************************************************************)
(* One exchange on the wire.  A request is written field by field into a    *)
(* buffer whose length getBufferLength() predicts; the prediction is also   *)
(* what the header announces, and the whole buffer goes to the socket.  So  *)
(* prediction and fields, written down apart in each packet, have to agree, *)
(* or the server is left with a request cut short or with a stray rest.     *)
(* The response comes back in whatever pieces TCP makes of it.              *)
(*                                                                          *)
(* A field is its size in bytes, a text its number of characters and bytes. *)
(***************************************************************************)
EXTENDS Naturals, Sequences, SequencesExt, FiniteSetsExt

CONSTANTS
    Texts,      \* of SQL statements and string parameters: [chars, bytes]
    Patterns,   \* table name patterns of getSchema
    Versions,   \* protocol versions of the broker
    MaxTexts,   \* bound: statements of a batch, parameters of an execute
    Responses   \* the lengths of the responses

None == [chars |-> 0, bytes |-> 0]

ASSUME FramingAssumption ==
    /\ Texts \cup Patterns \subseteq [chars : Nat, bytes : Nat]
    /\ \A pattern \in Patterns : pattern.chars = pattern.bytes
    /\ Versions \subseteq Nat
    /\ MaxTexts \in Nat
    /\ Responses \subseteq Nat /\ \A n \in Responses : n >= 8
    /\ \E longest \in Responses : \A n \in Responses : n <= longest

VARIABLES
    packet,    \* the request being written
    todo,      \* its fields still to be written
    offset,    \* PacketWriter._offset
    capacity,  \* the length of PacketWriter._buffer
    declared,  \* the length in the request's header, and 8
    phase,     \* "idle", "writing", "sent", "answered"
    listener,  \* the 'data' listener: "none", _receive"First"Bytes, "remaining"
    response,  \* the length of the response
    total,     \* _totalBuffLength
    expected   \* _expectedResponseLength; 0 while it is invalid

writerVars == <<packet, todo, offset, capacity, declared>>
readerVars == <<listener, response, total, expected>>
vars == <<writerVars, phase, readerVars>>

-----------------------------------------------------------------------------
(* The requests: the fields write() writes and the length getBufferLength()  *)
(* predicts for them: 9 bytes (length, CAS info, function code) and the rest.*)

\* PacketWriter: an argument of n bytes behind its length; a string behind its
\* length, terminated.
Arg(n) == <<4, n>>
String(text) == <<4, text.bytes, 1>>
Header == <<4, 4, 1>>

CloseDatabasePacket == [fields |-> Header, length |-> 9]
CommitPacket == [fields |-> Header \o Arg(1), length |-> 9 + 4 + 1]
RollbackPacket == [fields |-> Header \o Arg(1), length |-> 9 + 4 + 1]
GetEngineVersionPacket == [fields |-> Header \o Arg(1), length |-> 9 + 4 + 1]
CloseQueryPacket == [fields |-> Header \o Arg(4) \o Arg(1), length |-> 9 + 4 + 4 + 4 + 1]
GetDbParameterPacket == [fields |-> Header \o Arg(4), length |-> 9 + 4 + 4]
SetDbParameterPacket == [fields |-> Header \o Arg(4) \o Arg(4), length |-> 9 + 4 + 4 + 4 + 4]
LOBNewPacket == [fields |-> Header \o Arg(4), length |-> 9 + 4 + 4]
\* The names are padded to 32 bytes (longer ones are written in full).
OpenDatabasePacket == [fields |-> <<32, 32, 32, 512, 20>>, length |-> 3 * 32 + 512 + 20]
ClientInfoExchangePacket == [fields |-> <<5, 1, 1, 1, 1, 1>>, length |-> 5 + 5]
FetchPacket ==
    [fields |-> Header \o Arg(4) \o Arg(4) \o Arg(4) \o Arg(1) \o Arg(4),
     length |-> 9 + 7 * 4 + 1 + 2 * 4]
FetchSchemaPacket ==
    [fields |-> Header \o Arg(4) \o Arg(4) \o Arg(4) \o Arg(1) \o Arg(4),
     length |-> 9 + 7 * 4 + 1 + 2 * 4]

\* The length of a pattern is that of its characters, so patterns are ASCII here.
GetSchemaPacket(p) ==
    [fields |-> Header \o Arg(4) \o (IF p.text = None THEN <<4>> ELSE String(p.text)) \o <<4>>
                       \o Arg(1) \o (IF p.version > 4 THEN Arg(4) ELSE <<>>),
     length |-> 9 + 3 * 4 + (IF p.text = None THEN 0 ELSE p.text.chars + 1) + 2 * 4 + 1
                  + (IF p.version > 4 THEN 2 * 4 ELSE 0)]

ExecuteQueryPacket(p) ==
    [fields |-> Header \o Arg(4) \o String(p.text) \o Arg(1) \o Arg(1) \o Arg(1) \o Arg(4)
                       \o Arg(4) \o <<4>> \o <<4, 4, 4>> \o Arg(4),
     length |-> 9 + 3 * 4 + p.text.bytes + 1 + 3 * (4 + 1) + 10 * 4]

LOBReadPacket(p) ==
    [fields |-> Header \o Arg(p.text.bytes) \o Arg(8) \o Arg(4),
     length |-> 9 + 4 + p.text.bytes + 4 + 8 + 2 * 4]

LOBWritePacket(p) ==
    [fields |-> Header \o Arg(p.text.bytes) \o Arg(8) \o Arg(p.data.bytes),
     length |-> 9 + 4 + p.text.bytes + 4 + 8 + 4 + p.data.bytes]

\* What the loops of getBufferLength() add up: the first i sizes, and all.
UpTo(sizes) ==
    LET sum[i \in 0..Len(sizes)] == IF i = 0 THEN 0 ELSE sum[i - 1] + sizes[i]
    IN  sum
Total(sizes) == UpTo(sizes)[Len(sizes)]

TimeoutForgotten(version) == 0

\* The query timeout of a batch, which newer brokers expect.
TimeoutLength(version) == IF version > 3 THEN 2 * 4 ELSE 0

BatchExecuteNoQueryPacket(p) ==
    [fields |-> Header \o Arg(1) \o (IF p.version > 3 THEN Arg(4) ELSE <<>>)
                       \o FlattenSeq([i \in DOMAIN p.texts |-> String(p.texts[i])]),
     length |-> 9 + 4 + 1 + TimeoutLength(p.version) + 4 * Len(p.texts) + Len(p.texts)
                  + Total([i \in DOMAIN p.texts |-> p.texts[i].bytes])]

PreparePacket(p) ==
    [fields |-> Header \o String(p.text) \o Arg(1) \o Arg(1),
     length |-> 9 + 4 + p.text.bytes + 1 + 2 * (4 + 1)]

\* CHAR and the like, and NUMERIC, are text; DATE stands for all four of date and
\* time, OBJECT for the collections, which are sent as a zero byte.
ParamTypes == {"text", "short", "int", "bigint", "float", "double", "date", "object",
               "resultset", "bit", "lob"}
Param == [type : ParamTypes, text : Texts]
ParamSize == [short |-> 2, int |-> 4, bigint |-> 8, float |-> 4, double |-> 8, date |-> 14]

WriteParamValue(param) ==
    Arg(1) \o
    CASE param.type = "text" -> String(param.text)
      [] param.type \in {"object", "resultset"} -> <<4, 1>>
      [] param.type = "bit" -> Arg(param.text.bytes)
      [] param.type = "lob" -> <<4, 4, 4, 4>> \o String(param.text)
      [] OTHER -> Arg(ParamSize[param.type])

ParamValueLength(param) ==
    4 + 1 +
    CASE param.type = "text" -> 4 + param.text.bytes + 1
      [] param.type \in {"object", "resultset"} -> 4 + 1
      [] param.type = "bit" -> 4 + param.text.bytes
      [] param.type = "lob" -> 2 * 4 + 8 + 4 + param.text.bytes + 1
      [] OTHER -> 4 + ParamSize[param.type]

ExecutePacket(p) ==
    [fields |-> Header \o Arg(4) \o Arg(1) \o Arg(4) \o Arg(4) \o <<4>> \o Arg(1) \o Arg(1)
                       \o Arg(1) \o <<4, 4, 4>> \o Arg(4)
                       \o FlattenSeq([i \in DOMAIN p.params |-> WriteParamValue(p.params[i])]),
     length |-> 9 + 16 * 4 + 4 * 1 + Total([i \in DOMAIN p.params |-> ParamValueLength(p.params[i])])]

Fixed ==
    [CloseDatabase |-> CloseDatabasePacket, Commit |-> CommitPacket,
     Rollback |-> RollbackPacket, GetEngineVersion |-> GetEngineVersionPacket,
     CloseQuery |-> CloseQueryPacket, GetDbParameter |-> GetDbParameterPacket,
     SetDbParameter |-> SetDbParameterPacket, LOBNew |-> LOBNewPacket,
     OpenDatabase |-> OpenDatabasePacket, ClientInfoExchange |-> ClientInfoExchangePacket,
     Fetch |-> FetchPacket, FetchSchema |-> FetchSchemaPacket]

Packets ==
    [kind : DOMAIN Fixed] \cup
    [kind : {"ExecuteQuery", "Prepare", "LOBRead"}, text : Texts] \cup
    [kind : {"LOBWrite"}, text : Texts, data : Texts] \cup
    [kind : {"GetSchema"}, text : Patterns \cup {None}, version : Versions] \cup
    [kind : {"Batch"}, texts : BoundedSeq(Texts, MaxTexts), version : Versions] \cup
    [kind : {"Execute"}, params : BoundedSeq(Param, MaxTexts)]

Layout(p) ==
    CASE p.kind \in DOMAIN Fixed -> Fixed[p.kind]
      [] p.kind = "ExecuteQuery" -> ExecuteQueryPacket(p)
      [] p.kind = "Prepare" -> PreparePacket(p)
      [] p.kind = "Execute" -> ExecutePacket(p)
      [] p.kind = "LOBRead" -> LOBReadPacket(p)
      [] p.kind = "LOBWrite" -> LOBWritePacket(p)
      [] p.kind = "GetSchema" -> GetSchemaPacket(p)
      [] p.kind = "Batch" -> BatchExecuteNoQueryPacket(p)

-----------------------------------------------------------------------------
TypeOK ==
    /\ packet \in Packets
    /\ todo \in Seq(Nat)
    /\ offset \in Nat
    /\ capacity \in Nat
    /\ declared \in Nat
    /\ phase \in {"idle", "writing", "sent", "answered"}
    /\ listener \in {"none", "first", "remaining"}
    /\ response \in Responses \cup {0}
    /\ total \in Nat
    /\ expected \in Nat

Init ==
    /\ packet = [kind |-> "CloseDatabase"]
    /\ todo = <<>>
    /\ offset = 0
    /\ capacity = 0
    /\ declared = 0
    /\ phase = "idle"
    /\ listener = "none"
    /\ response = 0
    /\ total = 0
    /\ expected = 0

(* Operators named after a fault are mutants of the definition they precede; *)
(* Next uses none of them.                                                   *)

\* new PacketWriter(getBufferLength()); the header's value is the same length.
Begin(p) ==
    /\ phase \in {"idle", "answered"}
    /\ phase' = "writing"
    /\ packet' = p
    /\ todo' = Layout(p).fields
    /\ offset' = 0
    /\ capacity' = Layout(p).length
    /\ declared' = Layout(p).length
    /\ UNCHANGED readerVars

\* _allocate(): a buffer that is too short grows by what is missing.
Allocate(n) == Max({capacity, offset + n})

WriteField ==
    /\ phase = "writing"
    /\ todo # <<>>
    /\ offset' = offset + Head(todo)
    /\ capacity' = Allocate(Head(todo))
    /\ todo' = Tail(todo)
    /\ UNCHANGED <<packet, declared, phase, readerVars>>

\* socket.write() of the buffer, and _receiveBytes() for the response.
Send ==
    /\ phase = "writing"
    /\ todo = <<>>
    /\ phase' = "sent"
    /\ listener' = "first"
    /\ total' = 0
    /\ expected' = 0
    /\ response' \in Responses
    /\ UNCHANGED writerVars

LengthKnownAtOnce(n) == n >= 1
LengthKnown(n) == n >= 4

LengthOfSigned(n) == 0 - response

\* _getExpectedResponseLength: what the first four bytes say, and they and the
\* CAS info; of less than four bytes NaN, which nothing is less than.
LengthOf(n) == IF n >= 4 THEN response ELSE 0

\* _receiveFirstBytes: nothing is known of the response before four bytes of it
\* are there.
ReceiveFirst(n) ==
    /\ listener = "first"
    /\ total' = total + n
    /\ \/ /\ ~LengthKnown(total')
          /\ UNCHANGED <<listener, expected, phase>>
       \/ /\ LengthKnown(total')
          /\ expected' = LengthOf(total')
          /\ IF total' >= expected'
             THEN listener' = "none" /\ phase' = "answered"
             ELSE listener' = "remaining" /\ UNCHANGED phase

CompleteWithoutHeader(n) == n + 8 = expected
AllThere(n) == n = expected

\* _receiveRemainingBytes: the parser waits for exactly the expected length.
ReceiveRemaining(n) ==
    /\ listener = "remaining"
    /\ total' = total + n
    /\ UNCHANGED expected
    /\ IF AllThere(total')
       THEN listener' = "none" /\ phase' = "answered"
       ELSE UNCHANGED <<listener, phase>>

\* The next n bytes of the response.
Receive(n) ==
    /\ phase = "sent"
    /\ total + n <= response
    /\ ReceiveFirst(n) \/ ReceiveRemaining(n)
    /\ UNCHANGED <<writerVars, response>>

Next ==
    \/ \E p \in Packets : Begin(p)
    \/ WriteField
    \/ Send
    \/ \E n \in 1..Max(Responses) : Receive(n)

Spec == Init /\ [][Next]_vars

\* The request is written in one go, and TCP delivers the response.
FairSpec ==
    Spec /\ WF_vars(WriteField) /\ WF_vars(Send)
         /\ WF_vars(\E n \in 1..Max(Responses) : Receive(n))

-----------------------------------------------------------------------------
\* Every request is sent as long as its header announces, no field is cut and no
\* byte of the buffer is left over: the server finds the next request where it
\* looks for it.
RequestIsFramed ==
    phase = "sent" => declared = offset /\ capacity = offset

\* A response is parsed when the whole of it is there and not before, however
\* TCP cut it; its length is not read from less than four bytes.
ParsedWhole == phase = "answered" => total = response /\ expected = response

\* Every response is parsed once its last byte has arrived.
EveryResponseIsParsed == (phase = "sent") ~> (phase = "answered")
=============================================================================

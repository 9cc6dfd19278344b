# node-cubrid in TLA+

node-cubrid is a pure JavaScript driver for the CUBRID database. One object,
`CUBRIDConnection`, owns one socket to the server and offers some thirty calls
that each end in a callback or a promise. The protocol has no request identity:
the server answers in the order it was asked, and the driver hands an answer to
whoever owns its single response slot at that moment. Almost everything that is
hard in this code comes from that: calls must be put in a line, the line must
survive errors and reconnects, and state kept on the client (flags, counters,
statement handles, LOB lengths) must agree with a server that may go away.

The project models the driver's own logic and treats the server, TCP and node's
event loop as the environment. The source is under `src/src/`; paths below are
relative to it unless they begin with `src/`.

## 1. The system

| Component | Code | State | Operations |
|---|---|---|---|
| Request queue | `query/Queue.js` | `items`, `currentItem` | push, unshift, process, empty, getDepth, isEmpty, the `done` of an item |
| Connection establishment | `CUBRIDConnection.js` 47-363, 425-470; `packets/ClientInfoExchangePacket.js` | `connectionOpened`, `connectionPending`, `currentHostIndex`, `connectionRetryCount`, `_socket`, `_socketCurrentEventCallback` | connect, broker discovery and failover, login, the timeout, error and close listeners |
| Request pipeline | `CUBRIDConnection.js` 366-742 and every public call | `_callback`, `_parserFunction`, `_socketCurrentEventCallback`, `autoCommitMode` | queue, connect, send, receive, settle; close, commit, rollback, setAutoCommitMode, getEngineVersion |
| Statement handles and fetching | `CUBRIDConnection.js` 744-812, 915-957, 1031-1438; `packets/ExecuteQueryPacket.js`, `FetchPacket.js`, `CloseQueryPacket.js` | `_queryResultSets` and the packets in it (cursor, total) | query, fetch, closeQuery, queryAll, getMetaData, close and its sweep |
| LOB transfer | `CUBRIDConnection.js` 1761-2058; `packets/LOB*Packet.js` | `lobObject.lobLength` and the offset and total of the running call | lobWrite, lobRead |
| Request packets and framing | `packets/*Packet.js`, `packets/PacketWriter.js`, `_receiveBytes`, `_receiveFirstBytes`, `_receiveRemainingBytes` | `_buffer`, `_offset`; `_totalBuffLength`, `_expectedResponseLength`, `_buffArr` | write a request, receive its response |
| Response parsing | `packets/PacketReader.js`, the `parse` functions, `utils/Timezone.js`, `resultset/` | a cursor in a buffer | decode values, columns, rows, schema rows, batch results, errors |
| Typed parameter values | `packets/PrepareExecutePacket.js`, `PacketWriter.js` | none | encode a value of each type |
| SQL formatting, input checks | `utils/Helpers.js`, `query/Query.js` | none | `_sqlFormat`, `_escapeString` |
| Old query protocol | `CUBRIDConnection.js` 629-671, 759-804 | as the pipeline and the handles | prepare and execute as two exchanges |
| Constants, loggers, entry point | `constants/`, `*Logger.js`, `src/index.js` | none | none |

**How they interact.** A public call makes a closure and pushes (or unshifts) it
into the queue. The queue calls one closure at a time, from `setImmediate`, and
gives it a `done`. The closure calls `connect()`, which resolves at once on an
open connection and otherwise finds a broker and logs in; then it builds a
packet, writes it to `_socket`, puts its callback into `_callback` (for the
answer) and `_socketCurrentEventCallback` (for a socket error). The data
listener collects the response, runs the parser, and calls the callback; the
promise behind it calls `done` and then the user. `close()` and
`getEngineVersion()` go past the queue. Socket listeners stay with the object
after the socket was replaced and write to the same flags.

**What is hard.**

- Interleaving: immediates read `currentItem` when they run; two calls that
  bypass the queue share its response slot; urgent calls overtake.
- Ordering and stale state: events of replaced sockets; handles of a session
  that is gone; flags read by a request long after they were set.
- Failure: hosts that refuse, time out or answer with an error; a socket that
  dies with a request in flight, between two rounds of a fetch, or between the
  pieces of a LOB; a user's callback that throws.
- Limits: the host list and the retry counter at their ends, the last row, the
  empty result, a zero-length LOB, the header cut in the middle, a sign in 32 bits.
- Agreement: nothing in a response says what comes next; which fields it has
  depends on the protocol version, the kind of statement and the type numbers.

**What makes each part correct.** The queue: a serial executor that loses and
repeats nothing. Connecting: one attempt at a time, every host tried in turn,
flags that agree with the socket, an answer for every call. The pipeline: one
request on the wire, its own answer, sent once, in order, answered at last.
Handles: every row once, nothing left open. LOBs: what was written is what is
read. Framing: what is announced is what is written; what is sent is what is
parsed. Parsing: a parser ends where its response ends, and its values are the
server's.

## 2. The modules

    SerialExecutor        what a queue of asynchronous tasks promises (abstract)
      ^ implemented by
    RequestQueue          query/Queue.js
      RequestQueueProofs    its invariants for any set of requests, and that it
                            implements SerialExecutor   (TLAPS)
      ^ INSTANCE
    RequestPipeline       the life of a call: queue, connect, slot, socket, close
      RequestPipelineProofs (TLAPS; INSTANCE of RequestQueueProofs)
    BrokerConnect         connect() in detail: hosts, sockets, timers, login
      BrokerConnectProofs   (TLAPS)
    QueryHandles          query/fetch/closeQuery/queryAll/close (on SerialExecutor)
      QueryHandlesProofs    (TLAPS)
    LobTransfer           lobWrite, lobRead
      LobTransferProofs     (TLAPS)
    WireFraming           request packets and the reassembly of responses
      WireFramingProofs     (TLAPS)
    PacketCodec           PacketWriter, PacketReader: values as bytes (no state)
      PacketCodecProofs     (TLAPS)
      ^ EXTENDS
    ResponseParsing       the parse functions, and what the server lays out for them
      ResponseParsingProofs (TLAPS; EXTENDS PacketCodecProofs)

`MC<module>.tla` extends a module for TLC; the `.cfg` files hold the constants.
Operators named after a fault (`ProcessClaimsAlways`, `KeepOpened`, ...) stand
before the definition they distort; no next-state relation uses them. They
document which mistake in the code each property would reveal.

**SerialExecutor** - a line of waiting tasks, at most one active, the finished
and the discarded ones. An urgent task goes to the front or behind the front one
(which may already be claimed). `Discard` may spare the front for the same reason.

**RequestQueue** - `items`, `currentItem`, the number of scheduled immediates,
how often each request was called and called its `done`, and a `node` that has
crashed once `null` was called. `Process` is `process()` with the claim and the
`setImmediate`; `Push`, `Unshift`, `Empty` and `Done` include the `process()`
they end in. `DoneLimit` says how often an item may call `done`: once is what the
queue expects of its users, more is what some of them do.

**BrokerConnect** - every socket ever created with its life, its data listener
and its armed timer; the flags and counters of the connection; the port the broker
answered last; the attempt whose promise `connect()` waits for. An event and the
promise callbacks that follow it are one action, because node runs them before the
next I/O event. `Faults` names what the environment may do: refuse, reset, end a
session (`fin`), end a handshake (`early`), throw from the user's callback (`throw`).
A timeout, an answer or a close may be of a replaced socket at any time, an error too.
`stale` counts the errors of replaced sockets, and those of their closes that find
the connection open and so clear its flag; any other such close, as of the broker
socket the driver itself ended, changes nothing and is not counted. `MaxStale` bounds
the count, and properties that need replaced sockets to keep quiet say `stale = 0`.

**RequestPipeline** - INSTANCEs RequestQueue and adds the implied `connect()`
(an outcome here, the detail is BrokerConnect), the wire as the sequence of
requests the server owes an answer, whether the socket has a data listener, the
two callback slots, and `micro`, the promise callbacks that run before the next
event. What the user's callback does after `done` (throwing) is in `Followers`.
An exchange of several packets (prepare/execute, the rounds of a fetch, getSchema
and its fetch) is one request. `cut` remembers the requests whose answer the server's
end of the connection cut off. On a dead socket a `rollback()`, which does not
connect, is either lost or fails: releases of node differ. Beside a pending
`connect()` it writes to the socket that is being connected and takes its callbacks:
the answer to the login then goes to the `rollback()` (`LoginTaken`), the
`connect()` is never told, and the connection denies every request from there on
(`link = "taken"`). There is one socket at a time here: what the late events of
replaced ones do is BrokerConnect's.

**QueryHandles** - the table `_queryResultSets` (statement, total, cursor for
each handle), the server's open statements, and the users: `queryAll()`, which
chains query, fetch(all) and closeQuery; users who call `fetch(handle)` as they
please; and `close()`, which empties the queue, notes the handles of the table, closes
them one by one, the lowest first, and then ends the session past the queue. `protocol` is chosen at
the start: the old one prepares and executes in two exchanges and registers the
packet with the second. The server gives out the lowest free handle, so handles
repeat in a new session. `Faults` says whether the server may refuse a handle it has
open, and how sessions are lost: by an error, which fails the request in flight
(`SocketError`), or by the server's end, of which only `closeQuery()` hears
(`SocketEnd`): whatever else is in flight is never answered and blocks the queue (`Blocked`).
A fetch of an open statement is assumed to bring at least one row. The calls go through `SerialExecutor`, which the queue is
proved to implement, instead of the queue's detail; once `close()` puts its last
request beside another one on the wire (`link = "shared"`) the model stops, because
what follows is RequestPipeline's.

**LobTransfer** - the LOB's content on the server against `lobLength` on the
client. A byte is named by the call that wrote it and its position, so the
property can tell any displacement.

**WireFraming** - each request packet as the list of the sizes of the fields its
`write` writes, in order, and the length its `getBufferLength` predicts, which
are two independent pieces of code; the writer's `_allocate`; and the response in
arbitrary pieces.

**PacketCodec** - numbers, texts, dates, LOB handles and the typed values built from
them, as sequences of digits to `Base` (256 in the driver). JavaScript's 32-bit shifts
are arithmetic modulo `Base^4`, with the sign `<<` gives them, so the model overflows
where the code does. Floating point numbers are their bytes. `Index` and `Slice` are
node's `slice()`, whose ends may be negative or beyond the buffer; `ValuesRead` is the
loop of `parseNum`, byte by byte.

**ResponseParsing** - a call, the response the server lays out for it, and the parser's
cursor going through it: header, statement, columns, result infos, the tail that
depends on the protocol version, rows, schema rows, batch results, single values,
errors. `prepare`, `requestSchema` and SELECTs go on with their second response. The
server's side (`Octets` to `Response`, `ParamOctets`) is external: it is written apart
from the parser, from what the code and its tests expect, so that a field missed on one
side shows. What it may hold is typed (`ValuesOf`, `IsStatement`, `IsSchema`, `IsBatch`,
`IsAnswer`; `CallsAssumption`), so that the theorems can speak of any calls. Three operators name what is known not to work: `InStep` (types at which
the reader does not move on), `Readable` (values it cannot give back), `Writable`
(parameters it does not write as given). All others are held to the properties.

## 3. What the runs check

Every run takes two minutes or less with two workers; the states are distinct states.

| Run | States | Question |
|---|---|---|
| MCRequestQueue | 3 194 | Is the queue a serial executor, and does every accepted item settle, if each calls `done` once? |
| MCBrokerConnect | 972 k | Do failover, retries, timeouts, resets, server closes and late events of replaced sockets leave counters, flags and socket in agreement, one `connect()` at a time, and is every `connect()` answered? |
| MCBrokerConnectExhausted | violation | Does a failed `connect()` at least try a host? |
| MCRequestPipeline | 207 k | Ordinary calls under errors, resets, server closes and reconnects: is the one awaited heard, is each sent once and every call answered; is the queue used as it expects? |
| MCRequestPipelineThrow | 2.3 M | With a throwing callback, transactions, `close()` and calls that bypass the queue: is a repeated `done` the only way to send twice, does the order of pushed calls hold even then, and is a queued request that does not hear its answer one that `close()` or `getEngineVersion()` overtook? |
| MCRequestPipelineTwice | violation | Is a request sent once when a callback throws? |
| MCQueryHandles | 966 k | Rows, cursors and handles under interleaved users, `close()`, refused handles and two lost or ended sessions, under both protocols; what may fail a `close()`; does every call end? |
| MCQueryHandlesLost | violation | Does queryAll() give all its rows and no others across a lost session? |
| MCQueryHandlesSwept | violation | Does an answered `close()` request the closing of every statement? |
| MCLobTransfer | 2 237 | Do reads return what writes wrote, and does `lobLength` stay honest after failures? |
| MCWireFraming | 90 k | Do all packets announce what they write, and are responses parsed whole? |
| MCResponseParsing | 16.5 k | Does every parser end where its response ends, with the values that were sent; do typed parameters arrive as given? |

**Bounds, and why they are enough.**

- Queue: three ordinary and two urgent items. A fault of the queue needs an item
  claimed, one called and one waiting; the proofs of section 4 remove the bound.
- Connect: two hosts and one retry give a first, a last and a repeated host; three
  calls of `connect()` allow one after a success, one after a failure and one while
  another is pending; ten sockets are two exhausted `connect()`s (four broker sockets
  each) and a success. One late error of a replaced socket, or close that meets an open
  connection (`MaxStale`), is enough to disturb the one that replaced it.
- Pipeline: calls of each kind beside two pushed ones, at most four of the user's
  (`MaxCalls`), two dead sockets. The requests interact only through one slot, one
  queue and one socket: a fault needs a request in flight, one that takes its place,
  one behind them and a reconnect.
- Handles: results of 3 and 2 rows with pages of at most 2 (a split and an exact
  result), one user who pages, up to 4 calls each, two lost sessions, any refusal.
- LOB: pieces of at most 2 of at most 3 bytes: a call needs one, two or three
  exchanges; four calls reach a second write and a read behind a failed write.
- Framing: texts of 0 and of 2 characters in 6 bytes; up to two statements or
  parameters of every type; protocol versions 3 to 5 around both thresholds;
  responses of 8 bytes (nothing but the header) and more, cut at every byte.
- Parsing: a column of every type, with and without a type of its own, beside an INT
  that shows whether it was read to its end; up to two rows in one or two responses;
  nulls, empty texts, the least and greatest integers; parameters of every type in
  pairs; empty and other bit strings; schemas of every type; batches of up to two; an error, with and without a
  message, at every response; protocol versions on both sides of each threshold.
  `Base = 64` keeps every type number in one byte and an integer within TLC's own.
  The run has no concurrency: its states are the fields of a few thousand responses.

**Fairness.** Only what node and the server owe: scheduled immediates and promise
callbacks run (`RunItem`, `Microtask`, `Done`, `Start`, `Sweep`), an armed socket timer
fires unless its socket answers or dies, a connect attempt comes to an end, and the
server answers the request it has; it is not counted on to refuse rows that are there
(`RefusesRows`), so a fetch must end by its own count. Users are never made to call. Each liveness property
names what it needs: `EveryRequestSettles` (items that finish), `ConnectSettles` (a
timeout configured; what it waits for is not `Forsaken`: a login on the broker's own
socket has no timer, a socket the server closed has no events left, and after the late
error of a replaced socket the answer to an abandoned login may take the current
socket's listeners off; late events excuse nothing else),
`EveryCallIsAnswered` (the server did not end the connection with a request in flight),
`EveryCallEnds` (the same, `Blocked`; a fetch returns at least one row; what `close()` drops is never
answered, nor is a `close()` on a dead socket), `TransferEnds` (reads, and writes into an
empty LOB), `EveryResponseIsParsed` (the pieces of a response arrive).

`CHECK_DEADLOCK FALSE` is set where users simply stop after a bounded number of
calls, and where a response is parsed and no call follows.

## 4. What is proved

TLAPS proves every safety property the passing runs check, for every value of the
constants. The assumptions are the named `ASSUME` of each module and, where a theorem
says so, a hypothesis about the users of the queue. None of the properties is inductive
alone; each `...Proofs` module states the invariant that is, and each was run
through TLC before it was proved.

**RequestQueueProofs.** `DoneLimit` says how often an item may call `done`.

- `InvariantHolds`: `IInv` is `LineInv /\ (RepeatedDone \/ SerialInv)`. `OneAtATime`
  holds after `done` only if no second immediate is scheduled, and that only if claims
  and immediates match. `LineInv` is the part that survives anything: what waits was
  accepted once, never called, is not the claimed item. `SerialInv` holds until some
  item repeats its `done`: one immediate for the item claimed and not called, an empty
  line when nothing is claimed, only the claimed item running. `RepeatedDone` is stable.
- `TypeCorrect`; `OnlyRepeats`: a repeated `done` is the only way to break the queue.
- With `DoneLimit = 1`: `Serialised`, `CalledAtMostOnce`, `NoneLost`, `DepthTruthful`.

The second half of the module is `Refinement`: the queue implements `SerialExecutor`. The
mapping makes the claimed but uncalled item the front of the waiting line, so claiming
is a stutter, the immediate is `Start`, `done` is `Finish`, `empty()` is `Discard`. Its
step lemma assumes only that the `done` that is called is the item's first
(`dones[r] < runs[r]`), so that it serves users whose `DoneLimit` is larger.

**RequestPipelineProofs** takes these lemmas by `INSTANCE` and proves nothing of the
queue again. Each theorem has an invariant of its own:

- `TypeCorrect` and `PlacesInv`: whoever is in the line, the claim, `connect()`, a slot
  or `micro` is a request that was called, and of the kind that may be there.
- `ReachTheServerInOrder` (`OrderInv`): the pushed calls go from the line to the claim,
  to `connect()`, to the socket, and each place is behind the next one in the order of
  the calls. A repeated `done` moves items along this chain and never back, so
  `PushedInOrder` needs no hypothesis.
- `ResendsNeedRepeatedDone` (`UntilRepeated`): as long as nobody repeated a `done`, a
  request that connects has not sent, and one that sent is no longer connecting; each
  `close()` waits for one `closeQuery()` of its own and is told once.
- `OnlyOvertakenAreUnheard` (`WireInv`, `ActiveInv`, `HeardInv`), with every fault, kind
  of call and number of callers: as long as nobody repeated a `done`, a queued request
  that was sent and is not answered is the item the queue runs (`ActiveInv`), so
  whoever sends after it asks no queue, and was sent behind it (`WireInv`). Until then
  wire, listener and both callbacks are its own (`HeardInv`). The pending `connect()`
  of another, which takes and gives callbacks too, is the difficult case: it belongs to
  the item itself, to a `getEngineVersion()`, which denies the item its own, or is
  beside a `rollback()`, which the property names.
- `SentOnceEach` and `SerialInTheirHands` (`DoneInv`), assuming `CallDoneOnce`: no
  callback throws and nobody uses `commit()`, whose callback stays behind and calls
  `done` again on a later socket error. Then each item calls `done` once, after it was
  settled, and the queue's own refinement carries over: the whole pipeline implements
  `SerialExecutor`. (`Internal = {}` in the second: a `closeQuery()` inside `close()`
  is a user of the queue as any other, but the property quantifies over the users' own.)
- `AwaitedAreHeard` (`AwaitInv`), assuming `KeepToTheQueue`: besides, nobody sends
  past the queue, or writes to a dead socket as `rollback()` does. Only the item that
  runs is then connecting or sent, and the wire holds at most its request.

`PipelineAssumption` excludes a request called "login", which is the name of the
driver's own request on the wire.

**BrokerConnectProofs**, for any list of hosts, any number of retries, calls and
sockets, with or without a timeout:

- `PendingExcludes` (`ExclusiveInv`): of the calls of `connect()` at most one waits, and
  the attempt it waits for is the one `awaited` names.
- `TriesAllHosts` (`CountInv`): each host up to the current one was tried once more
  than there were retries, those behind it once less, or all were tried often enough
  before an abandoned attempt moved the counters.
- `ActiveHostCorrect`, `OpenMeansSession`, `CurrentErrorsHandled` (`QuietInv`): while
  replaced sockets keep quiet (`stale = 0`), only the current socket listens, for the
  attempt that is awaited, at the host the index names, and its error finds a callback.
  `QuietInv` is one invariant for the three: that the host does not move is known only
  because no other socket has a listener or a timer.

**LobTransferProofs**, for any size of data, requests and pieces, any number of calls
and failures: `ReadsBack` and `LengthIsTruthful`. `LengthIsStored` is
`lobLength = Len(written)` and `written` a prefix of `stored`. `WriteInv` says that a
write under way began at the end of the LOB and what its requests stored; `ReadInv`
that a read has collected the bytes of `written` from its offset on and asks for no
more than there are. The lemmas describe `Slice`, `Overwritten` and their compositions.

**WireFramingProofs**: `RequestsAreFramed` for every packet with any texts and any
number of statements or parameters of any types, `ResponsesParsedWhole` for responses of
any lengths in any pieces. The lemmas `Framed` of each packet add up the sizes its
`write` writes (`Long(fields, length)`) and compare them with `getBufferLength`;
`WriterInv` and `ReaderInv` carry that through the writing and the receiving. `UpTo` is a
recursive function whose existence is proved by the least length at which it would
fail. `FramingAssumption` says what the code needs: schema patterns of as many bytes
as characters, responses of at least the eight bytes of a header.

**QueryHandlesProofs**, for any number of statements, rows, users who page, and lost
sessions, under both protocols: `EachRowReadOnce`, `OpenFound`, `ClosedAtTheEnd`,
`CloseFailsOnlyForAReason`. `IInv` has four parts: `QueueInv` (a user's place in the
executor is what its stage says), `CallInv` (what each stage of a call implies),
`SessionInv` (what is open on the server has one handle, which the table and its
user know, and the table's cursor is the number of rows given out), `CloseInv` (as
long as no session is lost, what the table has is open, and a `close()` beside which
nobody calls finds all it has to close). The last is `SweepFinds`: each handle of the
sweep, and the one being closed, has its packet, because every user with such a
handle has come to rest or was stopped by the `close()` (`Elsewhere`); so its
`closeQuery()` is sent, and fails only if the server refuses. That the server finds a free handle
is the pigeonhole principle: `Handles` are as many as `Queries`.

The second part of the module is `AllRowsRead`, the theorem of `AllRowsUnlessLost`. What could
spoil it is another statement under a handle that `close()` has closed before its user
is told. `FullInv` adds to `IInv`:

- `OrderInv`: behind an item that is claimed, and everywhere while one runs, urgent
  calls come before those of `query()`; `TotalInv`: the table's totals are the rows.
- `SweepInv`: what `close()` has yet to close was opened before it was called. A
  `query()` that comes before the next step of the sweep (`Ahead`) finds a free handle
  below all of them, because the sweep goes from the lowest up and the server gives
  out the lowest.
- `OwnInv`: a user's handle is that of its own statement, or the user is `Gone`:
  its call waits, the statement is closed, and no `query()` is sent or waits before
  it. Then the call finds no packet and fails.
- `RowsInv`: the rows of a `queryAll()` are those given out of its statement, all of them
  when it goes on to close it.

The last three hold as long as no session is lost and no paging user is overtaken by
`close()` (`Undisturbed`), which is the property's own condition.

**PacketCodecProofs**, for any even number of values of a byte above 32: what one side
writes the other reads. `IntRead`, `ShortRead`, `LongRead` and `TextRead` say how far
that goes. `IntRead` rests on `WrapStep`, that shifting by a byte within 32 bits loses
only what `parseNum` has pushed out, so that after four bytes the number has its sign
again; `LongRead` on the same for eight, where the high four are lost. The lemmas at
the end are about parts laid one behind the other (`Joined`, `Start`, `PartsAt`):
where each of any number of parts begins, and that each lies there.

Recursive functions need induction, and the library's theorems of induction take
operators, which these provers cannot instantiate. The proofs use what can be stated of
sets: a number for which a claim fails has a least one among them (`WFMin` of
WellFoundedInduction), so that what holds at 0 and is kept by each step holds up to
any `n` (`Induction`), and a function defined by its predecessor exists and has its
equations (`RecursiveFunctionExists`).

**ResponseParsingProofs**, for any set of calls whatever: any columns and rows of any
types, split over any responses, any schemas, batches, errors, parameters and versions.
Two invariants:

- `Shaped` (`ShapedAlways`) holds always. `TypeOK` is not inductive: it does not say that
  columns are a list to whose end a row is read, nor whose response the buffer holds.
  `Typed` says this, `ValuePart` which responses are read as one value, and `Requested`
  what was written of the parameters. `TypeCorrect` and `ParamsCorrect` follow, the
  latter from `ParamWritten`, type by type. This part says nothing of places: a
  cursor that lost its own keeps its type and may be anywhere, below 0 too.
- `KeepsPlace` (`PlaceKept`) is `InStep => Placed`: while the types are those the reader
  moves past, the offset is where the part read next begins, the counters are those of
  the response, and what was collected is a prefix of what was sent. `PlacedAt` gives it for
  each kind of call and each part: `StatementAt` the end of the columns, counts, tail
  and rows read so far, `SchemaAt`, `BatchAt`, `ValueAt` the others. Because `InStep`
  looks at the rows sent so far, it held before each step after which it holds.

Each step's lemma (`Placed...`) puts together the layout of the server's part and the
lemma that this part is read (`ValueRead`, `CellsRead`, `RowRead`, `ColumnRead`,
`SchemaRowRead`, `ResultRead`, `ErrorRead`, `AnswerRead`). At `done`, `Placed` is
`ResponseConsumed` (`ConsumedAlways`) and `AnswersAsSent` (`AnswersCorrect`).

What is assumed: `Null` is no bytes, the type numbers fit into five bits of a byte
(`Base > 32`), and lengths fit into the four bytes in which they are told. The
server's values are those their types can have (`CallsAssumption`).

**Model-checked only.**

- Liveness (`EveryRequestSettles`, `ConnectSettles`, `EveryCallIsAnswered`,
  `EveryCallEnds`, `TransferEnds`, `EveryResponseIsParsed`) and whatever else needs
  ENABLED: out of the prover's reach.
- `InStep`, `Readable` and `Writable` are hypotheses of the properties; that the code
  fails on what they except is read off the code, not proved.

**What the proofs changed in the models.** `LengthIsStored` had allowed any LOB
longer than `lobLength`; it now says whose bytes come first. `AllRowsUnlessLost` had
claimed more than holds: with a third statement, `close()` can close the handle of a user
who pages, another `query()` comes under that handle before the sweep ends, and
the first user's `fetch()` takes its rows; the property now names that user (`overtaken`).
`sweep` became a set, closed lowest first. `UpTo` replaced a fold. In `Start`, two
alternatives of a CASE overlapped: a handle without a packet is also one whose cursor
(0) is at its total (0), and TLA+ leaves open which applies; now only the first does.

In PacketCodec and ResponseParsing the folds became recursive functions, which have
equations to prove with, and the server's data got types. `TypeOK` had claimed that the
offset is never negative, which a negative length in a response nobody follows
(`InStep`) refutes. `AnswersAsSent` had claimed every BIT value: an empty one has
length 0, which the reader takes for null; `Readable` now says so, and the run has
such values. `Slice` became node's, which counts negative ends from the back.

## 5. Where the code differs from what is said of it

Four runs expect a violation; each finding in PROJECT.json quotes the text.

1. **MCBrokerConnectExhausted** - once the retries are exhausted,
   `currentHostIndex` stays at `hosts.length`; every later `connect()` fails with a
   TypeError and tries no host (`CUBRIDConnection.js:170`).
2. **MCRequestPipelineTwice** - a user callback that throws makes `done` run twice;
   the queue then drops a request and sends the next one twice (`:522`).
3. **MCQueryHandlesLost** - `_queryResultSets` survives the session, and a
   `queryAll()` interrupted by a reconnect can return another statement's rows (`:1154`).
4. **MCQueryHandlesSwept** - a `queryAll()` under way closes its own statement; the
   sweep of `close()` then finds that packet gone, and its chain ends there: the rest is
   never requested to be closed and the connection stays open (`:1385`).

The models contain more of the kind. These definitions stay in the modules although
no run lists them, because each fails and the ones above were thought more telling:

- `SingleSession`: a stale `close` clears `connectionOpened` of the new connection,
  and the next `connect()` logs in beside it. `ActiveHostIsConnected` and
  `OpenedIsLoggedIn` are checked for connections no replaced socket has disturbed
  (`stale = 0`), and `CurrentErrorIsHandled` excepts them too: two socket errors in a
  row reach a listener that throws.
- `FirstInFirstOut` (README of the driver, "Queueing") fails by design of unshift.

The login resets `autoCommitMode`, so a transaction begun before the implied connection
is committed statement by statement; `ConnectDone` does this, and no property states that the mode
is the one the user chose.

And some disagreements are excluded by name where a property would meet them:

- A `connect()` that waits for a login on the broker's socket (port 0), or for a
  handshake the server ended, may wait for ever; so may one whose socket lost its
  listeners to the answer of an abandoned login, after the error of a replaced
  socket was taken for that login's own (`Forsaken`).
- A request in flight when the server ends the connection is never answered and
  blocks the queue (`cut`, `Blocked`); so is one whose answer `close()` or
  `getEngineVersion()` takes from it (`HeardUnlessOvertaken`).
- A `rollback()` beside a pending `connect()` takes the answer to its login; the
  `connect()` never ends and every later one is denied (`link = "taken"`). The
  fair pipeline run has no such pair.
- A `close()` succeeds without ending the session when the late close of a replaced
  socket has cleared `connectionOpened` (`:1366`). BrokerConnect has the flag, not
  `close()`; RequestPipeline and QueryHandles have one socket at a time, so this
  outcome is in no model.
- `lobWrite()` at an offset above 0 never ends (`TransferEnds` excludes it).
- `parseNum` gives a SHORT no sign and a BIGINT only 32 bits (`Readable`); the driver's
  own tests of it, `testShortSigned` and `testLong` in
  `src/test/test_PacketWriter_PacketReader.js:270` and `:294`, expect more.
- An empty BIT or VARBIT value, whose length is 0, is read as null (`Readable`).
- A negative BIGINT parameter has its high half off by one; null as text would be sent
  as the empty text, but `Buffer.byteLength()` throws on it or counts it as `null` when
  the length is predicted (`PrepareExecutePacket.js:488`); OBJECT, collections and RESULTSET announce other lengths than they
  write (`Writable`).
- The old protocol does not read past values with a time zone, and `getSchema()` reads
  no columns of the schema types it does not list (`InStep`).
- `getSchema()` fetches once, whatever the number of rows: if the server splits them,
  the rest is not asked for.

## 6. Not modelled

- SQL formatting (`Helpers._sqlFormat`, `_escapeString`): one regular expression per
  character class; a model would be the same table again. `++i` against the number of
  values leaves one surplus placeholder and turns further ones into NULL, which one
  can read off the line.
- How a `Timezone` prints itself, the texts of error codes, floating point.
- `PacketReader._append`: no response uses it, as responses are collected first.
- Long names in the login packet, non-ASCII schema patterns, unknown parameter types,
  and null or a number given for a parameter of a text type break the framing (the last
  in `PrepareExecutePacket.js:488`, where `Buffer.byteLength()` throws or counts other
  bytes than are written); they are excluded in WireFraming and listed as hazards.
- A fetch response without rows: the driver would ask again for ever (`:1186`).
- The mode each request carries: RequestPipeline has the flag, not its copies.
- The packets' fields that are copied unchanged (names, SQL, flags): WireFraming has
  their sizes, ResponseParsing their order on the way back.
- What node does with a write to a dead socket, and the server beyond its answers: a
  choice of the environment.
- `lobNew`, `getSchema`, database parameters: ordinary requests of the pipeline.
- Loggers, entry point, result-object helpers, `SetAutoCommitModePacket` (which no code
  constructs): no behaviour.

## 7. Plan

Done, in order: SerialExecutor and RequestQueue with their proofs; BrokerConnect;
RequestPipeline; QueryHandles, then with `close()` and the old protocol; LobTransfer;
WireFraming; PacketCodec and ResponseParsing. Then the proofs of all the safety
properties, those of ResponseParsing last.

What would come next: what a replaced socket can still do at most, as the theorem of
BrokerConnect for `stale > 0`; and the exceptions of `Readable` and `Writable` as
theorems of what the code does give back for them.

---------------------------- MODULE QueryHandles ----------------------------
(***************************************************************************)
(* SELECT statements read in several responses: query() registers the       *)
(* statement's packet under the handle the server chose (_queryResultSets), *)
(* fetch() and closeQuery() find it there by handle, queryAll() chains the   *)
(* three.  The requests go through the queue, here the serial executor it   *)
(* implements (RequestQueueProofs); one exchange at a time is on the wire  *)
(* (RequestPipeline).                                                       *)
(*                                                                          *)
(* Handles belong to a session of the server; the table survives the loss   *)
(* of the session.  close() sweeps the table with closeQuery() calls and     *)
(* then ends the session past the queue.                                    *)
(***************************************************************************)
EXTENDS Naturals, Sequences, SequencesExt, FiniteSetsExt

CONSTANTS
    Queries,   \* the statements, one SELECT each
    NoQuery,
    Closing,   \* the call of close()
    Rows,      \* Queries -> Nat: the rows a statement has
    Paging,    \* the statements whose user calls fetch(handle) page by page; the
               \*   others are queryAll()s
    Faults,    \* what may happen: "refuse", the server refuses a handle it has open,
               \*   "reset" and "fin", how a session is lost
    PageSize,  \* bound: rows in one response
    MaxStep,   \* bound: calls of one user
    MaxLosses  \* bound: sessions lost

ASSUME HandlesAssumption ==
    /\ IsFiniteSet(Queries) /\ NoQuery \notin Queries
    /\ Closing \notin Queries \cup {NoQuery}
    /\ Rows \in [Queries -> Nat]
    /\ Paging \subseteq Queries
    /\ Faults \subseteq {"refuse", "reset", "fin"}
    /\ PageSize \in Nat \ {0}
    /\ MaxStep \in Nat /\ MaxStep >= 3 /\ MaxStep > Cardinality(Queries)
    /\ MaxLosses \in Nat

VARIABLES
    waiting, active, finished, discarded,  \* the queue of tasks
    protocol,  \* "new", or "old": _ENFORCE_OLD_QUERY_PROTOCOL
    link,    \* connectionOpened: "up" or "down"; "shared" once two requests are on
             \*   the wire, from where on RequestPipeline describes what happens
    table,   \* _queryResultSets: handle -> packet or NoPacket
    server,  \* the statements open in the server's session: handle -> statement
    sweep,   \* the handles close() has yet to close, lowest first
    stage,   \* how far the current task of each user is
    doing,   \* the current task's call: "query", "fetch", "closeQuery"
    step,    \* the number of the current task
    handle,  \* the handle query() gave the user; 0 before
    rows,    \* the rows the user has been given
    given,   \* history: the rows of each statement in the order they were parsed
    overtaken, \* history: the statements under way when close() was called
    rivals,  \* history: those of them with a call since, or in the queue then
    losses   \* history: sessions lost or closed

execVars == <<waiting, active, finished, discarded>>
serverVars == <<link, server, losses>>
userVars == <<stage, doing, step, handle, rows>>
closeVars == <<sweep, overtaken, rivals>>
vars == <<execVars, protocol, serverVars, table, closeVars, userVars, given>>

Handles == 1..Cardinality(Queries)

\* Who puts tasks into the queue.
Users == Queries \cup {Closing}

\* The tasks of a user are numbered; all but a query() are urgent.
Tasks == Users \X (1..MaxStep)
Executor == INSTANCE SerialExecutor WITH Request <- Tasks, Urgent <- {t \in Tasks : t[2] > 1}

(* Operators named after a fault are mutants of the definition they precede; *)
(* Next uses none of them.                                                   *)

\* totalTupleCount and currentTupleCount of the packet of statement `of`.
NoPacket == [of |-> NoQuery, total |-> 0, cursor |-> 0]
PacketWithoutCursor(q, first) == [of |-> q, total |-> Rows[q]]

Packet(q, first) == [of |-> q, total |-> Rows[q], cursor |-> first]

\* n rows of statement q from the one at `start`.
RowsOf(q, start, n) == [i \in 1..n |-> <<q, start + i - 1>>]

TypeOK ==
    /\ waiting \in Seq(Tasks)
    /\ active \subseteq Tasks
    /\ finished \subseteq Tasks
    /\ discarded \subseteq Tasks
    /\ protocol \in {"new", "old"}
    /\ link \in {"up", "down", "shared"}
    /\ table \in [Handles -> [of : Queries \cup {NoQuery}, total : Nat, cursor : Nat]]
    /\ server \in [Handles -> Queries \cup {NoQuery}]
    /\ sweep \subseteq Handles
    /\ stage \in [Users -> {"idle", "waiting", "sent", "executing", "answered", "refused",
                            "resumed", "rejected", "dropped", "cut", "closing", "hung", "ok", "failed"}]
    /\ doing \in [Users -> {"query", "fetch", "closeQuery"}]
    /\ step \in [Users -> 1..MaxStep]
    /\ handle \in [Users -> Handles \cup {0}]
    /\ rows \in [Queries -> Seq(Queries \X Nat)]
    /\ given \in [Queries -> Seq(Queries \X Nat)]
    /\ overtaken \subseteq Queries
    /\ rivals \subseteq overtaken
    /\ losses \in 0..MaxLosses + 1

Init ==
    /\ Executor!Init
    /\ protocol \in {"new", "old"}
    /\ link = "down"
    /\ table = [h \in Handles |-> NoPacket]
    /\ server = [h \in Handles |-> NoQuery]
    /\ sweep = {}
    /\ stage = [u \in Users |-> "idle"]
    /\ doing = [u \in Users |-> IF u = Closing THEN "closeQuery" ELSE "query"]
    /\ step = [u \in Users |-> 1]
    /\ handle = [u \in Users |-> 0]
    /\ rows = [q \in Queries |-> <<>>]
    /\ given = [q \in Queries |-> <<>>]
    /\ overtaken = {}
    /\ rivals = {}
    /\ losses = 0

-----------------------------------------------------------------------------
\* Promise callbacks run before the next event: `done` of an answered task, and
\* what queryAll() and close() do next.
Pending(u) ==
    stage[u] \in {"answered", "refused"} \/ (u \notin Paging /\ stage[u] \in {"resumed", "rejected"})
Quiet == link # "shared" /\ \A u \in Users : ~Pending(u)

InFlight(u) == stage[u] \in {"sent", "executing"}

\* Queue.unshift: behind an item that is claimed and not called yet.
Unshift(task) ==
    /\ Executor!SubmitUrgent(task)
    /\ Head(waiting') = IF active = {} /\ waiting # <<>> THEN Head(waiting) ELSE task

\* query(), by the user or as the first call of queryAll().
Query(q) ==
    /\ Quiet
    /\ stage[q] = "idle"
    /\ Executor!Submit(<<q, 1>>)
    /\ stage' = [stage EXCEPT ![q] = "waiting"]
    /\ UNCHANGED <<protocol, serverVars, table, closeVars, doing, step, handle, rows, given>>

ExhaustedWhenPast(packet) == packet.cursor > packet.total
ExhaustedEarly(packet) == packet.cursor + 1 >= packet.total
Exhausted(packet) == packet.cursor = packet.total

\* The queue calls the next task, which connects and looks its packet up.  Beside
\* the last request of close() what it sends would be the second on the wire.
Start ==
    /\ Quiet
    /\ Executor!Start
    /\ LET u == Head(waiting)[1] IN
       \/ /\ stage' = [stage EXCEPT ![u] =
                CASE doing[u] = "query" -> "sent"
                  [] doing[u] # "query" /\ table[handle[u]] = NoPacket -> "refused"
                  [] doing[u] = "fetch" /\ table[handle[u]] # NoPacket /\ Exhausted(table[handle[u]]) ->
                        "answered"
                  [] OTHER -> "sent"]
          /\ link' = IF stage'[u] = "sent" /\ stage[Closing] = "closing" THEN "shared" ELSE "up"
       \/ /\ link = "down"
          /\ stage' = [stage EXCEPT ![u] = "refused"]
          /\ UNCHANGED link
    /\ UNCHANGED <<protocol, server, losses, table, closeVars, doing, step, handle, rows, given>>

Refuse(u) ==
    /\ stage' = [stage EXCEPT ![u] = "refused"]
    /\ UNCHANGED <<serverVars, table, handle, rows, given>>

RegisterUnlessPresent(h, q, first) ==
    table' = IF table[h] = NoPacket THEN [table EXCEPT ![h] = Packet(q, first)] ELSE table

\* _parseBufferForNewProtocol
Register(h, q, first) == table' = [table EXCEPT ![h] = Packet(q, first)]

\* The server opens a statement: it gives out the lowest handle that is free.
Open(q) == server' = [server EXCEPT ![Min({h \in Handles : server[h] = NoQuery})] = q]

\* The response that carries the first rows and puts the packet into the table.
FirstRows(q) ==
    \E first \in 0..Min({PageSize, Rows[q]}) :
        LET h == CHOOSE g \in Handles : server'[g] = q IN
        /\ Register(h, q, first)
        /\ handle' = [handle EXCEPT ![q] = h]
        /\ rows' = [rows EXCEPT ![q] = RowsOf(q, 1, first)]
        /\ given' = [given EXCEPT ![q] = RowsOf(q, 1, first)]
        /\ stage' = [stage EXCEPT ![q] = "answered"]

\* The response to query(): a handle and the first rows, or an error.
QueryResponse(q) ==
    /\ protocol = "new"
    /\ stage[q] = "sent" /\ doing[q] = "query"
    /\ \/ Refuse(q)
       \/ Open(q) /\ FirstRows(q) /\ UNCHANGED <<link, losses>>

\* The old protocol prepares the statement first.  What is prepared and then not
\* executed stays open: neither the table nor the user has its handle.
PrepareResponse(q) ==
    /\ protocol = "old"
    /\ stage[q] = "sent" /\ doing[q] = "query"
    /\ \/ Refuse(q)
       \/ /\ Open(q)
          /\ stage' = [stage EXCEPT ![q] = "executing"]
          /\ UNCHANGED <<link, losses, table, handle, rows, given>>

ExecuteResponse(q) ==
    /\ stage[q] = "executing"
    /\ Refuse(q) \/ (UNCHANGED serverVars /\ FirstRows(q))

\* Does the server have rows under the handle?  Not of what was only prepared.
HasRows(h) == server[h] # NoQuery /\ handle[server[h]] # 0

StartAtCursor(packet) == packet.cursor
StartPosition(packet) == packet.cursor + 1

\* The response to one round of fetch(): rows of the statement that the handle
\* has in the server's session, from the position the driver asked for, and at
\* least one.  With `all` the driver asks again until the cursor is at the total.
FetchResponse(q) ==
    /\ stage[q] = "sent" /\ doing[q] = "fetch"
    /\ LET h == handle[q]
           owner == server[h]
       IN \/ /\ ~HasRows(h) \/ "refuse" \in Faults
             /\ Refuse(q)
          \/ /\ HasRows(h)
             /\ \E n \in 1..Min({PageSize, Rows[owner] + 1 - StartPosition(table[h])}) :
                LET more == RowsOf(owner, StartPosition(table[h]), n) IN
                /\ rows' = [rows EXCEPT ![q] = @ \o more]
                /\ given' = [given EXCEPT ![owner] = @ \o more]
                /\ table' = [table EXCEPT ![h].cursor = @ + n]
                /\ stage' = IF q \in Paging \/ Exhausted(table'[h])
                            THEN [stage EXCEPT ![q] = "answered"]
                            ELSE stage
             /\ UNCHANGED <<serverVars, handle>>

ForgetNothing(u) == UNCHANGED table

\* onResponse() of _closeQuery drops the packet.
Forget(u) == table' = [table EXCEPT ![handle[u]] = NoPacket]

\* The response to closeQuery(); what the server says of a handle it does not
\* know is left open.
CloseQueryResponse(u) ==
    /\ stage[u] = "sent" /\ doing[u] = "closeQuery"
    /\ \/ /\ server[handle[u]] = NoQuery \/ "refuse" \in Faults
          /\ Refuse(u)
       \/ /\ server' = [server EXCEPT ![handle[u]] = NoQuery]
          /\ Forget(u)
          /\ stage' = [stage EXCEPT ![u] = "answered"]
          /\ UNCHANGED <<link, losses, handle, rows, given>>

Respond(u) ==
    /\ Quiet
    /\ \/ u \in Queries /\ (QueryResponse(u) \/ PrepareResponse(u) \/ ExecuteResponse(u) \/ FetchResponse(u))
       \/ CloseQueryResponse(u)
    /\ UNCHANGED <<execVars, protocol, closeVars, doing, step>>

\* A request that is never answered holds the queue.
Blocked == \E q \in Queries : stage[q] = "cut"

\* The session ends, and with it every statement the server had open in it.
EndSession ==
    /\ losses' = losses + 1
    /\ link' = "down"
    /\ server' = [h \in Handles |-> NoQuery]

\* The socket breaks: the rest of the table stays as it is.
Lose ==
    /\ Quiet
    /\ link = "up"
    /\ losses < MaxLosses
    /\ EndSession
    /\ UNCHANGED <<execVars, protocol, closeVars, doing, step, handle, rows, given>>

\* A closeQuery() in flight whose socket is gone counts as done.
CloseQueryByLoss(u) ==
    /\ InFlight(u)
    /\ doing[u] = "closeQuery"
    /\ Forget(u)
    /\ stage' = [stage EXCEPT ![u] = "answered"]

\* The 'error' listener fails the request in flight; an ECONNRESET is as good as
\* an answer for closeQuery().
SocketError ==
    /\ "reset" \in Faults
    /\ Lose
    /\ \/ /\ \A u \in Users : ~InFlight(u)
          /\ stage' = [stage EXCEPT ![Closing] = IF @ = "closing" THEN "failed" ELSE @]
          /\ UNCHANGED table
       \/ \E u \in Users : CloseQueryByLoss(u)
       \/ \E u \in Users :
          /\ InFlight(u)
          /\ stage' = [stage EXCEPT ![u] = "refused"]
          /\ UNCHANGED table

\* The server ends the connection: only a closeQuery() listens for that.  Whatever
\* else is in flight is never answered, and its task blocks the queue for good.
SocketEnd ==
    /\ "fin" \in Faults
    /\ Lose
    /\ \/ \E u \in Users : CloseQueryByLoss(u)
       \/ /\ \A u \in Users : InFlight(u) => doing[u] # "closeQuery"
          /\ stage' = [u \in Users |-> IF InFlight(u) THEN "cut"
                                       ELSE IF stage[u] = "closing" THEN "hung" ELSE stage[u]]
          /\ UNCHANGED table

\* The first promise callback behind a task calls its `done`.
Done(u) ==
    /\ stage[u] \in {"answered", "refused"}
    /\ Executor!Finish
    /\ stage' = [stage EXCEPT ![u] = IF @ = "answered" THEN "resumed" ELSE "rejected"]
    /\ UNCHANGED <<protocol, serverVars, table, closeVars, doing, step, handle, rows, given>>

\* The call that follows: a user who pages does so as often as it pleases.
FollowUps(q) ==
    CASE doing[q] = "query" -> {"fetch"}
      [] doing[q] = "fetch" /\ q \in Paging /\ step[q] + 1 < MaxStep -> {"fetch", "closeQuery"}
      [] OTHER -> {"closeQuery"}

EndsWithoutClosing(q) ==
    doing[q] = "closeQuery" \/ (doing[q] = "fetch" /\ Exhausted(table[handle[q]]))

Ends(q) == doing[q] = "closeQuery"

OnlyPending(u) == \A v \in Users : Pending(v) => v = u

\* queryAll(), or the user who pages, goes on when told the result.
Continue(q) ==
    /\ OnlyPending(q)
    /\ UNCHANGED <<protocol, serverVars, table, sweep, overtaken, handle, rows, given>>
    /\ \/ /\ stage[q] = "rejected"
          /\ stage' = [stage EXCEPT ![q] = "failed"]
          /\ UNCHANGED <<execVars, rivals, doing, step>>
       \/ /\ stage[q] = "resumed"
          /\ Ends(q)
          /\ stage' = [stage EXCEPT ![q] = "ok"]
          /\ UNCHANGED <<execVars, rivals, doing, step>>
       \/ /\ stage[q] = "resumed"
          /\ ~Ends(q)
          /\ step' = [step EXCEPT ![q] = @ + 1]
          /\ \E call \in FollowUps(q) : doing' = [doing EXCEPT ![q] = call]
          /\ Unshift(<<q, step'[q]>>)
          /\ stage' = [stage EXCEPT ![q] = "waiting"]
          /\ rivals' = rivals \cup ({q} \cap overtaken)

Registered == {h \in Handles : table[h] # NoPacket}

\* close(): the queue drops what waits, and never answers it; the handles of the
\* table are noted.
Close ==
    /\ Quiet
    /\ stage[Closing] = "idle"
    /\ UNCHANGED <<protocol, serverVars, table, doing, step, handle, rows, given>>
    /\ \/ /\ link = "down"
          /\ stage' = [stage EXCEPT ![Closing] = "ok"]
          /\ UNCHANGED <<execVars, closeVars>>
       \/ /\ link = "up"
          /\ Executor!Discard
          /\ waiting' = IF active = {} /\ waiting # <<>> THEN <<Head(waiting)>> ELSE <<>>
          /\ stage' = [u \in Users |-> IF u = Closing THEN "resumed"
                                       ELSE IF <<u, step[u]>> \in discarded' THEN "dropped"
                                       ELSE stage[u]]
          /\ sweep' = Registered
          /\ overtaken' = {q \in Queries : stage'[q] \notin {"idle", "dropped", "ok", "failed"}}
          /\ rivals' = {q \in overtaken' : stage'[q] = "waiting" \/ InFlight(q)}

\* The chain of close(): a closeQuery() for each handle, one after another, until
\* one fails; then, past the queue, the request that ends the session.  What a
\* write to a dead socket does depends on the release of node.
Sweep ==
    /\ OnlyPending(Closing)
    /\ UNCHANGED <<protocol, server, losses, table, overtaken, rivals, doing, rows, given>>
    /\ \/ /\ stage[Closing] = "rejected"
          /\ stage' = [stage EXCEPT ![Closing] = "failed"]
          /\ UNCHANGED <<execVars, link, sweep, step, handle>>
       \/ /\ stage[Closing] = "resumed"
          /\ sweep # {}
          /\ handle' = [handle EXCEPT ![Closing] = Min(sweep)]
          /\ sweep' = sweep \ {Min(sweep)}
          /\ step' = [step EXCEPT ![Closing] = @ + 1]
          /\ Unshift(<<Closing, step'[Closing]>>)
          /\ stage' = [stage EXCEPT ![Closing] = "waiting"]
          /\ UNCHANGED link
       \/ /\ stage[Closing] = "resumed"
          /\ sweep = {}
          /\ \/ /\ link = "up"
                /\ stage' = [stage EXCEPT ![Closing] = "closing"]
                /\ link' = IF \E q \in Queries : InFlight(q) THEN "shared" ELSE "up"
             \/ /\ link = "down"
                /\ \E end \in {"hung", "failed"} : stage' = [stage EXCEPT ![Closing] = end]
                /\ UNCHANGED link
          /\ UNCHANGED <<execVars, sweep, step, handle>>

\* The response to the last request of close(): whatever it says, the socket is
\* destroyed.
CloseResponse ==
    /\ Quiet
    /\ stage[Closing] = "closing"
    /\ EndSession
    /\ \E end \in {"ok", "failed"} : stage' = [stage EXCEPT ![Closing] = end]
    /\ UNCHANGED <<execVars, protocol, table, closeVars, doing, step, handle, rows, given>>

Next ==
    \/ \E q \in Queries : Query(q) \/ Continue(q)
    \/ \E u \in Users : Respond(u) \/ Done(u)
    \/ Start
    \/ SocketError
    \/ SocketEnd
    \/ Close
    \/ Sweep
    \/ CloseResponse

Spec == Init /\ [][Next]_vars

\* A refusal of rows that the server has.
RefusesRows(u) == doing[u] = "fetch" /\ HasRows(handle[u]) /\ stage'[u] = "refused"

\* The event loop runs what is due and the server answers, but nothing ends because
\* it must refuse some rows in the end; nobody makes a user call the next page, or
\* close().
Fairness ==
    /\ WF_vars(Start)
    /\ \A u \in Users : WF_vars(Respond(u) /\ ~RefusesRows(u)) /\ WF_vars(Done(u))
    /\ \A q \in Queries \ Paging : WF_vars(Continue(q))
    /\ WF_vars(Sweep)
    /\ WF_vars(CloseResponse)

FairSpec == Spec /\ Fairness

-----------------------------------------------------------------------------
\* README, "queryAll": the rows "include all records that matched the SQL
\* query": those of the statement, in order, and no others.
AllRows ==
    \A q \in Queries \ Paging : stage[q] = "ok" => rows[q] = RowsOf(q, 1, Rows[q])

\* They do as long as no session is lost, whatever calls come between, also those
\* of a close() beside it.  Only who pages and is overtaken by close() may go on
\* with a handle that means another's statement by then, and take its rows.
AllRowsUnlessLost == losses = 0 /\ overtaken \cap Paging = {} => AllRows

\* No row of a statement is parsed twice or skipped, whoever asks for it: the
\* cursor of the packet is where the server has been read to.
EachRowOnce == \A q \in Queries : given[q] = RowsOf(q, 1, Len(given[q]))

\* getMetaData(): what the table has under the handle, without asking anybody.
GetMetaData(h) == table[h].of

\* The handle of an open statement finds that statement, also when the handle was
\* used in an earlier session: for fetch(), getMetaData() and the sweep of
\* close().  The exception is what the old protocol prepared and did not execute.
OpenIsRegistered ==
    \A h \in Handles : server[h] # NoQuery =>
        \/ GetMetaData(h) = server[h]
        \/ protocol = "old" /\ stage[server[h]] \in {"executing", "refused", "rejected", "failed"}

\* A queryAll() that succeeds has closed its statement on the server, even when
\* another's call did that.
ClosedInTheEnd == \A q \in Queries : stage[q] = "ok" => q \notin Range(server)

\* A close() that fails in its own session, while nobody calls beside it for the
\* statements it sweeps, fails over one that the server has open and would not
\* close: never over what it, or a call before, has closed.
CloseFailsForAReason ==
    stage[Closing] = "failed" /\ losses = 0 /\ rivals = {} =>
        server[handle[Closing]] # NoQuery

\* README, "Closing a connection": "All in-flight queries will be requested to be
\* closed", by a close() that was answered, well or not.
AllRequestedToClose == stage[Closing] \in {"ok", "failed"} => sweep = {}

\* Every queryAll() and close() succeeds or fails, however long its rounds.  Not
\* answered are those that close() drops, a close() on a dead socket, a request in
\* flight when the server ended the connection, and what waits behind it.
EveryCallEnds ==
    \A u \in Users \ Paging :
        (stage[u] # "idle") ~>
            (stage[u] \in {"ok", "failed", "dropped", "hung"} \/ link = "shared" \/ Blocked)
=============================================================================

-------------------------- MODULE RequestPipeline --------------------------
(***************************************************************************)
(* The requests of one CUBRIDConnection from call to answer: the queue, the *)
(* implied connect(), the one response slot (_callback, _parserFunction:    *)
(* _receiveBytes) that every request overwrites when it is sent, and the    *)
(* socket, whose errors go to _socketCurrentEventCallback.                  *)
(*                                                                          *)
(* The protocol carries no request identity: the server answers in the      *)
(* order of arrival and the driver gives an answer to whoever owns the slot *)
(* then.  An exchange of several packets (prepare and execute, the rounds   *)
(* of a fetch) is one request here.  Promise callbacks run before the next  *)
(* event: they are the tasks of `micro`, and nothing else happens while     *)
(* there are any.  There is one socket at a time: what the late events of   *)
(* replaced sockets do to the flags is in BrokerConnect, and only there.    *)
(***************************************************************************)
EXTENDS Naturals, Sequences, SequencesExt

CONSTANTS
    Requests,   \* the calls of the API, one closure each
    NoRequest,
    Kind,       \* Requests -> "execute" (every call that is pushed: query,
                \*   execute, getSchema, lobNew, ...Parameter), "fetch",
                \*   "closeQuery", "commit", "rollback", "version", "close"
    Internal,   \* the closeQuery calls that close() makes itself
    Throwing,   \* the calls whose user callback throws when told the result
    Toggles,    \* does the user call setAutoCommitMode()?
    Faults,     \* what may happen: "serverError", "reset", "fin", "noconnect"
    MaxCalls,   \* bound: how many calls the user makes
    MaxFaults   \* bound: how many sockets die

Queued == {r \in Requests : Kind[r] \notin {"version", "close"}}
Urgent == {r \in Requests : Kind[r] \in {"fetch", "closeQuery", "commit", "rollback"}}

ASSUME PipelineAssumption ==
    /\ Requests \cap {NoRequest, "login"} = {}
    /\ Internal \subseteq {r \in Requests : Kind[r] = "closeQuery"}
    /\ Throwing \subseteq {r \in Queued \ Internal : Kind[r] # "commit"}
    /\ Toggles \in BOOLEAN
    /\ Faults \subseteq {"serverError", "reset", "fin", "noconnect"}
    /\ MaxCalls \in Nat
    /\ MaxFaults \in Nat

VARIABLES
    items, currentItem, immediates, runs, dones, accepted, dropped, node,
    link,          \* this._socket: "none", "open" (connectionOpened), "closed", or
                   \*   "taken": what connect() waits for was told to a rollback()
    connector,     \* who waits for connect(): connectionPending if anybody does
    autoCommit,    \* autoCommitMode
    wire,          \* requests written to the socket and not answered, in order
    listening,     \* has the socket a 'data' listener?
    slot,          \* whose callback is in this._callback
    eventCallback, \* whose callback is in this._socketCurrentEventCallback
    stage,         \* how far each call has come
    closer,        \* the close() that waits for each closeQuery of its own
    micro,         \* promise callbacks to run before the next event
    called,        \* history: the calls in order
    sent,          \* history: the requests in the order they were sent
    cut,           \* history: the requests whose answer the server's end cut off
    faults         \* history: sockets that died

queueVars == <<items, currentItem, immediates, runs, dones, accepted, dropped, node>>
socketVars == <<link, wire, listening>>
callVars == <<stage, closer, micro>>
vars == <<queueVars, socketVars, connector, autoCommit, slot, eventCallback, callVars,
          called, sent, cut, faults>>

\* An item may call `done` as often as the code of its request does.
Queue == INSTANCE RequestQueue WITH Request <- Queued, DoneLimit <- 9

\* The task of calling the `done` of r; a mutant calls the one of another.
DoneOfConnector(r) == [do |-> "done", of |-> connector]

Done(r) == [do |-> "done", of |-> r]

TypeOK ==
    /\ Queue!TypeOK
    /\ link \in {"none", "open", "closed", "taken"}
    /\ connector \in Requests \cup {NoRequest}
    /\ autoCommit \in BOOLEAN
    /\ wire \in Seq(Requests)
    /\ listening \in BOOLEAN
    /\ slot \in Requests \cup {NoRequest}
    /\ eventCallback \in Requests \cup {NoRequest, "login"}
    /\ stage \in [Requests -> {"idle", "called", "connecting", "sent", "closing",
                               "ok", "error", "dropped"}]
    /\ closer \in [Internal -> Requests \cup {NoRequest}]
    /\ micro \in Seq([do : {"done", "closeDatabase", "rejectClose"}, of : Requests])
    /\ called \in Seq(Requests)
    /\ sent \in Seq(Requests)
    /\ cut \subseteq Requests
    /\ faults \in 0..MaxFaults

Init ==
    /\ Queue!Init
    /\ link = "none"
    /\ connector = NoRequest
    /\ autoCommit = TRUE
    /\ wire = <<>>
    /\ listening = FALSE
    /\ slot = NoRequest
    /\ eventCallback = NoRequest
    /\ stage = [r \in Requests |-> "idle"]
    /\ closer = [r \in Internal |-> NoRequest]
    /\ micro = <<>>
    /\ called = <<>>
    /\ sent = <<>>
    /\ cut = {}
    /\ faults = 0

\* Between two events no promise callback is left to run.
Quiet == micro = <<>> /\ node = "up"

Answered(r) == stage[r] \in {"ok", "error"}

-----------------------------------------------------------------------------
(* Operators named after a fault are mutants of the definition they precede; *)
(* Next uses none of them.                                                   *)

\* Writing r to this._socket: the slots are overwritten whoever owns them, and
\* a dead socket swallows the request.
Send(r, line, live) ==
    /\ slot' = r
    /\ eventCallback' = r
    /\ listening' = live
    /\ wire' = IF live THEN Append(line, r) ELSE line
    /\ stage' = [stage EXCEPT ![r] = "sent"]
    /\ sent' = Append(sent, r)

FollowersOfSuccess(r, outcome) ==
    IF outcome = "ok" /\ r \in Queued THEN <<Done(r)>> ELSE <<>>

\* The promise callbacks behind the outcome of r.  A queued request calls
\* `done`, and again from its .catch() if the user's callback throws out of its
\* .then(); a close() that waits for r goes on.
Followers(r, outcome) ==
    CASE r \in Internal ->
            <<Done(r), [do |-> IF outcome = "ok" THEN "closeDatabase" ELSE "rejectClose",
                        of |-> closer[r]]>>
      [] r \in Throwing /\ outcome = "ok" -> <<Done(r), Done(r)>>
      [] r \in Queued \ (Internal \cup Throwing) -> <<Done(r)>>
      [] r \in Throwing /\ outcome # "ok" -> <<Done(r)>>
      [] OTHER -> <<>>

\* The callback of r is called; a settled promise ignores it, but commit's
\* callback is no promise's and calls `done` each time.
Settle(r, outcome) ==
    IF Answered(r)
    THEN /\ micro' = IF Kind[r] = "commit" THEN <<Done(r)>> ELSE <<>>
         /\ UNCHANGED stage
    ELSE /\ stage' = [stage EXCEPT ![r] = outcome]
         /\ micro' = Followers(r, outcome)

ProceedWithoutWaiting(r, line, left) ==
    /\ Send(r, line, TRUE)
    /\ micro' = IF r \in Queued THEN <<Done(r)>> ELSE <<>>

\* connect() has resolved for r and left one in eventCallback: r is sent unless it
\* ends without the server (an empty batch, several statements at once, an unknown
\* query handle, a fetch after the last tuple, which leaves its own callback).
Proceed(r, line, left) ==
    \/ /\ Send(r, line, TRUE)
       /\ UNCHANGED micro
    \/ \E outcome \in CASE Kind[r] \in {"execute", "fetch"} -> {"ok", "error"}
                        [] Kind[r] = "closeQuery" -> {"error"}
                        [] OTHER -> {} :
          /\ Settle(r, outcome)
          /\ wire' = line
          /\ eventCallback' = IF Kind[r] = "fetch" /\ outcome = "ok" THEN r ELSE left
          /\ UNCHANGED <<slot, listening, sent>>

\* connect() as r calls it: resolved at once, denied while another waits, or
\* started anew.
Connect(r) ==
    \/ /\ link = "open"
       /\ Proceed(r, wire, eventCallback)
       /\ UNCHANGED <<link, connector>>
    \/ /\ link # "open"
       /\ connector # NoRequest
       /\ Settle(r, "error")
       /\ UNCHANGED <<socketVars, connector, slot, eventCallback, sent>>
    \/ /\ link # "open"
       /\ connector = NoRequest
       /\ connector' = r
       /\ eventCallback' = "login"
       /\ stage' = [stage EXCEPT ![r] = "connecting"]
       /\ UNCHANGED <<socketVars, slot, micro, sent>>

-----------------------------------------------------------------------------
\* A call of a queued API function.
CallQueued(r) ==
    /\ Quiet
    /\ r \in Queued \ Internal
    /\ stage[r] = "idle"
    /\ Len(called) < MaxCalls
    /\ Queue!Push(r) \/ Queue!Unshift(r)
    /\ stage' = [stage EXCEPT ![r] = "called"]
    /\ called' = Append(called, r)
    /\ UNCHANGED <<socketVars, connector, autoCommit, slot, eventCallback, closer, micro,
                   sent, cut, faults>>

\* getEngineVersion() connects and sends without asking the queue.
CallVersion(r) ==
    /\ Quiet
    /\ Kind[r] = "version"
    /\ stage[r] = "idle"
    /\ Len(called) < MaxCalls
    /\ Connect(r)
    /\ called' = Append(called, r)
    /\ UNCHANGED <<queueVars, autoCommit, closer, cut, faults>>

\* close(): it drops what waits in the queue, closes the open queries through
\* the queue (one, i, if any) and then the database, on the socket as it is.
CallClose(r) ==
    /\ Quiet
    /\ Kind[r] = "close"
    /\ stage[r] = "idle"
    /\ Len(called) < MaxCalls
    /\ called' = Append(called, r)
    /\ \/ /\ link # "open"
          /\ stage' = [stage EXCEPT ![r] = "ok"]
          /\ UNCHANGED <<queueVars, socketVars, slot, eventCallback, closer, sent>>
       \/ /\ link = "open"
          /\ Queue!Empty
          /\ slot' = r
          /\ eventCallback' = r
          /\ listening' = TRUE
          /\ wire' = Append(wire, r)
          /\ sent' = Append(sent, r)
          /\ stage' = [q \in Requests |-> IF q = r THEN "sent"
                         ELSE IF q \in Queue!Waiting THEN "dropped" ELSE stage[q]]
          /\ UNCHANGED <<link, closer>>
       \/ \E i \in Internal :
          /\ link = "open"
          /\ stage[i] = "idle"
          /\ accepted' = accepted \cup {i}
          /\ dropped' = dropped \cup Queue!Waiting
          /\ Queue!Process(<<i>>, currentItem)
          /\ closer' = [closer EXCEPT ![i] = r]
          /\ stage' = [q \in Requests |-> IF q = r THEN "closing" ELSE IF q = i THEN "called"
                         ELSE IF q \in Queue!Waiting THEN "dropped" ELSE stage[q]]
          /\ UNCHANGED <<runs, dones, node, socketVars, slot, eventCallback, sent>>
    /\ UNCHANGED <<connector, autoCommit, micro, cut, faults>>

\* setAutoCommitMode(), beginTransaction(), endTransaction() only set a flag.
SetAutoCommitMode(mode) ==
    /\ Quiet
    /\ Toggles
    /\ autoCommit' = mode
    /\ UNCHANGED <<queueVars, socketVars, connector, slot, eventCallback, callVars,
                   called, sent, cut, faults>>

\* Has rollback(), which looks at no flag, a socket to write to?  While a connect()
\* is under way it has the one that is being connected.
HasSocket(r) ==
    link = "open" \/ (Kind[r] = "rollback" /\ (link = "closed" \/ connector # NoRequest))

\* What commit() and rollback() do when their item is called.  Without a socket
\* they fail, on a dead one a rollback() fails or is lost, as the release of node
\* has it, and on one that is being connected it takes the callbacks over.
EndTransaction(r) ==
    \/ /\ autoCommit \/ (link # "open" /\ (Kind[r] = "commit" \/ connector = NoRequest))
       /\ Settle(r, "error")
       /\ UNCHANGED <<wire, listening, slot, eventCallback, sent>>
    \/ /\ ~autoCommit
       /\ HasSocket(r)
       /\ Send(r, wire, link = "open")
       /\ UNCHANGED micro

\* The queue calls the item of request r.
RunItem ==
    /\ Quiet
    /\ Queue!RunImmediate
    /\ \/ /\ currentItem = NoRequest
          /\ UNCHANGED <<socketVars, connector, slot, eventCallback, stage, micro, sent>>
       \/ /\ currentItem # NoRequest
          /\ Kind[currentItem] \in {"execute", "fetch", "closeQuery"}
          /\ Connect(currentItem)
       \/ /\ currentItem # NoRequest
          /\ Kind[currentItem] \in {"commit", "rollback"}
          /\ EndTransaction(currentItem)
          /\ UNCHANGED <<link, connector>>
    /\ UNCHANGED <<autoCommit, closer, called, cut, faults>>

\* The next promise callback.
Microtask ==
    /\ micro # <<>>
    /\ node = "up"
    /\ LET task == Head(micro) IN
       /\ micro' = Tail(micro)
       /\ \/ /\ task.do = "done"
             /\ Queue!Done(task.of)
             /\ UNCHANGED <<wire, listening, slot, eventCallback, stage, sent>>
          \/ /\ task.do = "closeDatabase"
             /\ Send(task.of, wire, link = "open")
             /\ UNCHANGED queueVars
          \/ /\ task.do = "rejectClose"
             /\ stage' = [stage EXCEPT ![task.of] = "error"]
             /\ UNCHANGED <<queueVars, wire, listening, slot, eventCallback, sent>>
    /\ UNCHANGED <<link, connector, autoCommit, closer, called, cut, faults>>

-----------------------------------------------------------------------------
\* The login succeeded: _parseDatabaseLoginBuffer resets the session's mode.  Its
\* callbacks replaced those of a rollback() that came before it.
ConnectDone ==
    /\ Quiet
    /\ connector # NoRequest
    /\ link # "taken"
    /\ link' = "open"
    /\ autoCommit' = TRUE
    /\ connector' = NoRequest
    /\ Proceed(connector, <<>>, "login")
    /\ UNCHANGED <<queueVars, closer, called, cut, faults>>

\* No host could be reached, or the login was refused.
ConnectFailed ==
    /\ Quiet
    /\ "noconnect" \in Faults
    /\ connector # NoRequest
    /\ link # "taken"
    /\ connector' = NoRequest
    /\ link' = "closed"
    /\ Settle(connector, "error")
    /\ UNCHANGED <<queueVars, wire, listening, autoCommit, slot, eventCallback, closer,
                   called, sent, cut, faults>>

\* The answer to the login, or the error of its socket, is given to the rollback()
\* that wrote to this socket meanwhile: connect() is never told and stays pending.
LoginTaken ==
    /\ Quiet
    /\ connector # NoRequest
    /\ eventCallback \in Requests
    /\ stage[eventCallback] = "sent"
    /\ link' = "taken"
    /\ \E outcome \in {"ok", "error"} : Settle(eventCallback, outcome)
    /\ UNCHANGED <<queueVars, connector, autoCommit, wire, listening, slot, eventCallback,
                   closer, called, sent, cut, faults>>

\* What the owner of the slot makes of a response: a response of its own is
\* parsed, one that is not is misread in one way or another.
Outcomes(owner, from) ==
    IF "serverError" \in Faults \/ owner # from THEN {"ok", "error"} ELSE {"ok"}

\* The answer to the oldest request arrives.  Nobody hears it when the answer to
\* another took the listener away.  close()'s destroys the socket.
Respond ==
    /\ Quiet
    /\ link = "open"
    /\ wire # <<>>
    /\ \/ /\ ~listening
          /\ wire' = Tail(wire)
          /\ UNCHANGED <<link, listening, stage, micro>>
       \/ /\ listening
          /\ listening' = FALSE
          /\ \E outcome \in Outcomes(slot, Head(wire)) : Settle(slot, outcome)
          /\ IF Kind[slot] = "close"
             THEN link' = "closed" /\ wire' = <<>>
             ELSE wire' = Tail(wire) /\ UNCHANGED link
    /\ UNCHANGED <<queueVars, connector, autoCommit, slot, eventCallback, closer, called,
                   sent, cut, faults>>

SocketDies ==
    /\ Quiet
    /\ link = "open"
    /\ faults < MaxFaults
    /\ faults' = faults + 1
    /\ link' = "closed"
    /\ wire' = <<>>
    /\ listening' = FALSE
    /\ UNCHANGED <<queueVars, connector, autoCommit, slot, closer, called, sent>>

\* The 'error' listener hands the error to the callback stored last; the
\* callback of the login has nothing left to do, and a reset is as good as an
\* answer for closeQuery().
SocketError ==
    /\ "reset" \in Faults
    /\ SocketDies
    /\ UNCHANGED cut
    /\ eventCallback' = NoRequest
    /\ \/ /\ eventCallback = "login"
          /\ UNCHANGED <<stage, micro>>
       \/ /\ eventCallback \in Requests
          /\ \E outcome \in IF Kind[eventCallback] = "closeQuery" THEN {"ok", "error"}
                            ELSE {"error"} :
                Settle(eventCallback, outcome)

\* The server ended the connection: only a closeQuery() listens for that.
SocketEnd ==
    /\ "fin" \in Faults
    /\ SocketDies
    /\ UNCHANGED eventCallback
    /\ cut' = cut \cup {r \in Requests : stage[r] = "sent" /\ Kind[r] # "closeQuery"}
    /\ \/ /\ \A r \in Requests : Kind[r] = "closeQuery" => stage[r] # "sent"
          /\ UNCHANGED <<stage, micro>>
       \/ \E r \in Requests :
             /\ Kind[r] = "closeQuery"
             /\ stage[r] = "sent"
             /\ Settle(r, "ok")

Next ==
    \/ \E r \in Requests : CallQueued(r) \/ CallVersion(r) \/ CallClose(r)
    \/ \E mode \in BOOLEAN : SetAutoCommitMode(mode)
    \/ RunItem
    \/ Microtask
    \/ ConnectDone
    \/ ConnectFailed
    \/ LoginTaken
    \/ Respond
    \/ SocketError
    \/ SocketEnd

Spec == Init /\ [][Next]_vars

\* Node runs what it scheduled, connect() comes to an end (BrokerConnect) and
\* the server answers what it was sent.
Fairness ==
    /\ WF_vars(RunItem)
    /\ WF_vars(Microtask)
    /\ WF_vars(ConnectDone \/ ConnectFailed)
    /\ WF_vars(Respond)

FairSpec == Spec /\ Fairness

-----------------------------------------------------------------------------
\* A request whose answer is awaited will hear it, unless the server's end cut it
\* off: the socket has it to answer, somebody listens and both callbacks are its
\* own.
AwaitedIsHeard ==
    \A r \in Requests :
        stage[r] = "sent" /\ r \notin cut =>
            r \in ToSet(wire) /\ listening /\ slot = r /\ eventCallback = r

\* No request is sent twice: an INSERT that is executed is executed once.
SentOnce == IsInjective(sent)

\* Only a request that called its `done` twice can do that.
OnlyRepeatedDoneResends == Queue!RepeatedDone \/ SentOnce

Before(seq, r, s) == \E i, j \in 1..Len(seq) : i < j /\ seq[i] = r /\ seq[j] = s

\* The pushed requests reach the server in the order of their calls, whatever
\* urgent ones, reconnects and errors come between.
PushedInOrder ==
    \A r, s \in Queued \ Urgent :
        Before(called, r, s) => ~Before(sent, s, r)

\* The queue is a serial executor in the hands of these requests, too: each calls
\* its `done` once, after it was called (the abstract specification).
SerialisesRequests == Queue!ImplementsExecutor

\* getEngineVersion() and close(), which ask no queue, take the slot and the answer
\* of the request in flight; but they are the only ones: a queued request that is
\* not heard was sent before one of them.  (A rollback() finds no socket, or that of
\* a connect() under way; callers who repeat their `done` break the queue itself.)
HeardUnlessOvertaken ==
    Queue!RepeatedDone \/
    \A r \in Queued :
        stage[r] = "sent" /\ r \notin cut =>
            \/ r \in ToSet(wire) /\ listening /\ slot = r /\ eventCallback = r
            \/ \E s \in Requests \ Queued : Before(sent, r, s)
            \/ Kind[r] = "rollback" /\ link # "open"

\* README, "Queueing": requests are queued "as they come in (FIFO)".
FirstInFirstOut ==
    \A r, s \in Queued : Before(called, r, s) => ~Before(sent, s, r)

\* Every call of the API is answered, unless the server ended the connection with
\* a request in flight: that one blocks the queue for good.
EveryCallIsAnswered ==
    \A r \in Requests : (stage[r] \notin {"idle", "dropped"}) ~> (Answered(r) \/ cut # {})
=============================================================================

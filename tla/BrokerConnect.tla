---------------------------- MODULE BrokerConnect ---------------------------
(***************************************************************************)
(* How src/CUBRIDConnection.js establishes a session: connect() asks a      *)
(* broker of the host list for a port (_doGetBrokerPort), moving to the     *)
(* next host and starting over when hosts refuse or time out, then logs in  *)
(* (_doDatabaseLogin) on a new socket, or on the same one when the port is  *)
(* 0.  Every socket keeps listeners that write to the shared connection     *)
(* object (_setSocketTimeoutErrorListeners), also after it was replaced.    *)
(*                                                                          *)
(* An event and the promise callbacks it triggers are one step: node runs   *)
(* them before the next I/O event.  The 'close' that follows an 'error' or  *)
(* a destroy() of the same socket is part of that step too: it clears the   *)
(* flag they cleared.  What a socket does on a server close is SocketClose. *)
(***************************************************************************)
EXTENDS Naturals, FiniteSets, FiniteSetsExt

CONSTANTS
    NumHosts,     \* hosts.length
    MaxRetry,     \* maxConnectionRetryCount
    HasTimeout,   \* connectionTimeout > 0
    Ports,        \* what a broker may answer: "same" (0), "new", "error" (< 0)
    Faults,       \* what may happen: "refused", "reset", "fin" (the server ends a
                  \*   session), "early" (it ends a handshake), "throw" (out of the
                  \*   user's callback)
    MaxStale,     \* bound: errors of replaced sockets, and closes that clear the flag
    MaxConnects,  \* bound: calls of connect()
    MaxSockets    \* bound: sockets ever created

ASSUME ConnectAssumption ==
    /\ NumHosts \in Nat \ {0}
    /\ MaxRetry \in Nat \ {0}
    /\ HasTimeout \in BOOLEAN
    /\ Ports \subseteq {"same", "new", "error"}
    /\ Faults \subseteq {"refused", "reset", "fin", "early", "throw"}
    /\ MaxStale \in Nat
    /\ MaxConnects \in Nat
    /\ MaxSockets \in Nat

VARIABLES
    hostIndex,     \* currentHostIndex
    retryCount,    \* connectionRetryCount
    opened,        \* connectionOpened
    pending,       \* connectionPending
    brokerPort,    \* connectionBrokerPort: what the broker answered last
    sockets,       \* the sockets, in order of creation
    last,          \* the socket created last
    current,       \* this._socket
    eventCallback, \* this._socketCurrentEventCallback
    slot,          \* the login attempt whose callback is in this._callback
    awaited,       \* the attempt whose promise connect() waits for
    tried,         \* history: attempts per host in the latest connect()
    fresh,         \* history: did the latest connect() start with counters at 0?
    result,        \* history: the outcome of each connect()
    calls,         \* history: calls of connect() so far
    stale,         \* history: errors of replaced sockets so far, and their closes
                   \*   while the connection was open
    node           \* "crashed" once a listener threw

counterVars == <<hostIndex, retryCount>>
flagVars == <<opened, pending>>
socketVars == <<brokerPort, sockets, last, current, eventCallback, slot>>
historyVars == <<tried, fresh, result, calls, stale>>
vars == <<counterVars, flagVars, socketVars, awaited, historyVars, node>>

Hosts == 0..(NumHosts - 1)
Calls == 1..MaxConnects
SocketIds == 1..MaxSockets

\* An attempt is known by its role and its socket; its callback by the same.
None == <<"none", 0>>
Attempts == {None} \cup ({"broker", "login"} \X SocketIds)

\* host: where it was opened to; listens: its 'data' listeners; timer: the
\* callback of its armed 'timeout' listener; session: the server logged us in.
Socket ==
    [life : {"unused", "connecting", "connected", "dead"},
     host : Nat,
     listens : {"none", "broker", "login", "both"},
     timer : {"none", "broker", "login"},
     session : BOOLEAN]

Unused == [life |-> "unused", host |-> 0, listens |-> "none", timer |-> "none",
           session |-> FALSE]

Alive(i) == sockets[i].life \in {"connecting", "connected"}

TypeOK ==
    /\ hostIndex \in Nat
    /\ retryCount \in Nat
    /\ opened \in BOOLEAN
    /\ pending \in BOOLEAN
    /\ brokerPort \in {"none"} \cup Ports
    /\ sockets \in [SocketIds -> Socket]
    /\ last \in 0..MaxSockets
    /\ current \in 0..MaxSockets
    /\ eventCallback \in Attempts
    /\ slot \in 0..MaxSockets
    /\ awaited \in Attempts
    /\ tried \in [Hosts -> Nat]
    /\ fresh \in BOOLEAN
    /\ result \in [Calls -> {"none", "waiting", "resolved", "denied",
                             "unreachable", "failed", "badHost"}]
    /\ calls \in 0..MaxConnects
    /\ stale \in 0..MaxStale
    /\ node \in {"up", "crashed"}

Init ==
    /\ hostIndex = 0
    /\ retryCount = 0
    /\ opened = FALSE
    /\ pending = FALSE
    /\ brokerPort = "none"
    /\ sockets = [i \in SocketIds |-> Unused]
    /\ last = 0
    /\ current = 0
    /\ eventCallback = None
    /\ slot = 0
    /\ awaited = None
    /\ tried = [h \in Hosts |-> 0]
    /\ fresh = FALSE
    /\ result = [c \in Calls |-> "none"]
    /\ calls = 0
    /\ stale = 0
    /\ node = "up"

-----------------------------------------------------------------------------
(* Operators named after a fault (NeverDenied, OpenedUntimed, ...) are       *)
(* mutants of the definition they precede; Next uses none of them.           *)

\* The outcome of connect() if it waits for `attempt`, else the outcome of a
\* promise nobody looks at.
Settle(attempt, outcome) ==
    IF awaited = attempt
    THEN /\ awaited' = None
         /\ pending' = FALSE
         /\ result' = [c \in Calls |-> IF result[c] = "waiting" THEN outcome ELSE result[c]]
    ELSE UNCHANGED <<awaited, pending, result>>

OpenedUntimed(role, host) ==
    [life |-> "connecting", host |-> host, listens |-> role, timer |-> "none",
     session |-> FALSE]

Opened(role, host) ==
    [life |-> "connecting", host |-> host, listens |-> role,
     timer |-> IF HasTimeout THEN role ELSE "none", session |-> FALSE]

Silenced(s) == [s EXCEPT !.listens = "none", !.timer = "none"]
Undead(s) == Silenced(s)
Died(s) == [Silenced(s) EXCEPT !.life = "dead", !.session = FALSE]

\* _doGetBrokerPort: `attempt` is the promise that adopts the new one.
GetBrokerPort(known, attempt, host) ==
    /\ last < MaxSockets
    /\ last' = last + 1
    /\ current' = last + 1
    /\ sockets' = [known EXCEPT ![last + 1] = Opened("broker", host)]
    /\ eventCallback' = <<"broker", last + 1>>
    /\ awaited' = IF awaited = attempt THEN <<"broker", last + 1>> ELSE awaited

TryHost(known, i, host) ==
    /\ hostIndex' = host
    /\ GetBrokerPort(known, <<"broker", i>>, host)
    /\ tried' = [tried EXCEPT ![host] = @ + 1]
    /\ UNCHANGED <<pending, result>>

HostsLeftButLast == hostIndex + 2 < NumHosts

HostsLeft == hostIndex + 1 < NumHosts
RetriesLeft == retryCount < MaxRetry

\* The callback of broker attempt i with an error; `known` are the sockets and
\* `left` is the eventCallback as the event left them.
BrokerError(known, left, i, err) ==
    \/ /\ err \in {"refused", "timeout"}
       /\ HostsLeft
       /\ TryHost(known, i, hostIndex + 1)
       /\ UNCHANGED retryCount
    \/ /\ err \in {"refused", "timeout"}
       /\ ~HostsLeft
       /\ RetriesLeft
       /\ retryCount' = retryCount + 1
       /\ TryHost(known, i, 0)
    \/ /\ err \in {"refused", "timeout"}
       /\ ~HostsLeft
       /\ ~RetriesLeft
       /\ hostIndex' = hostIndex + 1
       /\ retryCount' = retryCount + 1
       /\ Settle(<<"broker", i>>, "unreachable")
       /\ sockets' = known
       /\ eventCallback' = left
       /\ UNCHANGED <<last, current, tried>>
    \/ /\ err \notin {"refused", "timeout"}
       /\ Settle(<<"broker", i>>, "failed")
       /\ sockets' = known
       /\ eventCallback' = left
       /\ UNCHANGED <<counterVars, last, current, tried>>

\* The callback of login attempt i with an error clears its socket's timer.
LoginError(known, left, i) ==
    /\ sockets' = [known EXCEPT ![i].timer = "none"]
    /\ eventCallback' = left
    /\ Settle(<<"login", i>>, "failed")
    /\ UNCHANGED <<counterVars, last, current, tried>>

\* The callback of the listener or of the connection, whichever `attempt` is.
AttemptError(known, left, attempt, err) ==
    IF attempt[1] = "broker"
    THEN BrokerError(known, left, attempt[2], err)
    ELSE LoginError(known, left, attempt[2])

-----------------------------------------------------------------------------
NeverDenied == FALSE
Denied == pending

\* connect(), called by the user or by the function of a queued request.
Connect(c) ==
    /\ node = "up"
    /\ c = calls + 1
    /\ calls' = c
    /\ \/ /\ opened
          /\ result' = [result EXCEPT ![c] = "resolved"]
          /\ UNCHANGED <<counterVars, flagVars, socketVars, awaited, tried, fresh>>
       \/ /\ ~opened
          /\ Denied
          /\ result' = [result EXCEPT ![c] = "denied"]
          /\ UNCHANGED <<counterVars, flagVars, socketVars, awaited, tried, fresh>>
       \/ /\ ~opened
          /\ ~Denied
          /\ hostIndex < NumHosts
          /\ pending' = TRUE
          /\ result' = [result EXCEPT ![c] = "waiting"]
          /\ fresh' = (hostIndex = 0 /\ retryCount = 0)
          /\ tried' = [h \in Hosts |-> IF h = hostIndex THEN 1 ELSE 0]
          /\ GetBrokerPort(sockets, None, hostIndex)
          /\ UNCHANGED <<counterVars, opened, brokerPort, slot>>
       \* hosts[currentHostIndex] is undefined: the TypeError rejects.
       \/ /\ ~opened
          /\ ~Denied
          /\ hostIndex >= NumHosts
          /\ result' = [result EXCEPT ![c] = "badHost"]
          /\ fresh' = FALSE
          /\ tried' = [h \in Hosts |-> 0]
          /\ UNCHANGED <<counterVars, flagVars, socketVars, awaited>>
    /\ UNCHANGED <<stale, node>>

InvalidateRetryCount == retryCount' = 0 - 1
ResetRetryCount == retryCount' = 0

\* A login on a socket that still waits for a broker's answer adds its listener.
WithLogin(listens) == IF listens \in {"broker", "both"} THEN "both" ELSE "login"

\* The 'data' listener of a broker socket.  The answer of an attempt nobody
\* waits for any more resets the counter and starts no login.  A login's listener
\* beside it takes the four bytes for the length of a response that never comes.
BrokerReply(i, port) ==
    /\ node = "up"
    /\ Alive(i)
    /\ sockets[i].listens \in {"broker", "both"}
    /\ brokerPort' = port
    /\ LET known == [sockets EXCEPT ![i] = [Silenced(@) EXCEPT !.life = "connected"]]
       IN \/ /\ port = "error"
             /\ opened' = (opened /\ awaited # <<"broker", i>>)
             /\ BrokerError(known, eventCallback, i, "port")
             /\ UNCHANGED slot
          \/ /\ port # "error"
             /\ awaited # <<"broker", i>>
             /\ ResetRetryCount
             /\ sockets' = known
             /\ UNCHANGED <<hostIndex, flagVars, last, current, eventCallback, slot,
                            awaited, tried, result>>
          \/ /\ port = "new"
             /\ awaited = <<"broker", i>>
             /\ last < MaxSockets
             /\ ResetRetryCount
             /\ last' = last + 1
             /\ current' = last + 1
             /\ sockets' = [known EXCEPT ![last + 1] = Opened("login", hostIndex)]
             /\ eventCallback' = <<"login", last + 1>>
             /\ awaited' = <<"login", last + 1>>
             /\ slot' = last + 1
             /\ UNCHANGED <<hostIndex, flagVars, tried, result>>
          \* The login reuses this._socket with the listeners it has.
          \/ /\ port = "same"
             /\ awaited = <<"broker", i>>
             /\ ResetRetryCount
             /\ sockets' = [known EXCEPT ![current].listens = WithLogin(@)]
             /\ awaited' = <<"login", current>>
             /\ slot' = current
             /\ UNCHANGED <<hostIndex, flagVars, last, current, eventCallback, tried, result>>
    /\ UNCHANGED <<fresh, calls, stale, node>>

\* The 'data' listener of a login: the response is parsed for whichever login
\* is in this._callback and silences this._socket, not socket i.
LoginReply(i, ok) ==
    /\ node = "up"
    /\ Alive(i)
    /\ sockets[i].listens = "login"
    /\ LET known == [[sockets EXCEPT ![i].life = "connected", ![i].listens = "none",
                                     ![i].session = ok]
                       EXCEPT ![current] = Silenced(@), ![slot].timer = "none"]
       IN \/ /\ ~ok
             /\ opened' = (opened /\ awaited # <<"login", slot>>)
             /\ LoginError(known, eventCallback, slot)
          \* cb() opens the connection; if the user's callback throws, the
          \* `.catch(cb)` behind it marks the connection as closed again.
          \/ /\ ok
             /\ sockets' = known
             /\ Settle(<<"login", slot>>, "resolved")
             /\ \/ opened' = (opened \/ awaited = <<"login", slot>>)
                \/ "throw" \in Faults /\ awaited = <<"login", slot>> /\ opened' = FALSE
             /\ UNCHANGED <<counterVars, last, current, eventCallback, tried>>
    /\ UNCHANGED <<brokerPort, slot, fresh, calls, stale, node>>

KeepOpened == opened' = opened

\* What the 'timeout', 'error' and 'close' listeners of any socket start with.
ClearOpened == opened' = FALSE

\* Counts an event of a replaced socket that meets the connection in use.
CountStale(disturbs) ==
    /\ disturbs => stale < MaxStale
    /\ stale' = IF disturbs THEN stale + 1 ELSE stale

\* The 'timeout' listener of a socket that waits for its first answer.
SocketTimeout(i) ==
    /\ node = "up"
    /\ Alive(i)
    /\ sockets[i].timer # "none"
    /\ ClearOpened
    /\ AttemptError([sockets EXCEPT ![i] = Died(@)], eventCallback,
                    <<sockets[i].timer, i>>, "timeout")
    /\ UNCHANGED <<brokerPort, slot, fresh, calls, stale, node>>

\* The 'error' listener: it takes whatever callback is current, be it the one
\* of another socket's attempt.
SocketError(i, err) ==
    /\ node = "up"
    /\ Alive(i)
    /\ err \in Faults \cap {"refused", "reset"}
    /\ err = "refused" => sockets[i].life = "connecting"
    /\ CountStale(i # current)
    /\ ClearOpened
    /\ LET known == [sockets EXCEPT ![i] = Died(@)]
       IN \/ /\ eventCallback = None
             /\ node' = "crashed"
             /\ sockets' = known
             /\ UNCHANGED <<counterVars, pending, last, current, eventCallback,
                            awaited, tried, result>>
          \/ /\ eventCallback # None
             /\ AttemptError(known, None, eventCallback, err)
             /\ UNCHANGED node
    /\ UNCHANGED <<brokerPort, slot, fresh, calls>>

\* The 'close' listener when the server closed the connection, or answered the
\* end() of a broker socket: it clears the flag of the connection and calls nobody
\* back.  While the flag is not set the close of a replaced socket changes nothing.
SocketClose(i) ==
    /\ node = "up"
    /\ Alive(i)
    /\ CountStale(i # current /\ opened)
    /\ i = current => IF sockets[i].session THEN "fin" \in Faults ELSE "early" \in Faults
    /\ sockets' = [sockets EXCEPT ![i] = Died(@)]
    /\ ClearOpened
    /\ UNCHANGED <<counterVars, pending, brokerPort, last, current, eventCallback, slot,
                   awaited, tried, fresh, result, calls, node>>

Next ==
    \/ \E c \in Calls : Connect(c)
    \/ \E i \in SocketIds, p \in Ports : BrokerReply(i, p)
    \/ \E i \in SocketIds, ok \in BOOLEAN : LoginReply(i, ok)
    \/ \E i \in SocketIds : SocketTimeout(i) \/ SocketClose(i)
    \/ \E i \in SocketIds, err \in {"refused", "reset"} : SocketError(i, err)

Spec == Init /\ [][Next]_vars

\* An armed socket timer fires unless the socket answers or dies first.
FairSpec == Spec /\ \A i \in SocketIds : WF_vars(SocketTimeout(i))

-----------------------------------------------------------------------------
\* connectionPending is set exactly while one connect() waits for one attempt:
\* no second connect() gets past the semaphore.
PendingIsExclusive ==
    /\ Cardinality({c \in Calls : result[c] = "waiting"}) = IF pending THEN 1 ELSE 0
    /\ pending <=> awaited # None
    /\ ~(pending /\ opened)

\* getActiveHost() reports the host the session is with: no failover step, of
\* whichever attempt, moves currentHostIndex under an open connection, as long as
\* replaced sockets keep quiet.
ActiveHostIsConnected == opened /\ stale = 0 => sockets[current].host = hostIndex

\* The connection counts as open only while _socket carries a session, as long as
\* replaced sockets keep quiet.
OpenedIsLoggedIn == opened /\ stale = 0 => sockets[current].session

\* A connect() that started afresh gives up for unreachable hosts only after
\* maxConnectionRetryCount retries of every one of them.  It may try more often:
\* the late answer of an abandoned attempt resets the counter.
GivesUpAfterAllTries ==
    \A c \in Calls :
        c = calls /\ fresh /\ result[c] = "unreachable" =>
            \A h \in Hosts : tried[h] >= MaxRetry + 1

\* The constructor's semaphore: "prevent double-connect-attempts".
Sessions == {i \in SocketIds : Alive(i) /\ sockets[i].session}
SingleSession == Cardinality(Sessions) <= 1

\* README: a connection is retried maxConnectionRetryCount times in case of
\* failure; so a failed connect() did try a host.
FailedConnectTriedAHost == \A c \in Calls : result[c] # "badHost"

\* The 'error' listener throws out of the event loop only for the error of a
\* socket that was replaced: the current one's finds a callback, whatever
\* attempts, answers and errors came before.
CurrentErrorIsHandled == node = "crashed" => stale > 0

\* What connect() waits for will not come: a socket the server closed has no
\* events left, a login on the broker's own socket (the one that has answered
\* before) has no timer, and the answer to an earlier login, abandoned when the
\* error of a replaced socket was taken for its own, takes the listeners off the
\* socket that is current by then.
Forsaken ==
    /\ awaited # None
    /\ LET s == sockets[awaited[2]] IN
       \/ s.life = "dead"
       \/ awaited[1] = "login" /\ s.life = "connected"
       \/ stale > 0 /\ s.listens = "none"

\* Every connect() is answered, with connectionTimeout set, unless it is forsaken
\* or a listener threw, whatever late events of replaced sockets come between.
\* (The run creates MaxSockets sockets and no more.)
ConnectSettles ==
    \A c \in Calls :
        (result[c] = "waiting") ~>
            (result[c] # "waiting" \/ Forsaken \/ node = "crashed"
                \/ last = MaxSockets)
=============================================================================

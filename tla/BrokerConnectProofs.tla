------------------------ MODULE BrokerConnectProofs -------------------------
(***************************************************************************)
(* Proofs about the establishment of a connection, for any number of hosts, *)
(* retries, calls of connect(), sockets, and late events of replaced ones.  *)
(***************************************************************************)
EXTENDS BrokerConnect, FiniteSetTheorems, TLAPS

\* One connect() at a time waits, for one attempt; the calls to come do not.
WaitingInv ==
    /\ pending <=> awaited # None
    /\ pending => \E c \in Calls : {d \in Calls : result[d] = "waiting"} = {c}
    /\ ~pending => \A c \in Calls : result[c] # "waiting"
    /\ \A c \in Calls : c > calls => result[c] = "none"

ExclusiveInv == WaitingInv /\ ~(pending /\ opened)

\* Each host up to the current one was tried once more than there were retries,
\* the hosts behind it once less; or all of them were tried often enough before
\* the counters were moved by an attempt that was abandoned.
CountInv ==
    /\ fresh /\ pending =>
          \/ \A h \in Hosts : tried[h] >= retryCount + (IF h <= hostIndex THEN 1 ELSE 0)
          \/ \A h \in Hosts : tried[h] >= MaxRetry + 1
    /\ GivesUpAfterAllTries

\* Only the current socket listens, for the attempt that is awaited, at the host
\* the index names; what its error finds is that attempt until it is connected, and
\* some attempt afterwards.
SocketInv(i) ==
    /\ sockets[i].timer \in {"none", sockets[i].listens}
    /\ sockets[i].listens # "none" =>
          /\ i = current
          /\ Alive(i)
          /\ awaited = <<sockets[i].listens, i>>
          /\ sockets[i].host = hostIndex
          /\ sockets[i].listens = "login" => slot = i
    /\ sockets[i].life = "connecting" =>
          /\ sockets[i].listens # "none"
          /\ eventCallback = awaited
    /\ i = current /\ Alive(i) => eventCallback # None

SessionInv ==
    opened => /\ current \in SocketIds
              /\ sockets[current].session
              /\ sockets[current].host = hostIndex

\* So it is as long as replaced sockets keep quiet.
QuietInv == stale = 0 => (\A i \in SocketIds : SocketInv(i)) /\ SessionInv /\ node = "up"

IInv == TypeOK /\ ExclusiveInv /\ CountInv /\ QuietInv
-----------------------------------------------------------------------------

\* A new socket, and what is left of one that is silenced or dies.
LEMMA SocketOperators ==
    ASSUME NEW s \in Socket
    PROVE  /\ Silenced(s) \in Socket
           /\ Silenced(s).life = s.life /\ Silenced(s).host = s.host
           /\ Silenced(s).listens = "none" /\ Silenced(s).timer = "none"
           /\ Silenced(s).session = s.session
           /\ Died(s) \in Socket
           /\ Died(s).life = "dead" /\ Died(s).host = s.host
           /\ Died(s).listens = "none" /\ Died(s).timer = "none"
           /\ Died(s).session = FALSE
  BY DEF Socket, Silenced, Died

LEMMA OpenedProperties ==
    ASSUME NEW role \in {"broker", "login"}, NEW host \in Nat
    PROVE  /\ Opened(role, host) \in Socket
           /\ Opened(role, host).life = "connecting" /\ Opened(role, host).host = host
           /\ Opened(role, host).listens = role
           /\ Opened(role, host).timer \in {"none", role}
           /\ Opened(role, host).session = FALSE
  BY DEF Socket, Opened

\* An attempt is not "none", and attempts differ if their sockets or roles do.
LEMMA AttemptsDiffer ==
    /\ \A i, j : <<"broker", i>> # <<"login", j>> /\ <<"broker", i>> # None /\ <<"login", i>> # None
    /\ \A i, j, r, t : <<r, i>> = <<t, j>> => r = t /\ i = j
    /\ \A a \in Attempts : a # None => a[1] \in {"broker", "login"} /\ a[2] \in SocketIds
                                       /\ a = <<a[1], a[2]>>
  BY DEF None, Attempts

Outcomes == {"none", "waiting", "resolved", "denied", "unreachable", "failed", "badHost"}

LEMMA SettleType ==
    ASSUME TypeOK, NEW attempt, NEW outcome \in Outcomes, Settle(attempt, outcome)
    PROVE  awaited' \in Attempts /\ pending' \in BOOLEAN /\ result' \in [Calls -> Outcomes]
  BY DEF TypeOK, Settle, Attempts, Outcomes

LEMMA TryHostType ==
    ASSUME TypeOK, NEW known \in [SocketIds -> Socket], NEW i, NEW host \in Hosts,
           TryHost(known, i, host)
    PROVE  /\ hostIndex' \in Nat /\ pending' \in BOOLEAN /\ sockets' \in [SocketIds -> Socket]
           /\ last' \in 0..MaxSockets /\ current' \in 0..MaxSockets
           /\ eventCallback' \in Attempts /\ awaited' \in Attempts
           /\ tried' \in [Hosts -> Nat] /\ result' \in [Calls -> Outcomes]
<1>1. host \in Nat /\ last + 1 \in SocketIds
  BY ConnectAssumption DEF TryHost, GetBrokerPort, TypeOK, Hosts, SocketIds
<1>2. Opened("broker", host) \in Socket
  BY <1>1, OpenedProperties
<1>3. <<"broker", last + 1>> \in Attempts
  BY <1>1 DEF Attempts
<1>4. sockets' \in [SocketIds -> Socket]
  BY <1>1, <1>2 DEF TryHost, GetBrokerPort
<1>5. tried' \in [Hosts -> Nat]
  BY DEF TryHost, TypeOK
<1>6. last + 1 \in 0..MaxSockets
  BY <1>1, ConnectAssumption DEF SocketIds
<1> QED
  BY <1>1, <1>3, <1>4, <1>5, <1>6 DEF TryHost, GetBrokerPort, TypeOK, Outcomes

LEMMA AttemptErrorType ==
    ASSUME TypeOK, NEW known \in [SocketIds -> Socket], NEW left \in Attempts,
           NEW attempt, NEW err, AttemptError(known, left, attempt, err)
    PROVE  /\ hostIndex' \in Nat /\ retryCount' \in Nat /\ pending' \in BOOLEAN
           /\ sockets' \in [SocketIds -> Socket]
           /\ last' \in 0..MaxSockets /\ current' \in 0..MaxSockets
           /\ eventCallback' \in Attempts /\ awaited' \in Attempts
           /\ tried' \in [Hosts -> Nat] /\ result' \in [Calls -> Outcomes]
<1>1. CASE LoginError(known, left, attempt[2])
  <2>1. sockets' \in [SocketIds -> Socket]
    BY <1>1 DEF LoginError, Socket
  <2> QED
    BY <1>1, <2>1, SettleType DEF LoginError, counterVars, TypeOK, Outcomes
<1>2. CASE BrokerError(known, left, attempt[2], err)
  <2>1. CASE HostsLeft /\ TryHost(known, attempt[2], hostIndex + 1) /\ UNCHANGED retryCount
    <3>1. hostIndex + 1 \in Hosts
      BY <2>1, ConnectAssumption DEF TypeOK, HostsLeft, Hosts
    <3> QED
      BY <2>1, <3>1, TryHostType DEF TypeOK
  <2>2. CASE TryHost(known, attempt[2], 0) /\ retryCount' = retryCount + 1
    <3>1. 0 \in Hosts
      BY ConnectAssumption DEF Hosts
    <3> QED
      BY <2>2, <3>1, TryHostType DEF TypeOK
  <2>3. CASE /\ hostIndex' = hostIndex + 1 /\ retryCount' = retryCount + 1
             /\ Settle(<<"broker", attempt[2]>>, "unreachable")
             /\ sockets' = known /\ eventCallback' = left
             /\ UNCHANGED <<last, current, tried>>
    BY <2>3, SettleType DEF TypeOK, Outcomes
  <2>4. CASE /\ Settle(<<"broker", attempt[2]>>, "failed")
             /\ sockets' = known /\ eventCallback' = left
             /\ UNCHANGED <<counterVars, last, current, tried>>
    BY <2>4, SettleType DEF TypeOK, Outcomes, counterVars
  <2> QED
    BY <1>2, <2>1, <2>2, <2>3, <2>4 DEF BrokerError
<1> QED
  BY <1>1, <1>2 DEF AttemptError

LEMMA TypeInvariant == TypeOK /\ [Next]_vars => TypeOK'
<1> SUFFICES ASSUME TypeOK, [Next]_vars PROVE TypeOK'
  OBVIOUS
<1> USE ConnectAssumption
<1>1. ASSUME NEW c \in Calls, Connect(c) PROVE TypeOK'
  <2>1. c \in 0..MaxConnects /\ calls' = c /\ stale' = stale /\ node' = node
    BY <1>1 DEF Connect, Calls
  <2>2. CASE opened /\ result' = [result EXCEPT ![c] = "resolved"]
             /\ UNCHANGED <<counterVars, flagVars, socketVars, awaited, tried, fresh>>
    BY <2>1, <2>2 DEF TypeOK, counterVars, flagVars, socketVars
  <2>3. CASE Denied /\ result' = [result EXCEPT ![c] = "denied"]
             /\ UNCHANGED <<counterVars, flagVars, socketVars, awaited, tried, fresh>>
    BY <2>1, <2>3 DEF TypeOK, counterVars, flagVars, socketVars
  <2>4. CASE /\ hostIndex < NumHosts
             /\ pending' = TRUE
             /\ result' = [result EXCEPT ![c] = "waiting"]
             /\ fresh' = (hostIndex = 0 /\ retryCount = 0)
             /\ tried' = [h \in Hosts |-> IF h = hostIndex THEN 1 ELSE 0]
             /\ GetBrokerPort(sockets, None, hostIndex)
             /\ UNCHANGED <<counterVars, opened, brokerPort, slot>>
    <3>1. last + 1 \in SocketIds /\ last + 1 \in 0..MaxSockets /\ hostIndex \in Nat
      BY <2>4 DEF GetBrokerPort, TypeOK, SocketIds
    <3>2. Opened("broker", hostIndex) \in Socket
      BY <3>1, OpenedProperties
    <3>3. sockets' \in [SocketIds -> Socket]
      BY <2>4, <3>1, <3>2 DEF GetBrokerPort, TypeOK
    <3>4. eventCallback' \in Attempts /\ awaited' \in Attempts
      BY <2>4, <3>1 DEF GetBrokerPort, TypeOK, Attempts
    <3>5. tried' \in [Hosts -> Nat]
      BY <2>4
    <3>6. result' \in [Calls -> Outcomes]
      BY <2>4 DEF TypeOK, Outcomes
    <3> QED
      BY <2>1, <2>4, <3>1, <3>3, <3>4, <3>5, <3>6
         DEF GetBrokerPort, TypeOK, counterVars, Outcomes
  <2>5. CASE /\ result' = [result EXCEPT ![c] = "badHost"]
             /\ fresh' = FALSE
             /\ tried' = [h \in Hosts |-> 0]
             /\ UNCHANGED <<counterVars, flagVars, socketVars, awaited>>
    BY <2>1, <2>5 DEF TypeOK, counterVars, flagVars, socketVars
  <2> QED
    BY <1>1, <2>2, <2>3, <2>4, <2>5 DEF Connect
<1>2. ASSUME NEW i \in SocketIds, NEW port \in Ports, BrokerReply(i, port) PROVE TypeOK'
  <2> DEFINE known == [sockets EXCEPT ![i] = [Silenced(@) EXCEPT !.life = "connected"]]
  <2>1. known \in [SocketIds -> Socket]
    <3>1. sockets[i] \in Socket /\ Silenced(sockets[i]) \in Socket
      BY SocketOperators DEF TypeOK
    <3>2. [Silenced(sockets[i]) EXCEPT !.life = "connected"] \in Socket
      BY <3>1 DEF Socket
    <3> QED
      BY <3>2 DEF TypeOK
  <2>2. brokerPort' \in {"none"} \cup Ports /\ UNCHANGED <<fresh, calls, stale, node>>
    BY <1>2 DEF BrokerReply
  <2>3. CASE /\ opened' = (opened /\ awaited # <<"broker", i>>)
             /\ BrokerError(known, eventCallback, i, "port")
             /\ UNCHANGED slot
    <3>1. AttemptError(known, eventCallback, <<"broker", i>>, "port")
      BY <2>3 DEF AttemptError
    <3> HIDE DEF known
    <3>2. eventCallback \in Attempts
      BY DEF TypeOK
    <3> QED
      BY <2>1, <2>2, <2>3, <3>1, <3>2, AttemptErrorType DEF TypeOK, Outcomes
  <2> HIDE DEF known
  <2>4. CASE /\ ResetRetryCount
             /\ sockets' = known
             /\ UNCHANGED <<hostIndex, flagVars, last, current, eventCallback, slot,
                            awaited, tried, result>>
    BY <2>1, <2>2, <2>4 DEF TypeOK, ResetRetryCount, flagVars
  <2>5. CASE /\ last < MaxSockets
             /\ ResetRetryCount
             /\ last' = last + 1
             /\ current' = last + 1
             /\ sockets' = [known EXCEPT ![last + 1] = Opened("login", hostIndex)]
             /\ eventCallback' = <<"login", last + 1>>
             /\ awaited' = <<"login", last + 1>>
             /\ slot' = last + 1
             /\ UNCHANGED <<hostIndex, flagVars, tried, result>>
    <3>1. last + 1 \in SocketIds /\ last + 1 \in 0..MaxSockets /\ hostIndex \in Nat
      BY <2>5 DEF TypeOK, SocketIds
    <3>2. Opened("login", hostIndex) \in Socket
      BY <3>1, OpenedProperties
    <3>3. sockets' \in [SocketIds -> Socket]
      BY <2>1, <2>5, <3>1, <3>2
    <3>4. eventCallback' \in Attempts /\ awaited' \in Attempts
      BY <2>5, <3>1 DEF Attempts
    <3> QED
      BY <2>2, <2>5, <3>1, <3>3, <3>4 DEF TypeOK, ResetRetryCount, flagVars
  <2>6. CASE /\ awaited = <<"broker", i>>
             /\ ResetRetryCount
             /\ sockets' = [known EXCEPT ![current].listens = WithLogin(@)]
             /\ awaited' = <<"login", current>>
             /\ slot' = current
             /\ UNCHANGED <<hostIndex, flagVars, last, current, eventCallback, tried, result>>
    <3>1. sockets' \in [SocketIds -> Socket]
      <4>1. [known[current] EXCEPT !.listens = WithLogin(@)] \in Socket \/ current \notin SocketIds
        BY <2>1 DEF Socket, WithLogin
      <4> QED
        BY <2>1, <2>6, <4>1
    <3> QED
      BY <2>2, <2>6, <3>1 DEF TypeOK, ResetRetryCount, flagVars, Attempts
  <2> QED
    BY <1>2, <2>3, <2>4, <2>5, <2>6 DEF BrokerReply, known
<1>3. ASSUME NEW i \in SocketIds, NEW ok \in BOOLEAN, LoginReply(i, ok) PROVE TypeOK'
  <2> DEFINE known == [[sockets EXCEPT ![i].life = "connected", ![i].listens = "none",
                                       ![i].session = ok]
                         EXCEPT ![current] = Silenced(@), ![slot].timer = "none"]
  <2>1. known \in [SocketIds -> Socket]
    <3> DEFINE answered == [sockets EXCEPT ![i].life = "connected", ![i].listens = "none",
                                           ![i].session = ok]
               silenced == [answered EXCEPT ![current] = Silenced(@)]
    <3>1. answered \in [SocketIds -> Socket]
      <4>1. sockets[i] \in Socket
        BY DEF TypeOK
      <4>2. [[[sockets[i] EXCEPT !.life = "connected"] EXCEPT !.listens = "none"]
               EXCEPT !.session = ok] \in Socket
        BY <4>1 DEF Socket
      <4>3. answered = [sockets EXCEPT ![i] =
                          [[[sockets[i] EXCEPT !.life = "connected"] EXCEPT !.listens = "none"]
                             EXCEPT !.session = ok]]
        BY DEF TypeOK
      <4> QED
        BY <4>2, <4>3 DEF TypeOK
    <3> HIDE DEF answered
    <3>2. silenced \in [SocketIds -> Socket]
      BY <3>1, SocketOperators
    <3> HIDE DEF silenced
    <3>3. [silenced EXCEPT ![slot].timer = "none"] \in [SocketIds -> Socket]
      <4>1. [silenced[slot] EXCEPT !.timer = "none"] \in Socket \/ slot \notin SocketIds
        BY <3>2 DEF Socket
      <4> QED
        BY <3>2, <4>1
    <3>4. known = [silenced EXCEPT ![slot].timer = "none"]
      BY DEF silenced, answered
    <3> QED
      BY <3>3, <3>4
  <2>2. UNCHANGED <<brokerPort, slot, fresh, calls, stale, node>>
    BY <1>3 DEF LoginReply
  <2>3. CASE /\ opened' = (opened /\ awaited # <<"login", slot>>)
             /\ LoginError(known, eventCallback, slot)
    <3>1. AttemptError(known, eventCallback, <<"login", slot>>, "error")
      BY <2>3 DEF AttemptError
    <3> HIDE DEF known
    <3>2. eventCallback \in Attempts
      BY DEF TypeOK
    <3> QED
      BY <2>1, <2>2, <2>3, <3>1, <3>2, AttemptErrorType DEF TypeOK, Outcomes
  <2> HIDE DEF known
  <2>4. CASE /\ sockets' = known
             /\ Settle(<<"login", slot>>, "resolved")
             /\ \/ opened' = (opened \/ awaited = <<"login", slot>>)
                \/ "throw" \in Faults /\ awaited = <<"login", slot>> /\ opened' = FALSE
             /\ UNCHANGED <<counterVars, last, current, eventCallback, tried>>
    <3>1. awaited' \in Attempts /\ pending' \in BOOLEAN /\ result' \in [Calls -> Outcomes]
      BY <2>4, SettleType DEF Outcomes
    <3> QED
      BY <2>1, <2>2, <2>4, <3>1 DEF TypeOK, Outcomes, counterVars
  <2> QED
    BY <1>3, <2>3, <2>4 DEF LoginReply, known
<1>4. ASSUME NEW i \in SocketIds, SocketTimeout(i) PROVE TypeOK'
  <2>1. [sockets EXCEPT ![i] = Died(@)] \in [SocketIds -> Socket] /\ eventCallback \in Attempts
    BY SocketOperators DEF TypeOK
  <2>2. /\ AttemptError([sockets EXCEPT ![i] = Died(@)], eventCallback,
                        <<sockets[i].timer, i>>, "timeout")
        /\ UNCHANGED <<brokerPort, slot, fresh, calls, stale, node>>
        /\ opened' = FALSE
    BY <1>4 DEF SocketTimeout, ClearOpened
  <2> QED
    BY <2>1, <2>2, AttemptErrorType DEF TypeOK, Outcomes
<1>5. ASSUME NEW i \in SocketIds, SocketClose(i) PROVE TypeOK'
  <2>0. sockets[i] \in Socket
    BY DEF TypeOK
  <2>1. Died(sockets[i]) \in Socket
    BY <2>0, SocketOperators
  <2>2. sockets' \in [SocketIds -> Socket]
    BY <1>5, <2>1 DEF SocketClose, TypeOK
  <2>3. stale' \in 0..MaxStale
    BY <1>5 DEF SocketClose, CountStale, TypeOK
  <2> QED
    BY <1>5, <2>2, <2>3 DEF SocketClose, ClearOpened, TypeOK, counterVars
<1>6. ASSUME NEW i \in SocketIds, NEW err \in {"refused", "reset"}, SocketError(i, err)
      PROVE  TypeOK'
  <2> DEFINE known == [sockets EXCEPT ![i] = Died(@)]
  <2>1. known \in [SocketIds -> Socket] /\ None \in Attempts
    BY SocketOperators DEF TypeOK, Attempts
  <2>2. /\ stale' \in 0..MaxStale /\ opened' = FALSE
        /\ UNCHANGED <<brokerPort, slot, fresh, calls>>
    BY <1>6 DEF SocketError, CountStale, ClearOpened, TypeOK
  <2>3. \/ /\ node' = "crashed"
           /\ sockets' = known
           /\ UNCHANGED <<counterVars, pending, last, current, eventCallback,
                          awaited, tried, result>>
        \/ AttemptError(known, None, eventCallback, err) /\ UNCHANGED node
    BY <1>6 DEF SocketError
  <2> HIDE DEF known
  <2>4. CASE /\ node' = "crashed"
             /\ sockets' = known
             /\ UNCHANGED <<counterVars, pending, last, current, eventCallback,
                            awaited, tried, result>>
    BY <2>1, <2>2, <2>4 DEF TypeOK, counterVars
  <2>5. CASE AttemptError(known, None, eventCallback, err) /\ UNCHANGED node
    BY <2>1, <2>2, <2>5, AttemptErrorType DEF TypeOK, Outcomes
  <2> QED
    BY <2>3, <2>4, <2>5
<1>7. CASE UNCHANGED vars
  BY <1>7 DEF TypeOK, vars, counterVars, flagVars, socketVars, historyVars
<1> QED
  BY <1>1, <1>2, <1>3, <1>4, <1>5, <1>6, <1>7 DEF Next

LEMMA SettleWaiting ==
    ASSUME TypeOK, WaitingInv, NEW attempt, attempt # None,
           NEW outcome \in Outcomes \ {"waiting"}, Settle(attempt, outcome), calls' = calls
    PROVE  WaitingInv' /\ (pending' => pending) /\ (awaited = attempt => ~pending')
<1>1. CASE awaited = attempt
  <2>1. /\ awaited' = None /\ pending' = FALSE
        /\ result' = [c \in Calls |-> IF result[c] = "waiting" THEN outcome ELSE result[c]]
    BY <1>1 DEF Settle
  <2>2. \A c \in Calls : result'[c] = IF result[c] = "waiting" THEN outcome ELSE result[c]
    BY <2>1
  <2>3. \A c \in Calls : result'[c] # "waiting"
    BY <2>2
  <2>4. \A c \in Calls : c > calls => result'[c] = "none"
    BY <2>2 DEF WaitingInv
  <2> QED
    BY <2>1, <2>3, <2>4 DEF WaitingInv
<1>2. CASE awaited # attempt
  BY <1>2 DEF Settle, WaitingInv
<1> QED
  BY <1>1, <1>2

LEMMA TryHostWaiting ==
    ASSUME WaitingInv, NEW known, NEW i, NEW host, TryHost(known, i, host), calls' = calls
    PROVE  WaitingInv' /\ pending' = pending
<1>1. awaited' = None <=> awaited = None
  BY AttemptsDiffer DEF TryHost, GetBrokerPort
<1> QED
  BY <1>1 DEF TryHost, WaitingInv

\* What an error of an attempt does to the one that connect() waits for: it is
\* replaced by another, settled, or left alone.
LEMMA AttemptErrorWaiting ==
    ASSUME TypeOK, WaitingInv, NEW known, NEW left, NEW attempt, NEW err,
           AttemptError(known, left, attempt, err), calls' = calls
    PROVE  WaitingInv' /\ (pending' => pending)
<1>1. CASE LoginError(known, left, attempt[2])
  BY <1>1, AttemptsDiffer, SettleWaiting DEF LoginError, Outcomes
<1>2. CASE BrokerError(known, left, attempt[2], err)
  <2>1. CASE \E host : TryHost(known, attempt[2], host)
    BY <2>1, TryHostWaiting
  <2>2. CASE \E outcome \in {"unreachable", "failed"} : Settle(<<"broker", attempt[2]>>, outcome)
    BY <2>2, AttemptsDiffer, SettleWaiting DEF Outcomes
  <2> QED
    BY <1>2, <2>1, <2>2 DEF BrokerError
<1> QED
  BY <1>1, <1>2 DEF AttemptError

LEMMA ExclusiveInvariant == TypeOK /\ ExclusiveInv /\ [Next]_vars => ExclusiveInv'
<1> SUFFICES ASSUME TypeOK, ExclusiveInv, [Next]_vars PROVE ExclusiveInv'
  OBVIOUS
<1>0. WaitingInv /\ ~(pending /\ opened)
  BY DEF ExclusiveInv
<1>t. calls \in Nat /\ result \in [Calls -> Outcomes] /\ Calls \subseteq Nat
  BY DEF TypeOK, Calls, Outcomes
<1>1. ASSUME NEW c \in Calls, Connect(c) PROVE ExclusiveInv'
  <2>1. c = calls + 1 /\ calls' = c /\ result[c] = "none"
    BY <1>0, <1>1, <1>t DEF Connect, WaitingInv
  <2>2. CASE /\ \E outcome \in Outcomes \ {"waiting"} : result' = [result EXCEPT ![c] = outcome]
             /\ UNCHANGED <<flagVars, awaited>>
    <3>1. PICK outcome \in Outcomes \ {"waiting"} : result' = [result EXCEPT ![c] = outcome]
      BY <2>2
    <3>2. \A d \in Calls : result'[d] = IF d = c THEN outcome ELSE result[d]
      BY <3>1, <1>t
    <3>3. \A d \in Calls : result'[d] = "waiting" <=> result[d] = "waiting"
      BY <3>2, <2>1
    <3>4. {d \in Calls : result'[d] = "waiting"} = {d \in Calls : result[d] = "waiting"}
      BY <3>3
    <3>5. \A d \in Calls : d > c => d > calls /\ d # c
      BY <1>t, <2>1
    <3> QED
      BY <1>0, <2>1, <2>2, <3>2, <3>3, <3>4, <3>5 DEF ExclusiveInv, WaitingInv, flagVars
  <2>3. CASE /\ ~opened /\ ~pending
             /\ pending' = TRUE
             /\ result' = [result EXCEPT ![c] = "waiting"]
             /\ GetBrokerPort(sockets, None, hostIndex)
             /\ opened' = opened
    <3>1. \A d \in Calls : result'[d] = IF d = c THEN "waiting" ELSE result[d]
      BY <2>3, <1>t
    <3>2. \A d \in Calls : result[d] # "waiting"
      BY <1>0, <2>3 DEF WaitingInv
    <3>3. {d \in Calls : result'[d] = "waiting"} = {c}
      BY <3>1, <3>2
    <3>4. \A d \in Calls : d > c => d > calls /\ d # c
      BY <1>t, <2>1
    <3>5. awaited = None
      BY <1>0, <2>3 DEF WaitingInv
    <3>6. awaited' = <<"broker", last + 1>> /\ awaited' # None
      BY <2>3, <3>5, AttemptsDiffer DEF GetBrokerPort
    <3> QED
      BY <1>0, <2>1, <2>3, <3>1, <3>3, <3>4, <3>6 DEF ExclusiveInv, WaitingInv
  <2>4. CASE opened /\ result' = [result EXCEPT ![c] = "resolved"]
             /\ UNCHANGED <<counterVars, flagVars, socketVars, awaited, tried, fresh>>
    BY <2>2, <2>4 DEF Outcomes
  <2>5. CASE Denied /\ result' = [result EXCEPT ![c] = "denied"]
             /\ UNCHANGED <<counterVars, flagVars, socketVars, awaited, tried, fresh>>
    BY <2>2, <2>5 DEF Outcomes
  <2>6. CASE /\ result' = [result EXCEPT ![c] = "badHost"]
             /\ UNCHANGED <<counterVars, flagVars, socketVars, awaited>>
    BY <2>2, <2>6 DEF Outcomes
  <2> QED
    BY <1>1, <2>3, <2>4, <2>5, <2>6 DEF Connect, Denied
<1>2. ASSUME NEW i \in SocketIds, NEW port \in Ports, BrokerReply(i, port) PROVE ExclusiveInv'
  <2>1. calls' = calls
    BY <1>2 DEF BrokerReply
  <2>2. CASE \E known : /\ opened' = (opened /\ awaited # <<"broker", i>>)
                        /\ BrokerError(known, eventCallback, i, "port")
    <3>1. PICK known : BrokerError(known, eventCallback, i, "port")
      BY <2>2
    <3>2. AttemptError(known, eventCallback, <<"broker", i>>, "port")
      BY <3>1 DEF AttemptError
    <3>3. WaitingInv' /\ (pending' => pending)
      BY <1>0, <2>1, <3>2, AttemptErrorWaiting
    <3> QED
      BY <1>0, <2>2, <3>3 DEF ExclusiveInv
  <2>3. CASE UNCHANGED <<flagVars, awaited, result>>
    BY <1>0, <2>1, <2>3 DEF ExclusiveInv, WaitingInv, flagVars
  <2>4. CASE /\ awaited = <<"broker", i>>
             /\ \E j : awaited' = <<"login", j>>
             /\ UNCHANGED <<flagVars, result>>
    <3>1. awaited # None /\ awaited' # None
      BY <2>4, AttemptsDiffer
    <3> QED
      BY <1>0, <2>1, <2>4, <3>1 DEF ExclusiveInv, WaitingInv, flagVars
  <2> QED
    BY <1>2, <2>2, <2>3, <2>4 DEF BrokerReply
<1>3. ASSUME NEW i \in SocketIds, NEW ok \in BOOLEAN, LoginReply(i, ok) PROVE ExclusiveInv'
  <2>1. calls' = calls
    BY <1>3 DEF LoginReply
  <2>2. CASE \E known : /\ opened' = (opened /\ awaited # <<"login", slot>>)
                        /\ LoginError(known, eventCallback, slot)
    <3>1. PICK known : LoginError(known, eventCallback, slot)
      BY <2>2
    <3>2. AttemptError(known, eventCallback, <<"login", slot>>, "error")
      BY <3>1 DEF AttemptError
    <3>3. WaitingInv' /\ (pending' => pending)
      BY <1>0, <2>1, <3>2, AttemptErrorWaiting
    <3> QED
      BY <1>0, <2>2, <3>3 DEF ExclusiveInv
  <2>3. CASE /\ Settle(<<"login", slot>>, "resolved")
             /\ \/ opened' = (opened \/ awaited = <<"login", slot>>)
                \/ opened' = FALSE
    <3>1. /\ WaitingInv' /\ (pending' => pending)
          /\ awaited = <<"login", slot>> => ~pending'
      BY <1>0, <2>1, <2>3, AttemptsDiffer, SettleWaiting DEF Outcomes
    <3> QED
      BY <1>0, <2>3, <3>1 DEF ExclusiveInv
  <2> QED
    BY <1>3, <2>2, <2>3 DEF LoginReply
<1>4. ASSUME NEW i \in SocketIds, SocketTimeout(i) PROVE ExclusiveInv'
  <2>1. /\ AttemptError([sockets EXCEPT ![i] = Died(@)], eventCallback,
                        <<sockets[i].timer, i>>, "timeout")
        /\ calls' = calls /\ opened' = FALSE
    BY <1>4 DEF SocketTimeout, ClearOpened
  <2> QED
    BY <1>0, <2>1, AttemptErrorWaiting DEF ExclusiveInv
<1>5. ASSUME NEW i \in SocketIds, SocketClose(i) PROVE ExclusiveInv'
  BY <1>0, <1>5 DEF SocketClose, ClearOpened, ExclusiveInv, WaitingInv
<1>6. ASSUME NEW i \in SocketIds, NEW err \in {"refused", "reset"}, SocketError(i, err)
      PROVE  ExclusiveInv'
  <2>1. calls' = calls /\ opened' = FALSE
    BY <1>6 DEF SocketError, ClearOpened
  <2>2. CASE UNCHANGED <<pending, awaited, result>>
    BY <1>0, <2>1, <2>2 DEF ExclusiveInv, WaitingInv
  <2>3. CASE \E known : AttemptError(known, None, eventCallback, err)
    BY <1>0, <2>1, <2>3, AttemptErrorWaiting DEF ExclusiveInv
  <2> QED
    BY <1>6, <2>2, <2>3 DEF SocketError
<1>7. CASE UNCHANGED vars
  BY <1>0, <1>7 DEF ExclusiveInv, WaitingInv, vars, flagVars, historyVars
<1> QED
  BY <1>1, <1>2, <1>3, <1>4, <1>5, <1>6, <1>7 DEF Next

\* Settling with an outcome other than "unreachable" makes no call unreachable.
LEMMA SettleUnreachable ==
    ASSUME TypeOK, NEW attempt, NEW outcome \in Outcomes, Settle(attempt, outcome)
    PROVE  /\ pending' => pending
           /\ \A c \in Calls :
                 result'[c] = "unreachable" =>
                    \/ result[c] = "unreachable"
                    \/ outcome = "unreachable" /\ result[c] = "waiting"
<1>1. CASE awaited = attempt
  <2>1. /\ pending' = FALSE
        /\ result' = [c \in Calls |-> IF result[c] = "waiting" THEN outcome ELSE result[c]]
    BY <1>1 DEF Settle
  <2>2. \A c \in Calls : result'[c] = IF result[c] = "waiting" THEN outcome ELSE result[c]
    BY <2>1
  <2> QED
    BY <2>1, <2>2
<1>2. CASE awaited # attempt
  BY <1>2 DEF Settle
<1> QED
  BY <1>1, <1>2

\* A step that counts no attempt and does not raise the counters.
LEMMA CountKept ==
    ASSUME TypeOK, CountInv, UNCHANGED <<fresh, calls, tried, hostIndex>>,
           retryCount' \in {retryCount, 0}, pending' => pending,
           \A c \in Calls : result'[c] = "unreachable" => result[c] = "unreachable"
    PROVE  CountInv'
<1>1. /\ retryCount \in Nat /\ hostIndex \in Nat /\ Hosts \subseteq Nat
      /\ \A h \in Hosts : tried[h] \in Nat
  BY DEF TypeOK, Hosts
<1>2. \A h \in Hosts :
          tried[h] >= retryCount + (IF h <= hostIndex THEN 1 ELSE 0) =>
              tried'[h] >= retryCount' + (IF h <= hostIndex' THEN 1 ELSE 0)
  BY <1>1
<1> QED
  BY <1>1, <1>2 DEF CountInv, GivesUpAfterAllTries

\* Moving to the next host, or to the first one with one more retry on the books.
LEMMA TryHostCount ==
    ASSUME TypeOK, CountInv, UNCHANGED <<fresh, calls>>,
           NEW known, NEW i, NEW host \in Hosts, TryHost(known, i, host),
           \/ host = hostIndex + 1 /\ retryCount' = retryCount
           \/ host = 0 /\ ~HostsLeft /\ retryCount' = retryCount + 1
    PROVE  CountInv'
<1>1. /\ retryCount \in Nat /\ hostIndex \in Nat /\ Hosts \subseteq Nat
      /\ \A h \in Hosts : tried[h] \in Nat
  BY DEF TypeOK, Hosts
<1>2. /\ hostIndex' = host /\ UNCHANGED <<pending, result>>
      /\ \A h \in Hosts : tried'[h] = IF h = host THEN tried[h] + 1 ELSE tried[h]
  BY DEF TryHost, TypeOK
<1>3. \A h \in Hosts, n \in Nat : tried[h] >= n => tried'[h] >= n
  BY <1>1, <1>2
<1>4. MaxRetry + 1 \in Nat
  BY ConnectAssumption
<1>5. ASSUME \A h \in Hosts : tried[h] >= retryCount + (IF h <= hostIndex THEN 1 ELSE 0)
      PROVE  \A h \in Hosts : tried'[h] >= retryCount' + (IF h <= hostIndex' THEN 1 ELSE 0)
  <2> SUFFICES ASSUME NEW h \in Hosts
               PROVE  tried'[h] >= retryCount' + (IF h <= hostIndex' THEN 1 ELSE 0)
    OBVIOUS
  <2>1. /\ tried[h] >= retryCount + (IF h <= hostIndex THEN 1 ELSE 0)
        /\ tried'[h] = IF h = host THEN tried[h] + 1 ELSE tried[h]
        /\ h \in Nat /\ tried[h] \in Nat
    BY <1>1, <1>2, <1>5
  <2>2. CASE host = hostIndex + 1 /\ retryCount' = retryCount
    <3>1. CASE h = host
      BY <1>1, <1>2, <2>1, <2>2, <3>1
    <3>2. CASE h # host
      <4>1. h <= host => h <= hostIndex
        BY <1>1, <2>1, <2>2, <3>2
      <4> QED
        BY <1>1, <1>2, <2>1, <2>2, <3>2, <4>1
    <3> QED
      BY <3>1, <3>2
  <2>3. CASE host = 0 /\ ~HostsLeft /\ retryCount' = retryCount + 1
    <3>1. h <= hostIndex
      BY <1>1, <2>3, ConnectAssumption DEF HostsLeft, Hosts
    <3>2. CASE h = 0
      BY <1>1, <1>2, <2>1, <2>3, <3>1, <3>2
    <3>3. CASE h # 0
      BY <1>1, <1>2, <2>1, <2>3, <3>1, <3>3
    <3> QED
      BY <3>2, <3>3
  <2> QED
    BY <2>2, <2>3
<1> QED
  BY <1>2, <1>3, <1>4, <1>5 DEF CountInv, GivesUpAfterAllTries

LEMMA AttemptErrorCount ==
    ASSUME TypeOK, WaitingInv, CountInv, UNCHANGED <<fresh, calls>>,
           NEW known, NEW left, NEW attempt, NEW err,
           AttemptError(known, left, attempt, err)
    PROVE  CountInv'
<1>1. CASE LoginError(known, left, attempt[2])
  <2>1. Settle(<<"login", attempt[2]>>, "failed") /\ UNCHANGED <<counterVars, tried>>
    BY <1>1 DEF LoginError
  <2> QED
    BY <2>1, SettleUnreachable, CountKept DEF Outcomes, counterVars
<1>2. CASE BrokerError(known, left, attempt[2], err)
  <2>1. CASE HostsLeft /\ TryHost(known, attempt[2], hostIndex + 1) /\ UNCHANGED retryCount
    <3>1. hostIndex + 1 \in Hosts
      BY <2>1, ConnectAssumption DEF TypeOK, HostsLeft, Hosts
    <3> QED
      BY <2>1, <3>1, TryHostCount
  <2>2. CASE ~HostsLeft /\ TryHost(known, attempt[2], 0) /\ retryCount' = retryCount + 1
    <3>1. 0 \in Hosts
      BY ConnectAssumption DEF Hosts
    <3> QED
      BY <2>2, <3>1, TryHostCount
  <2>3. CASE /\ ~HostsLeft /\ ~RetriesLeft
             /\ Settle(<<"broker", attempt[2]>>, "unreachable")
             /\ UNCHANGED <<last, current, tried>>
    <3>1. /\ retryCount \in Nat /\ hostIndex \in Nat
          /\ \A h \in Hosts : h \in Nat /\ tried[h] \in Nat
      BY DEF TypeOK, Hosts
    <3>2. retryCount >= MaxRetry /\ \A h \in Hosts : h <= hostIndex
      BY <2>3, <3>1, ConnectAssumption DEF HostsLeft, RetriesLeft, Hosts
    <3>3. fresh /\ pending => \A h \in Hosts : tried[h] >= MaxRetry + 1
      BY <3>1, <3>2, ConnectAssumption DEF CountInv
    <3>4. pending' => pending
      BY <2>3, SettleUnreachable DEF Outcomes
    <3>5. \A c \in Calls : result'[c] = "unreachable" => result[c] = "unreachable" \/ pending
      BY <2>3, SettleUnreachable DEF Outcomes, WaitingInv
    <3> QED
      BY <2>3, <3>3, <3>4, <3>5 DEF CountInv, GivesUpAfterAllTries
  <2>4. CASE /\ Settle(<<"broker", attempt[2]>>, "failed")
             /\ UNCHANGED <<counterVars, last, current, tried>>
    BY <2>4, SettleUnreachable, CountKept DEF Outcomes, counterVars
  <2> QED
    BY <1>2, <2>1, <2>2, <2>3, <2>4 DEF BrokerError
<1> QED
  BY <1>1, <1>2 DEF AttemptError

LEMMA CountInvariant == TypeOK /\ WaitingInv /\ CountInv /\ [Next]_vars => CountInv'
<1> SUFFICES ASSUME TypeOK, WaitingInv, CountInv, [Next]_vars PROVE CountInv'
  OBVIOUS
<1>1. ASSUME NEW c \in Calls, Connect(c) PROVE CountInv'
  <2>1. calls' = c /\ c = calls + 1 /\ result \in [Calls -> Outcomes]
    BY <1>1 DEF Connect, TypeOK, Outcomes
  <2>2. CASE /\ \E outcome \in Outcomes \ {"unreachable"} : result' = [result EXCEPT ![c] = outcome]
             /\ \/ UNCHANGED <<counterVars, flagVars, tried, fresh>>
                \/ fresh' = FALSE
    <3>1. result'[c] # "unreachable"
      BY <2>1, <2>2
    <3> QED
      BY <2>1, <2>2, <3>1 DEF CountInv, GivesUpAfterAllTries, counterVars, flagVars
  <2>3. CASE /\ result' = [result EXCEPT ![c] = "waiting"]
             /\ fresh' = (hostIndex = 0 /\ retryCount = 0)
             /\ tried' = [h \in Hosts |-> IF h = hostIndex THEN 1 ELSE 0]
             /\ UNCHANGED counterVars
    <3>1. result'[c] # "unreachable"
      BY <2>1, <2>3
    <3>2. ASSUME fresh', NEW h \in Hosts
          PROVE  tried'[h] >= retryCount' + (IF h <= hostIndex' THEN 1 ELSE 0)
      <4>1. hostIndex' = 0 /\ retryCount' = 0 /\ h \in Nat /\ tried'[h] = IF h = 0 THEN 1 ELSE 0
        <5>1. hostIndex = 0 /\ retryCount = 0
          BY <2>3, <3>2, Zenon
        <5>2. tried'[h] = IF h = hostIndex THEN 1 ELSE 0
          BY <2>3
        <5> QED
          BY <2>3, <5>1, <5>2 DEF counterVars, Hosts
      <4> QED
        BY <4>1
    <3> QED
      BY <2>1, <3>1, <3>2 DEF CountInv, GivesUpAfterAllTries
  <2> QED
    BY <1>1, <2>2, <2>3 DEF Connect, Outcomes
<1>2. ASSUME NEW i \in SocketIds, NEW port \in Ports, BrokerReply(i, port) PROVE CountInv'
  <2>1. UNCHANGED <<fresh, calls>>
    BY <1>2 DEF BrokerReply
  <2>2. CASE \E known : BrokerError(known, eventCallback, i, "port")
    <3>1. PICK known : BrokerError(known, eventCallback, i, "port")
      BY <2>2
    <3>2. AttemptError(known, eventCallback, <<"broker", i>>, "port")
      BY <3>1 DEF AttemptError
    <3> QED
      BY <2>1, <3>2, AttemptErrorCount
  <2>3. CASE ResetRetryCount /\ UNCHANGED <<hostIndex, flagVars, tried, result>>
    BY <2>1, <2>3, CountKept DEF ResetRetryCount, flagVars
  <2> QED
    BY <1>2, <2>2, <2>3 DEF BrokerReply
<1>3. ASSUME NEW i \in SocketIds, NEW ok \in BOOLEAN, LoginReply(i, ok) PROVE CountInv'
  <2>1. UNCHANGED <<fresh, calls>>
    BY <1>3 DEF LoginReply
  <2>2. CASE \E known : LoginError(known, eventCallback, slot)
    <3>1. PICK known : LoginError(known, eventCallback, slot)
      BY <2>2
    <3>2. AttemptError(known, eventCallback, <<"login", slot>>, "error")
      BY <3>1 DEF AttemptError
    <3> QED
      BY <2>1, <3>2, AttemptErrorCount
  <2>3. CASE Settle(<<"login", slot>>, "resolved") /\ UNCHANGED <<counterVars, tried>>
    BY <2>1, <2>3, SettleUnreachable, CountKept DEF Outcomes, counterVars
  <2> QED
    BY <1>3, <2>2, <2>3 DEF LoginReply
<1>4. ASSUME NEW i \in SocketIds, SocketTimeout(i) PROVE CountInv'
  BY <1>4, AttemptErrorCount DEF SocketTimeout
<1>5. ASSUME NEW i \in SocketIds, SocketClose(i) PROVE CountInv'
  BY <1>5, CountKept DEF SocketClose, counterVars
<1>6. ASSUME NEW i \in SocketIds, NEW err \in {"refused", "reset"}, SocketError(i, err)
      PROVE  CountInv'
  <2>1. UNCHANGED <<fresh, calls>>
    BY <1>6 DEF SocketError
  <2>2. CASE UNCHANGED <<counterVars, pending, tried, result>>
    BY <2>1, <2>2, CountKept DEF counterVars
  <2>3. CASE \E known : AttemptError(known, None, eventCallback, err)
    BY <2>1, <2>3, AttemptErrorCount
  <2> QED
    BY <1>6, <2>2, <2>3 DEF SocketError
<1>7. CASE UNCHANGED vars
  BY <1>7, CountKept DEF vars, counterVars, flagVars, historyVars
<1> QED
  BY <1>1, <1>2, <1>3, <1>4, <1>5, <1>6, <1>7 DEF Next

\* Nobody listens on any of these sockets, and none is being connected.
Silent(known) ==
    \A j \in SocketIds : /\ known[j].listens = "none"
                         /\ known[j].timer = "none"
                         /\ known[j].life # "connecting"

LEMMA SilencedCurrent ==
    ASSUME TypeOK, \A j \in SocketIds : SocketInv(j), NEW known, NEW i \in SocketIds, i = current,
           \A j \in SocketIds : j # i => known[j] = sockets[j],
           known[i].listens = "none", known[i].timer = "none", known[i].life # "connecting"
    PROVE  Silent(known)
<1>1. \A j \in SocketIds : j # i => /\ sockets[j].listens = "none"
                                    /\ sockets[j].timer = "none"
                                    /\ sockets[j].life # "connecting"
  BY DEF SocketInv
<1> QED
  BY <1>1 DEF Silent

LEMMA SilentQuiet ==
    ASSUME Silent(sockets'),
           current' \in SocketIds => sockets'[current'].life = "dead" \/ eventCallback' # None
    PROVE  \A j \in SocketIds : SocketInv(j)'
  BY DEF Silent, SocketInv, Alive

LEMMA OpenedQuiet ==
    ASSUME NEW known \in [SocketIds -> Socket], Silent(known), NEW n \in SocketIds,
           NEW role \in {"broker", "login"}, NEW host \in Nat,
           sockets' = [known EXCEPT ![n] = Opened(role, host)], current' = n,
           eventCallback' = <<role, n>>, awaited' = <<role, n>>, hostIndex' = host,
           role = "login" => slot' = n
    PROVE  \A j \in SocketIds : SocketInv(j)'
<1>1. /\ sockets'[n] = Opened(role, host)
      /\ \A j \in SocketIds : j # n => sockets'[j] = known[j]
  OBVIOUS
<1>2. /\ Opened(role, host).life = "connecting" /\ Opened(role, host).host = host
      /\ Opened(role, host).listens = role /\ Opened(role, host).timer \in {"none", role}
  BY DEF Opened
<1>3. <<role, n>> # None
  BY AttemptsDiffer
<1>4. SocketInv(n)'
  BY <1>1, <1>2, <1>3 DEF SocketInv, Alive
<1>5. \A j \in SocketIds : j # n => SocketInv(j)'
  BY <1>1 DEF SocketInv, Silent
<1> QED
  BY <1>4, <1>5

\* The error of the attempt that is awaited, or one that opens no socket.
LEMMA AttemptErrorQuiet ==
    ASSUME TypeOK, NEW known \in [SocketIds -> Socket], Silent(known),
           NEW left, NEW attempt, NEW err, AttemptError(known, left, attempt, err),
           err \in {"refused", "timeout"} => awaited = attempt,
           current \in SocketIds => known[current].life = "dead" \/ left # None
    PROVE  \A j \in SocketIds : SocketInv(j)'
<1>1. CASE LoginError(known, left, attempt[2])
  <2>1. /\ sockets' = [known EXCEPT ![attempt[2]].timer = "none"]
        /\ eventCallback' = left /\ current' = current
    BY <1>1 DEF LoginError
  <2>2. \A j \in SocketIds : /\ sockets'[j].listens = known[j].listens
                             /\ sockets'[j].life = known[j].life
                             /\ sockets'[j].timer \in {"none", known[j].timer}
    BY <2>1 DEF Socket
  <2>3. Silent(sockets')
    BY <2>2 DEF Silent
  <2> QED
    BY <2>1, <2>2, <2>3, SilentQuiet
<1>2. CASE attempt[1] = "broker" /\ BrokerError(known, left, attempt[2], err)
  <2>1. ASSUME NEW host \in Hosts, TryHost(known, attempt[2], host), awaited = attempt
        PROVE  \A j \in SocketIds : SocketInv(j)'
    <3>1. host \in Nat /\ last + 1 \in SocketIds
      BY <2>1, ConnectAssumption DEF TryHost, GetBrokerPort, TypeOK, Hosts, SocketIds
    <3>2. attempt = <<"broker", attempt[2]>>
      BY <1>2, <2>1 DEF TypeOK, Attempts, None
    <3>3. /\ current' = last + 1 /\ hostIndex' = host
          /\ sockets' = [known EXCEPT ![last + 1] = Opened("broker", host)]
          /\ eventCallback' = <<"broker", last + 1>> /\ awaited' = <<"broker", last + 1>>
      BY <2>1, <3>2 DEF TryHost, GetBrokerPort
    <3> QED
      BY <3>1, <3>3, OpenedQuiet
  <2>2. CASE /\ err \in {"refused", "timeout"} /\ HostsLeft
             /\ TryHost(known, attempt[2], hostIndex + 1)
    <3>1. hostIndex + 1 \in Hosts
      BY <2>2, ConnectAssumption DEF TypeOK, HostsLeft, Hosts
    <3> QED
      BY <2>1, <2>2, <3>1
  <2>3. CASE err \in {"refused", "timeout"} /\ TryHost(known, attempt[2], 0)
    <3>1. 0 \in Hosts
      BY ConnectAssumption DEF Hosts
    <3> QED
      BY <2>1, <2>3, <3>1
  <2>4. CASE sockets' = known /\ eventCallback' = left /\ current' = current
    BY <2>4, SilentQuiet
  <2> QED
    BY <1>2, <2>2, <2>3, <2>4 DEF BrokerError
<1> QED
  BY <1>1, <1>2 DEF AttemptError

LEMMA QuietInvariant == TypeOK /\ ExclusiveInv /\ QuietInv /\ [Next]_vars => QuietInv'
<1> SUFFICES ASSUME TypeOK, ExclusiveInv, QuietInv, [Next]_vars, stale' = 0
             PROVE  (\A j \in SocketIds : SocketInv(j)') /\ SessionInv' /\ node' = "up"
  BY DEF QuietInv
<1>t. /\ sockets \in [SocketIds -> Socket] /\ stale \in Nat /\ last \in Nat /\ MaxSockets \in Nat
      /\ eventCallback \in Attempts /\ hostIndex \in Nat
  BY ConnectAssumption DEF TypeOK
<1>e. /\ pending <=> awaited # None
      /\ ~(pending /\ opened)
  BY DEF ExclusiveInv, WaitingInv
<1>q. stale = 0 => (\A j \in SocketIds : SocketInv(j)) /\ SessionInv /\ node = "up"
  BY DEF QuietInv
<1>1. ASSUME NEW c \in Calls, Connect(c)
      PROVE  (\A j \in SocketIds : SocketInv(j)') /\ SessionInv' /\ node' = "up"
  <2>0. stale = 0 /\ node' = node
    BY <1>1 DEF Connect
  <2>1. CASE UNCHANGED <<counterVars, flagVars, socketVars, awaited>>
    BY <1>q, <2>0, <2>1 DEF SocketInv, SessionInv, Alive, counterVars, flagVars, socketVars
  <2>2. CASE /\ ~opened /\ ~pending
             /\ GetBrokerPort(sockets, None, hostIndex)
             /\ UNCHANGED <<counterVars, opened, brokerPort, slot>>
    <3>1. awaited = None
      BY <1>e, <2>2
    <3>2. Silent(sockets)
      BY <1>q, <2>0, <3>1, AttemptsDiffer DEF SocketInv, Silent, Alive, None
    <3>3. /\ last + 1 \in SocketIds /\ current' = last + 1 /\ hostIndex' = hostIndex
          /\ sockets' = [sockets EXCEPT ![last + 1] = Opened("broker", hostIndex)]
          /\ eventCallback' = <<"broker", last + 1>> /\ awaited' = <<"broker", last + 1>>
      BY <1>t, <2>2, <3>1 DEF GetBrokerPort, SocketIds, counterVars
    <3>4. \A j \in SocketIds : SocketInv(j)'
      BY <1>t, <3>2, <3>3, OpenedQuiet
    <3> QED
      BY <1>q, <2>0, <2>2, <3>4 DEF SessionInv
  <2> QED
    BY <1>1, <2>1, <2>2 DEF Connect, Denied
<1>2. ASSUME NEW i \in SocketIds, NEW port \in Ports, BrokerReply(i, port)
      PROVE  (\A j \in SocketIds : SocketInv(j)') /\ SessionInv' /\ node' = "up"
  <2> DEFINE answered == [Silenced(sockets[i]) EXCEPT !.life = "connected"]
             known == [sockets EXCEPT ![i] = answered]
  <2>0. /\ stale = 0 /\ node' = node /\ Alive(i) /\ sockets[i].listens = "broker"
    <3>1. stale = 0 /\ node' = node /\ Alive(i) /\ sockets[i].listens \in {"broker", "both"}
      BY <1>2 DEF BrokerReply
    <3>2. sockets[i].listens = "both" => awaited = <<"both", i>>
      BY <1>q, <3>1 DEF SocketInv
    <3> QED
      BY <3>1, <3>2 DEF TypeOK, Attempts, None
  <2>1. /\ i = current /\ awaited = <<"broker", i>> /\ sockets[i].host = hostIndex
        /\ eventCallback # None
    BY <1>q, <2>0 DEF SocketInv
  <2>2. pending /\ ~opened
    BY <1>e, <2>1, AttemptsDiffer
  <2>3. sockets[i] \in Socket
    BY <1>t
  <2>4. /\ answered \in Socket /\ answered.life = "connected" /\ answered.host = hostIndex
        /\ answered.listens = "none" /\ answered.timer = "none"
    BY <2>1, <2>3 DEF Silenced, Socket
  <2> HIDE DEF answered
  <2>5. /\ known \in [SocketIds -> Socket] /\ known[i] = answered
        /\ \A j \in SocketIds : j # i => known[j] = sockets[j]
    BY <1>t, <2>4
  <2>k. known = [sockets EXCEPT ![i] = [Silenced(@) EXCEPT !.life = "connected"]]
    BY DEF answered
  <2> HIDE DEF known
  <2>6. Silent(known)
    BY <1>q, <2>0, <2>1, <2>4, <2>5, SilencedCurrent
  <2>7. CASE /\ opened' = (opened /\ awaited # <<"broker", i>>)
             /\ BrokerError(known, eventCallback, i, "port")
    <3>1. AttemptError(known, eventCallback, <<"broker", i>>, "port")
      BY <2>7 DEF AttemptError
    <3>2. \A j \in SocketIds : SocketInv(j)'
      BY <2>1, <2>5, <2>6, <3>1, AttemptErrorQuiet
    <3> QED
      BY <1>q, <2>0, <2>2, <2>7, <3>2 DEF SessionInv
  <2>8. CASE /\ last < MaxSockets
             /\ last' = last + 1
             /\ current' = last + 1
             /\ sockets' = [known EXCEPT ![last + 1] = Opened("login", hostIndex)]
             /\ eventCallback' = <<"login", last + 1>>
             /\ awaited' = <<"login", last + 1>>
             /\ slot' = last + 1
             /\ UNCHANGED <<hostIndex, flagVars, tried, result>>
    <3>1. last + 1 \in SocketIds
      BY <1>t, <2>8 DEF SocketIds
    <3>2. \A j \in SocketIds : SocketInv(j)'
      BY <1>t, <2>5, <2>6, <2>8, <3>1, OpenedQuiet
    <3> QED
      BY <1>q, <2>0, <2>2, <2>8, <3>2 DEF SessionInv, flagVars
  <2>9. CASE /\ sockets' = [known EXCEPT ![current].listens = WithLogin(@)]
             /\ awaited' = <<"login", current>>
             /\ slot' = current
             /\ UNCHANGED <<hostIndex, flagVars, last, current, eventCallback, tried, result>>
    <3>1. /\ sockets'[i].life = "connected" /\ sockets'[i].host = hostIndex
          /\ sockets'[i].listens = "login" /\ sockets'[i].timer = "none"
      BY <2>1, <2>4, <2>5, <2>9 DEF Socket, WithLogin
    <3>2. \A j \in SocketIds : j # i => sockets'[j] = known[j]
      BY <2>1, <2>5, <2>9
    <3>3. SocketInv(i)'
      BY <2>1, <2>9, <3>1 DEF SocketInv, Alive
    <3>4. \A j \in SocketIds : j # i => SocketInv(j)'
      BY <2>1, <2>6, <2>9, <3>2 DEF SocketInv, Silent
    <3> QED
      BY <1>q, <2>0, <2>2, <2>9, <3>3, <3>4 DEF SessionInv, flagVars
  <2> QED
    BY <1>2, <2>1, <2>7, <2>8, <2>9, <2>k DEF BrokerReply
<1>3. ASSUME NEW i \in SocketIds, NEW ok \in BOOLEAN, LoginReply(i, ok)
      PROVE  (\A j \in SocketIds : SocketInv(j)') /\ SessionInv' /\ node' = "up"
  <2> DEFINE known == [[sockets EXCEPT ![i].life = "connected", ![i].listens = "none",
                                       ![i].session = ok]
                         EXCEPT ![current] = Silenced(@), ![slot].timer = "none"]
  <2>0. stale = 0 /\ node' = node /\ slot' = slot /\ Alive(i) /\ sockets[i].listens = "login"
    BY <1>3 DEF LoginReply
  <2>1. /\ i = current /\ awaited = <<"login", i>> /\ sockets[i].host = hostIndex
        /\ slot = i /\ eventCallback # None
    BY <1>q, <2>0 DEF SocketInv
  <2>2. pending /\ ~opened
    BY <1>e, <2>1, AttemptsDiffer
  <2>3. sockets[i] \in Socket
    BY <1>t
  <2>4. known = [[[sockets EXCEPT ![i].life = "connected", ![i].listens = "none",
                                  ![i].session = ok]
                    EXCEPT ![i] = Silenced(@)] EXCEPT ![i].timer = "none"]
    BY <2>1
  <2>5. /\ known \in [SocketIds -> Socket] /\ known[i].life = "connected"
        /\ known[i].host = hostIndex /\ known[i].session = ok
        /\ known[i].listens = "none" /\ known[i].timer = "none"
    BY <1>t, <2>1, <2>3, <2>4, ZenonT(40) DEF Socket, Silenced
  <2>6. \A j \in SocketIds : j # i => known[j] = sockets[j]
    BY <1>t, <2>4
  <2>k. /\ ~ok => /\ opened' = (opened /\ awaited # <<"login", slot>>)
                  /\ LoginError(known, eventCallback, slot)
        /\ ok => sockets' = known /\ UNCHANGED <<counterVars, current, eventCallback>>
    BY <1>3 DEF LoginReply
  <2> HIDE DEF known
  <2>7. Silent(known)
    BY <1>q, <2>0, <2>1, <2>5, <2>6, SilencedCurrent
  <2>8. CASE ~ok
    <3>1. AttemptError(known, eventCallback, <<"login", slot>>, "error")
      BY <2>8, <2>k DEF AttemptError
    <3>2. \A j \in SocketIds : SocketInv(j)'
      BY <2>1, <2>5, <2>7, <3>1, AttemptErrorQuiet
    <3> QED
      BY <1>q, <2>0, <2>2, <2>8, <2>k, <3>2 DEF SessionInv
  <2>9. CASE ok
    <3>1. \A j \in SocketIds : SocketInv(j)'
      BY <2>1, <2>7, <2>9, <2>k, SilentQuiet
    <3> QED
      BY <1>q, <2>0, <2>1, <2>5, <2>9, <2>k, <3>1 DEF SessionInv, counterVars
  <2> QED
    BY <2>8, <2>9
<1>d. ASSUME NEW i \in SocketIds, i = current, stale = 0
      PROVE  /\ [sockets EXCEPT ![i] = Died(@)] \in [SocketIds -> Socket]
             /\ Silent([sockets EXCEPT ![i] = Died(@)])
             /\ [sockets EXCEPT ![i] = Died(@)][current].life = "dead"
  <2> DEFINE known == [sockets EXCEPT ![i] = Died(@)]
  <2>1. sockets[i] \in Socket
    BY <1>t
  <2>2. /\ Died(sockets[i]) \in Socket /\ Died(sockets[i]).life = "dead"
        /\ Died(sockets[i]).listens = "none" /\ Died(sockets[i]).timer = "none"
    BY <2>1, SocketOperators
  <2>3. /\ known \in [SocketIds -> Socket] /\ known[i] = Died(sockets[i])
        /\ \A j \in SocketIds : j # i => known[j] = sockets[j]
    BY <1>t, <2>2
  <2> HIDE DEF known
  <2>4. Silent(known) /\ known[current].life = "dead"
    BY <1>q, <1>d, <2>2, <2>3, SilencedCurrent
  <2> QED
    BY <2>3, <2>4 DEF known
<1>4. ASSUME NEW i \in SocketIds, SocketTimeout(i)
      PROVE  (\A j \in SocketIds : SocketInv(j)') /\ SessionInv' /\ node' = "up"
  <2> DEFINE known == [sockets EXCEPT ![i] = Died(@)]
  <2>1. /\ stale = 0 /\ node' = node /\ sockets[i].timer # "none" /\ opened' = FALSE
        /\ AttemptError(known, eventCallback, <<sockets[i].timer, i>>, "timeout")
    BY <1>4 DEF SocketTimeout, ClearOpened
  <2>2. i = current /\ awaited = <<sockets[i].timer, i>>
    BY <1>q, <2>1 DEF SocketInv
  <2>3. known \in [SocketIds -> Socket] /\ Silent(known) /\ known[current].life = "dead"
    BY <1>d, <2>1, <2>2
  <2> HIDE DEF known
  <2>4. \A j \in SocketIds : SocketInv(j)'
    BY <2>1, <2>2, <2>3, AttemptErrorQuiet
  <2> QED
    BY <1>q, <2>1, <2>4 DEF SessionInv
<1>s. ASSUME NEW disturbs \in BOOLEAN, CountStale(disturbs)
      PROVE  ~disturbs /\ stale = 0
  BY <1>t, <1>s DEF CountStale
<1>5. ASSUME NEW i \in SocketIds, SocketClose(i)
      PROVE  (\A j \in SocketIds : SocketInv(j)') /\ SessionInv' /\ node' = "up"
  <2> DEFINE known == [sockets EXCEPT ![i] = Died(@)]
  <2>1. /\ CountStale(i # current /\ opened) /\ sockets' = known /\ opened' = FALSE
        /\ UNCHANGED <<hostIndex, current, eventCallback, slot, awaited, node>>
    BY <1>5 DEF SocketClose, ClearOpened, counterVars
  <2>2. stale = 0
    BY <1>s, <2>1 DEF TypeOK
  <2>3. CASE i = current
    <3>1. Silent(known) /\ known[current].life = "dead"
      BY <1>d, <2>2, <2>3
    <3> HIDE DEF known
    <3>2. \A j \in SocketIds : SocketInv(j)'
      BY <2>1, <3>1, SilentQuiet
    <3> QED
      BY <1>q, <2>1, <2>2, <3>2 DEF SessionInv
  \* A replaced socket goes while the connection is not open.
  <2>4. CASE i # current
    <3>1. /\ Died(sockets[i]).life = "dead"
          /\ Died(sockets[i]).listens = "none" /\ Died(sockets[i]).timer = "none"
      BY <1>t, SocketOperators
    <3>2. /\ known[i] = Died(sockets[i])
          /\ \A j \in SocketIds : j # i => known[j] = sockets[j]
      BY <1>t
    <3> HIDE DEF known
    <3>3. SocketInv(i)'
      BY <2>1, <2>4, <3>1, <3>2 DEF SocketInv, Alive
    <3>4. \A j \in SocketIds : j # i => SocketInv(j)'
      BY <1>q, <2>1, <2>2, <3>2 DEF SocketInv, Alive
    <3> QED
      BY <1>q, <2>1, <2>2, <3>3, <3>4 DEF SessionInv
  <2> QED
    BY <2>3, <2>4
<1>6. ASSUME NEW i \in SocketIds, NEW err \in {"refused", "reset"}, SocketError(i, err)
      PROVE  (\A j \in SocketIds : SocketInv(j)') /\ SessionInv' /\ node' = "up"
  <2> DEFINE known == [sockets EXCEPT ![i] = Died(@)]
  <2>1. /\ CountStale(i # current) /\ opened' = FALSE /\ Alive(i)
        /\ err = "refused" => sockets[i].life = "connecting"
        /\ \/ eventCallback = None
           \/ AttemptError(known, None, eventCallback, err) /\ node' = node
    BY <1>6 DEF SocketError, ClearOpened
  <2>2. i = current /\ stale = 0
    BY <1>s, <2>1
  <2>3. known \in [SocketIds -> Socket] /\ Silent(known) /\ known[current].life = "dead"
    BY <1>d, <2>2
  <2>4. /\ eventCallback # None
        /\ err \in {"refused", "timeout"} => awaited = eventCallback
    BY <1>q, <2>1, <2>2 DEF SocketInv
  <2> HIDE DEF known
  <2>5. \A j \in SocketIds : SocketInv(j)'
    BY <2>1, <2>3, <2>4, AttemptErrorQuiet
  <2> QED
    BY <1>q, <2>1, <2>2, <2>4, <2>5 DEF SessionInv
<1>7. ASSUME UNCHANGED vars
      PROVE  (\A j \in SocketIds : SocketInv(j)') /\ SessionInv' /\ node' = "up"
  BY <1>q, <1>7 DEF SocketInv, SessionInv, Alive, vars, counterVars, flagVars, socketVars,
                    historyVars
<1> QED
  BY <1>1, <1>2, <1>3, <1>4, <1>5, <1>6, <1>7 DEF Next
-----------------------------------------------------------------------------

\* The inductive invariant holds in every state that connect() and the events of
\* its sockets reach, the late events of replaced sockets included.
THEOREM InvariantHolds == Spec => []IInv
<1>1. Init => IInv
  <2> SUFFICES ASSUME Init PROVE IInv
    OBVIOUS
  <2>1. TypeOK
    <3>1. Unused \in Socket
      BY DEF Unused, Socket
    <3>2. sockets \in [SocketIds -> Socket] /\ None \in Attempts
      BY <3>1 DEF Init, Attempts
    <3>3. /\ hostIndex \in Nat /\ retryCount \in Nat /\ last \in 0..MaxSockets
          /\ current \in 0..MaxSockets /\ slot \in 0..MaxSockets
          /\ calls \in 0..MaxConnects /\ stale \in 0..MaxStale
      BY ConnectAssumption DEF Init
    <3>4. tried \in [Hosts -> Nat] /\ result \in [Calls -> Outcomes]
      BY DEF Init, Outcomes
    <3> QED
      BY <3>2, <3>3, <3>4 DEF Init, TypeOK, Outcomes
  <2>2. ExclusiveInv
    BY DEF Init, ExclusiveInv, WaitingInv
  <2>3. CountInv
    BY DEF Init, CountInv, GivesUpAfterAllTries
  <2>4. QuietInv
    BY DEF Init, QuietInv, SocketInv, SessionInv, Unused, Alive
  <2> QED
    BY <2>1, <2>2, <2>3, <2>4 DEF IInv
<1>2. IInv /\ [Next]_vars => IInv'
  BY TypeInvariant, ExclusiveInvariant, CountInvariant, QuietInvariant DEF IInv, ExclusiveInv
<1> QED
  BY <1>1, <1>2, PTL DEF Spec

\* Sockets, attempts and counters keep their types through every fail-over.
THEOREM TypeCorrect == Spec => []TypeOK
<1>1. IInv => TypeOK
  BY DEF IInv
<1> QED
  BY <1>1, InvariantHolds, PTL

\* connectionPending lets one connect() through at a time and is taken back when
\* its attempt is settled, whichever events of whichever sockets come first.
THEOREM PendingExcludes == Spec => []PendingIsExclusive
<1>1. IInv => PendingIsExclusive
  <2> SUFFICES ASSUME WaitingInv, ~(pending /\ opened) PROVE PendingIsExclusive
    BY DEF IInv, ExclusiveInv
  <2>1. CASE pending
    <3>1. PICK c \in Calls : {d \in Calls : result[d] = "waiting"} = {c}
      BY <2>1 DEF WaitingInv
    <3>2. Cardinality({d \in Calls : result[d] = "waiting"}) = 1
      BY <3>1, FS_Singleton
    <3> QED
      BY <2>1, <3>2 DEF WaitingInv, PendingIsExclusive
  <2>2. CASE ~pending
    <3>1. {d \in Calls : result[d] = "waiting"} = {}
      BY <2>2 DEF WaitingInv
    <3>2. Cardinality({d \in Calls : result[d] = "waiting"}) = 0
      BY <3>1, FS_EmptySet
    <3> QED
      BY <2>2, <3>2 DEF WaitingInv, PendingIsExclusive
  <2> QED
    BY <2>1, <2>2
<1> QED
  BY <1>1, InvariantHolds, PTL

\* While no replaced socket has erred or closed, the host getActiveHost() reports
\* is the one the open session is with.
THEOREM ActiveHostCorrect == Spec => []ActiveHostIsConnected
<1>1. IInv => ActiveHostIsConnected
  BY DEF IInv, QuietInv, SessionInv, ActiveHostIsConnected
<1> QED
  BY <1>1, InvariantHolds, PTL

\* While no replaced socket has erred or closed, connectionOpened means a session.
THEOREM OpenMeansSession == Spec => []OpenedIsLoggedIn
<1>1. IInv => OpenedIsLoggedIn
  BY DEF IInv, QuietInv, SessionInv, OpenedIsLoggedIn
<1> QED
  BY <1>1, InvariantHolds, PTL

\* A connect() that starts with fresh counters tries every host
\* maxConnectionRetryCount + 1 times before it gives up, late events or not.
THEOREM TriesAllHosts == Spec => []GivesUpAfterAllTries
<1>1. IInv => GivesUpAfterAllTries
  BY DEF IInv, CountInv
<1> QED
  BY <1>1, InvariantHolds, PTL

\* The error of the current socket always finds a callback.
THEOREM CurrentErrorsHandled == Spec => []CurrentErrorIsHandled
<1>1. IInv => CurrentErrorIsHandled
  BY DEF IInv, TypeOK, QuietInv, CurrentErrorIsHandled
<1> QED
  BY <1>1, InvariantHolds, PTL
=============================================================================

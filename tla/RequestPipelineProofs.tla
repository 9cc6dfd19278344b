----------------------- MODULE RequestPipelineProofs -----------------------
(***************************************************************************)
(* Proofs about the pipeline, for any set of requests of any kinds, any     *)
(* faults and any number of sockets that die.  What the queue does is not   *)
(* proved again: the lemmas of RequestQueueProofs are instantiated.         *)
(***************************************************************************)
EXTENDS RequestPipeline, SequenceTheorems, TLAPS

QP == INSTANCE RequestQueueProofs WITH Request <- Queued, DoneLimit <- 9

-----------------------------------------------------------------------------
(* The invariants.                                                           *)

\* Who is in one of the places has been called; what waits in `micro` is for
\* the queue or for a close(); nobody waits for connect() once it has a socket.
TasksOK(tasks) ==
    /\ tasks \in Seq([do : {"done", "closeDatabase", "rejectClose"}, of : Requests])
    /\ \A k \in 1..Len(tasks) :
          IF tasks[k].do = "done" THEN tasks[k].of \in Queued ELSE Kind[tasks[k].of] = "close"

CloserOK ==
    \A i \in Internal : /\ stage[i] # "idle" => closer[i] \in Requests
                        /\ closer[i] \in Requests => Kind[closer[i]] = "close"

PlacesInv ==
    /\ \A r \in Requests : r \in {currentItem, connector, slot, eventCallback} => stage[r] # "idle"
    /\ \A i \in 1..Len(items) : stage[items[i]] # "idle"
    /\ \A i \in 1..Len(sent) : stage[sent[i]] # "idle"
    /\ listening => slot \in Requests
    /\ CloserOK
    /\ TasksOK(micro)
    /\ connector # NoRequest => link # "open" /\ Kind[connector] # "close"

\* The pushed requests: not urgent, and not past the queue.
Pushed == Queued \ Urgent

\* Each call is made once, and whoever is under way has been called.
CallsInv ==
    /\ \A i, j \in 1..Len(called) : called[i] = called[j] => i = j
    /\ \A i \in 1..Len(called) : stage[called[i]] # "idle"
    /\ \A r \in Pushed : stage[r] # "idle" => \E i \in 1..Len(called) : called[i] = r

\* Pushed requests go through the line, the claim, connect() and the socket in
\* the order of their calls, however often their `done` is called.
InOrder(calls, line, current, waiter, sends) ==
    /\ \A i, j \in 1..Len(line) :
          i < j /\ line[i] \in Pushed /\ line[j] \in Pushed => Before(calls, line[i], line[j])
    /\ \A r \in Pushed, j \in 1..Len(line) :
          /\ line[j] \in Pushed
          /\ r = current \/ r = waiter \/ \E i \in 1..Len(sends) : sends[i] = r
          => Before(calls, r, line[j])
    /\ waiter \in Pushed /\ current \in Pushed => waiter = current \/ Before(calls, waiter, current)
    /\ \A i \in 1..Len(sends), r \in Pushed :
          sends[i] \in Pushed /\ (r = current \/ r = waiter) =>
             sends[i] = r \/ Before(calls, sends[i], r)
    /\ \A i, j \in 1..Len(sends) :
          i < j /\ sends[i] \in Pushed /\ sends[j] \in Pushed =>
             sends[i] = sends[j] \/ Before(calls, sends[i], sends[j])

OrderInv == CallsInv /\ InOrder(called, items, currentItem, connector, sent)

\* Nothing is sent again: what was sent is answered next; an item that was not
\* called has done nothing; who connects has not sent.
SendsInv ==
    /\ \A i, j \in 1..Len(sent) : sent[i] = sent[j] => i = j
    /\ \A i \in 1..Len(sent) : stage[sent[i]] \in {"sent", "ok", "error"}
    /\ \A r \in Requests : r \in {slot, eventCallback} => stage[r] \in {"sent", "ok", "error"}
    /\ \A r \in Queued : runs[r] = 0 => stage[r] \in {"idle", "called", "dropped"}
    /\ connector \in Requests => stage[connector] = "connecting"

\* Each close() waits for one closeQuery() of its own.
ClosersInv ==
    /\ \A i \in Internal : stage[i] \notin {"idle", "ok", "error"} => stage[closer[i]] = "closing"
    /\ \A i \in Internal : closer[i] \in Requests => stage[closer[i]] # "idle"
    /\ \A i, j \in Internal : closer[i] = closer[j] /\ closer[i] # NoRequest => i = j

\* It is told once, when that is settled.
TasksInv ==
    /\ \A k, l \in 1..Len(micro) : micro[k].do # "done" /\ micro[l].do # "done" => k = l
    /\ \A k \in 1..Len(micro) :
          micro[k].do # "done" =>
             /\ stage[micro[k].of] = "closing"
             /\ \A i \in Internal : closer[i] = micro[k].of => stage[i] \in {"ok", "error"}

SentInv == SendsInv /\ ClosersInv /\ TasksInv

\* What the queue was given has been called.
QueueInv == QP!IInv /\ \A r \in accepted : stage[r] # "idle"

UntilRepeated == QueueInv /\ (Queue!RepeatedDone \/ SentInv)

\* Requests whose code calls `done` once.
CallDoneOnce == Throwing = {} /\ \A r \in Requests : Kind[r] # "commit"

\* Each calls it when it is settled.
DoneInv ==
    /\ \A r \in Queued : dones[r] > 0 => dones[r] = 1 /\ Answered(r)
    /\ \A k \in 1..Len(micro) :
          micro[k].do = "done" => k = 1 /\ dones[micro[k].of] = 0 /\ Answered(micro[k].of)
    /\ ~Queue!RepeatedDone

\* Requests that leave the slot alone until the queue calls them.
KeepToTheQueue == CallDoneOnce /\ \A r \in Requests : Kind[r] \in {"execute", "fetch", "closeQuery"}

\* Only the item that runs is connecting or sent, and what it has sent is all that
\* is on the wire.
Awaited(r) == stage[r] \in {"connecting", "sent"}

Heard(r) == link = "open" /\ wire = <<r>> /\ listening /\ slot = r /\ eventCallback = r

AwaitInv ==
    /\ \A r \in Requests : Awaited(r) => currentItem = r /\ runs[r] = 1 /\ dones[r] = 0 /\ micro = <<>>
    /\ \A r \in Requests : stage[r] = "connecting" => connector = r
    /\ \A r \in Requests : stage[r] = "sent" => Heard(r) \/ (r \in cut /\ link = "closed" /\ wire = <<>>)
    /\ wire # <<>> => \E r \in Requests : stage[r] = "sent" /\ wire = <<r>>

-----------------------------------------------------------------------------
(* What the queue of the pipeline has from the queue's own proofs.           *)

LEMMA QueueAssumptions == 9 \in Nat \ {0} /\ NoRequest \notin Queued /\ Urgent \subseteq Queued
  BY PipelineAssumption DEF Queued, Urgent

LEMMA KindFacts ==
    /\ Queued \subseteq Requests
    /\ Internal \subseteq Urgent
    /\ Throwing \subseteq Queued \ Internal
    /\ NoRequest \notin Requests
    /\ "login" \notin Requests
    /\ \A r \in Requests : r \in Queued <=> Kind[r] \notin {"version", "close"}
  BY PipelineAssumption DEF Queued, Urgent

LEMMA SameQueue ==
    /\ Queue!TypeOK <=> QP!TypeOK
    /\ Queue!RepeatedDone <=> QP!RepeatedDone
    /\ Queue!Empty <=> QP!Empty
    /\ Queue!RunImmediate <=> QP!RunImmediate
    /\ \A r \in Queued : Queue!Push(r) <=> QP!Push(r)
    /\ \A r \in Queued : Queue!Unshift(r) <=> QP!Unshift(r)
    /\ \A r \in Queued : Queue!Done(r) <=> QP!Done(r)
<1>1. Queue!TypeOK <=> QP!TypeOK
  BY DEF Queue!TypeOK, QP!TypeOK
<1>2. Queue!RepeatedDone <=> QP!RepeatedDone
  BY DEF Queue!RepeatedDone, QP!RepeatedDone
<1>3. Queue!Empty <=> QP!Empty
  BY DEF Queue!Empty, QP!Empty, Queue!Waiting, QP!Waiting
<1>4. Queue!RunImmediate <=> QP!RunImmediate
  BY DEF Queue!RunImmediate, QP!RunImmediate
<1>5. \A r \in Queued : Queue!Push(r) <=> QP!Push(r)
  BY DEF Queue!Push, QP!Push, Queue!Accept, QP!Accept, Queue!Process, QP!Process
<1>6. \A r \in Queued : Queue!Unshift(r) <=> QP!Unshift(r)
  BY DEF Queue!Unshift, QP!Unshift, Queue!Accept, QP!Accept, Queue!Process, QP!Process
<1>7. \A r \in Queued : Queue!Done(r) <=> QP!Done(r)
  BY DEF Queue!Done, QP!Done, Queue!Process, QP!Process
<1> QED
  BY <1>1, <1>2, <1>3, <1>4, <1>5, <1>6, <1>7

\* process() either takes the front item of the line it is given or leaves
\* everything as it is given.
LEMMA ProcessEffect ==
    ASSUME NEW line \in Seq(Queued), NEW current \in Queued \cup {NoRequest},
           immediates \in Nat, Queue!Process(line, current)
    PROVE  \/ /\ current = NoRequest
              /\ line # <<>>
              /\ currentItem' = line[1]
              /\ currentItem' \in Queued
              /\ items' \in Seq(Queued)
              /\ Len(items') = Len(line) - 1
              /\ \A i \in 1..Len(items') : items'[i] = line[i + 1]
              /\ immediates' = immediates + 1
           \/ /\ current # NoRequest \/ line = <<>>
              /\ items' = line
              /\ currentItem' = current
              /\ immediates' = immediates
<1>1. QP!Process(line, current)
  BY DEF Queue!Process, QP!Process
<1> QED
  BY <1>1, QueueAssumptions, QP!ProcessCases

-----------------------------------------------------------------------------
(* What the handlers have in common: each moves one call r ahead.            *)

Stages == {"idle", "called", "connecting", "sent", "closing", "ok", "error", "dropped"}

Tasks == [do : {"done", "closeDatabase", "rejectClose"}, of : Requests]

Moves(r) ==
    /\ wire' \in Seq(Requests)
    /\ listening' \in BOOLEAN
    /\ listening' => listening \/ slot' = r
    /\ slot' \in {slot, r}
    /\ eventCallback' \in {eventCallback, r, "login", NoRequest}
    /\ stage' \in [Requests -> Stages]
    /\ \A q \in Requests : q # r => stage'[q] = stage[q]
    /\ stage'[r] # "idle"
    /\ TasksOK(micro')
    /\ sent' = sent \/ sent' = Append(sent, r)

LEMMA FollowersAreTasks ==
    ASSUME NEW r \in Requests, NEW outcome \in {"ok", "error"},
           r \in Internal => closer[r] \in Requests /\ Kind[closer[r]] = "close"
    PROVE  TasksOK(Followers(r, outcome))
<1>1. r \in Queued => Done(r) \in Tasks /\ Done(r).do = "done" /\ Done(r).of = r
  BY DEF Done, Tasks
<1>2. CASE r \in Internal
  <2> DEFINE second == [do |-> IF outcome = "ok" THEN "closeDatabase" ELSE "rejectClose",
                        of |-> closer[r]]
  <2>1. second \in Tasks /\ second.do # "done" /\ second.of = closer[r]
    BY <1>2 DEF Tasks
  <2>2. r \in Queued
    BY <1>2, KindFacts, QueueAssumptions
  <2>3. Followers(r, outcome) = <<Done(r), second>>
    BY <1>2, KindFacts DEF Followers
  <2> HIDE DEF second
  <2> QED
    BY <1>1, <1>2, <2>1, <2>2, <2>3 DEF TasksOK, Tasks
<1>3. CASE r \notin Internal
  <2>1. \/ r \in Queued /\ Followers(r, outcome) \in {<<Done(r)>>, <<Done(r), Done(r)>>}
        \/ Followers(r, outcome) = <<>>
    BY <1>3, KindFacts DEF Followers
  <2>2. ASSUME r \in Queued PROVE TasksOK(<<Done(r)>>) /\ TasksOK(<<Done(r), Done(r)>>)
    <3>1. PICK task \in Tasks : task = Done(r) /\ task.do = "done" /\ task.of = r
      BY <1>1, <2>2
    <3>2. TasksOK(<<task>>) /\ TasksOK(<<task, task>>)
      BY <2>2, <3>1 DEF TasksOK, Tasks
    <3> QED
      BY <3>1, <3>2
  <2>3. TasksOK(<<>>)
    BY DEF TasksOK
  <2> QED
    BY <2>1, <2>2, <2>3
<1> QED
  BY <1>2, <1>3

LEMMA SettleMoves ==
    ASSUME TypeOK, NEW r \in Requests, NEW outcome \in {"ok", "error"}, Settle(r, outcome),
           r \in Internal => closer[r] \in Requests /\ Kind[closer[r]] = "close"
    PROVE  /\ stage' \in [Requests -> Stages]
           /\ \A q \in Requests : q # r => stage'[q] = stage[q]
           /\ stage'[r] \in {"ok", "error"}
           /\ TasksOK(micro')
<1>1. CASE Answered(r)
  <2>1. stage' = stage /\ micro' = IF Kind[r] = "commit" THEN <<Done(r)>> ELSE <<>>
    BY <1>1 DEF Settle
  <2>2. Kind[r] = "commit" => r \in Queued
    BY KindFacts
  <2>3. TasksOK(micro')
    <3>1. PICK task \in Tasks : task = Done(r) /\ task.do = "done" /\ task.of = r
      <4>1. Done(r) \in Tasks /\ Done(r).do = "done" /\ Done(r).of = r
        BY DEF Tasks, Done
      <4> QED
        BY <4>1
    <3>2. TasksOK(<<>>) /\ (r \in Queued => TasksOK(<<task>>))
      BY <3>1 DEF TasksOK, Tasks
    <3> QED
      BY <2>1, <2>2, <3>1, <3>2
  <2> QED
    BY <1>1, <2>1, <2>3 DEF Answered, TypeOK, Stages
<1>2. CASE ~Answered(r)
  <2>1. stage' = [stage EXCEPT ![r] = outcome] /\ micro' = Followers(r, outcome)
    BY <1>2 DEF Settle
  <2> QED
    BY <2>1, FollowersAreTasks DEF TypeOK, Stages
<1> QED
  BY <1>1, <1>2

LEMMA SendMoves ==
    ASSUME TypeOK, TasksOK(micro'), NEW r \in Requests, NEW line \in Seq(Requests),
           NEW live \in BOOLEAN, Send(r, line, live)
    PROVE  Moves(r)
<1>1. stage' \in [Requests -> Stages] /\ stage'[r] # "idle"
      /\ \A q \in Requests : q # r => stage'[q] = stage[q]
  BY DEF Send, TypeOK, Stages
<1> QED
  BY <1>1 DEF Send, Moves

LEMMA ProceedMoves ==
    ASSUME TypeOK, TasksOK(micro), NEW r \in Requests, NEW line \in Seq(Requests),
           NEW left \in {eventCallback, "login"}, Proceed(r, line, left),
           r \in Internal => closer[r] \in Requests /\ Kind[closer[r]] = "close"
    PROVE  Moves(r)
<1>1. CASE Send(r, line, TRUE) /\ UNCHANGED micro
  <2>1. TasksOK(micro')
    BY <1>1 DEF TasksOK
  <2> QED
    BY <1>1, <2>1, SendMoves
<1>2. ASSUME NEW outcome \in {"ok", "error"}, Settle(r, outcome), wire' = line,
             eventCallback' \in {left, r}, UNCHANGED <<slot, listening, sent>>
      PROVE  Moves(r)
  BY <1>2, SettleMoves DEF Moves, TypeOK
<1>3. \/ Send(r, line, TRUE) /\ UNCHANGED micro
      \/ \E outcome \in {"ok", "error"} :
            /\ Settle(r, outcome) /\ wire' = line /\ eventCallback' \in {left, r}
            /\ UNCHANGED <<slot, listening, sent>>
  BY Zenon DEF Proceed
<1> QED
  BY <1>1, <1>2, <1>3

\* connect() for r: whoever waits afterwards waited before or is r.
LEMMA ConnectMoves ==
    ASSUME TypeOK, TasksOK(micro), NEW r \in Requests, Connect(r),
           connector # NoRequest => link # "open",
           r \in Internal => closer[r] \in Requests /\ Kind[closer[r]] = "close"
    PROVE  /\ Moves(r)
           /\ link' = link
           /\ sent' = sent \/ (sent' = Append(sent, r) /\ link = "open")
           /\ \/ connector' = connector
              \/ connector' = r /\ connector = NoRequest /\ link # "open"
<1>1. CASE link = "open" /\ Proceed(r, wire, eventCallback) /\ UNCHANGED <<link, connector>>
  <2>1. wire \in Seq(Requests)
    BY DEF TypeOK
  <2>2. Moves(r)
    BY <1>1, <2>1, ProceedMoves
  <2> QED
    BY <1>1, <2>2 DEF Moves
<1>2. CASE Settle(r, "error") /\ UNCHANGED <<socketVars, connector, slot, eventCallback, sent>>
  <2>1. /\ stage' \in [Requests -> Stages]
        /\ \A q \in Requests : q # r => stage'[q] = stage[q]
        /\ stage'[r] \in {"ok", "error"}
        /\ TasksOK(micro')
    BY <1>2, SettleMoves
  <2> QED
    BY <1>2, <2>1 DEF Moves, TypeOK, socketVars
<1>3. CASE /\ link # "open"
           /\ connector = NoRequest
           /\ connector' = r
           /\ eventCallback' = "login"
           /\ stage' = [stage EXCEPT ![r] = "connecting"]
           /\ UNCHANGED <<socketVars, slot, micro, sent>>
  <2>1. /\ stage' \in [Requests -> Stages]
        /\ \A q \in Requests : q # r => stage'[q] = stage[q]
        /\ stage'[r] # "idle"
    BY <1>3 DEF TypeOK, Stages
  <2>2. TasksOK(micro')
    BY <1>3 DEF TasksOK
  <2> QED
    BY <1>3, <2>1, <2>2 DEF Moves, TypeOK, socketVars
<1> QED
  BY <1>1, <1>2, <1>3 DEF Connect

LEMMA EndTransactionMoves ==
    ASSUME TypeOK, TasksOK(micro), NEW r \in Requests, EndTransaction(r), r \notin Internal
    PROVE  Moves(r)
<1>1. CASE Settle(r, "error") /\ UNCHANGED <<wire, listening, slot, eventCallback, sent>>
  BY <1>1, SettleMoves DEF Moves, TypeOK
<1>2. CASE Send(r, wire, link = "open") /\ UNCHANGED micro
  <2>1. TasksOK(micro')
    BY <1>2 DEF TasksOK
  <2>2. wire \in Seq(Requests)
    BY DEF TypeOK
  <2>3. PICK live \in BOOLEAN : Send(r, wire, live)
    BY <1>2
  <2> QED
    BY <2>1, <2>2, <2>3, SendMoves
<1> QED
  BY <1>1, <1>2 DEF EndTransaction

\* A handler that moves one call ahead keeps the types if it keeps those of the
\* variables that Moves does not mention.
LEMMA MovesKeepsType ==
    ASSUME TypeOK, Queue!TypeOK', NEW r \in Requests, Moves(r),
           link' \in {"none", "open", "closed", "taken"},
           connector' \in Requests \cup {NoRequest},
           autoCommit' \in BOOLEAN,
           closer' = closer,
           called' \in Seq(Requests),
           cut' \subseteq Requests,
           faults' \in 0..MaxFaults
    PROVE  TypeOK'
<1>1. sent' \in Seq(Requests)
  <2>1. sent' = sent \/ sent' = Append(sent, r)
    BY DEF Moves
  <2>2. sent \in Seq(Requests)
    BY DEF TypeOK
  <2> QED
    BY <2>1, <2>2
<1>2. micro' \in Seq([do : {"done", "closeDatabase", "rejectClose"}, of : Requests])
  BY DEF Moves, TasksOK
<1> QED
  BY <1>1, <1>2 DEF Moves, TypeOK, Stages

\* It keeps everybody in place if what the queue and connect() take is under way.
LEMMA MovesKeepsPlaces ==
    ASSUME TypeOK, TypeOK', PlacesInv, NEW r \in Requests, Moves(r),
           currentItem' = r \/ (currentItem' \in Requests => stage[currentItem'] # "idle"),
           \A i \in 1..Len(items') : items'[i] = r \/ stage[items'[i]] # "idle",
           closer' = closer,
           r \in Internal => stage[r] # "idle",
           connector' # NoRequest => /\ link' # "open" /\ Kind[connector'] # "close"
                                     /\ connector' = connector \/ connector' = r
    PROVE  PlacesInv'
<1>1. \A q \in Requests : stage[q] # "idle" \/ q = r => stage'[q] # "idle"
  BY DEF Moves
<1>2. \A q \in Requests : q \in {currentItem', connector', slot', eventCallback'} =>
         stage'[q] # "idle"
  <2>1. \A q \in Requests : q = connector' => q = connector \/ q = r
    BY KindFacts
  <2>2. \A q \in Requests : q = slot' => q = slot \/ q = r
    BY DEF Moves
  <2>3. \A q \in Requests : q = eventCallback' => q = eventCallback \/ q = r \/ q = "login" \/ q = NoRequest
    BY DEF Moves
  <2> QED
    BY <1>1, <2>1, <2>2, <2>3, KindFacts DEF PlacesInv
<1>3. \A i \in 1..Len(items') : stage'[items'[i]] # "idle"
  <2>1. \A i \in 1..Len(items') : items'[i] \in Requests
    BY KindFacts DEF TypeOK, Queue!TypeOK
  <2> QED
    BY <1>1, <2>1
<1>4. \A i \in 1..Len(sent') : stage'[sent'[i]] # "idle"
  <2>1. sent \in Seq(Requests) /\ \A i \in 1..Len(sent) : sent[i] \in Requests /\ stage[sent[i]] # "idle"
    BY DEF TypeOK, PlacesInv
  <2>2. \A i \in 1..Len(sent') : sent'[i] = r \/ (i \in 1..Len(sent) /\ sent'[i] = sent[i])
    <3>1. sent' = sent \/ sent' = Append(sent, r)
      BY DEF Moves
    <3> QED
      BY <2>1, <3>1
  <2> QED
    BY <1>1, <2>1, <2>2
<1>5. listening' => slot' \in Requests
  BY DEF Moves, PlacesInv
<1>6. CloserOK'
  BY KindFacts, QueueAssumptions DEF PlacesInv, CloserOK, Moves
<1> QED
  BY <1>2, <1>3, <1>4, <1>5, <1>6 DEF PlacesInv, Moves

-----------------------------------------------------------------------------
(* The queue under each handler.                                             *)

QueueStep ==
    \/ \E r \in Queued : Queue!Push(r) \/ Queue!Unshift(r) \/ Queue!Done(r)
    \/ Queue!RunImmediate
    \/ Queue!Empty
    \/ UNCHANGED queueVars

LEMMA QueueStepIsStep == QueueStep => [QP!Next]_(QP!vars)
  BY SameQueue, Zenon
  DEF QueueStep, QP!Next, QP!vars, QP!queueVars, QP!historyVars, queueVars

LEMMA QueueStepKeepsType == Queue!TypeOK /\ QueueStep => Queue!TypeOK'
<1>1. QP!TypeOK /\ [QP!Next]_(QP!vars) => QP!TypeOK'
  BY QueueAssumptions, QP!StepKeepsType
<1>2. Queue!TypeOK' <=> QP!TypeOK'
  BY DEF Queue!TypeOK, QP!TypeOK
<1> QED
  BY <1>1, <1>2, SameQueue, QueueStepIsStep

\* A call that is queued: it enters the line at one end or the other, and the
\* front of the line is claimed if nothing was.
LEMMA QueuedLine ==
    ASSUME Queue!TypeOK, NEW r \in Queued, Queue!Push(r) \/ Queue!Unshift(r)
    PROVE  \E line \in Seq(Queued) :
              /\ Queue!Process(line, currentItem)
              /\ Len(line) = Len(items) + 1
              /\ \/ /\ r \notin Urgent
                    /\ line[Len(items) + 1] = r
                    /\ \A i \in 1..Len(items) : line[i] = items[i]
                 \/ /\ r \in Urgent
                    /\ line[1] = r
                    /\ \A i \in 1..Len(items) : line[i + 1] = items[i]
<1>1. items \in Seq(Queued)
  BY DEF Queue!TypeOK
<1>2. CASE Queue!Push(r)
  <2>1. r \notin Urgent /\ Queue!Process(Append(items, r), currentItem)
    BY <1>2 DEF Queue!Push
  <2>2. Append(items, r) \in Seq(Queued) /\ Len(Append(items, r)) = Len(items) + 1
        /\ Append(items, r)[Len(items) + 1] = r
        /\ \A i \in 1..Len(items) : Append(items, r)[i] = items[i]
    BY <1>1
  <2> QED
    BY <2>1, <2>2
<1>3. CASE Queue!Unshift(r)
  <2>1. r \in Urgent /\ Queue!Process(<<r>> \o items, currentItem)
    BY <1>3 DEF Queue!Unshift
  <2>2. /\ <<r>> \o items \in Seq(Queued) /\ Len(<<r>> \o items) = Len(items) + 1
        /\ (<<r>> \o items)[1] = r
        /\ \A i \in 1..Len(items) : (<<r>> \o items)[i + 1] = items[i]
    BY <1>1
  <2> QED
    BY <2>1, <2>2
<1> QED
  BY <1>2, <1>3

\* Nothing comes out of process() that was not in the line or claimed.
LEMMA ProcessTakes ==
    ASSUME Queue!TypeOK, NEW line \in Seq(Queued), NEW current \in Queued \cup {NoRequest},
           Queue!Process(line, current)
    PROVE  /\ items' \in Seq(Queued) /\ currentItem' \in Queued \cup {NoRequest}
           /\ immediates' \in Nat
           /\ currentItem' = current \/ \E j \in 1..Len(line) : currentItem' = line[j]
           /\ \A i \in 1..Len(items') : \E j \in 1..Len(line) : items'[i] = line[j]
<1>1. immediates \in Nat
  BY DEF Queue!TypeOK
<1>2. CASE /\ line # <<>>
           /\ currentItem' = line[1]
           /\ currentItem' \in Queued
           /\ items' \in Seq(Queued)
           /\ Len(items') = Len(line) - 1
           /\ \A i \in 1..Len(items') : items'[i] = line[i + 1]
           /\ immediates' = immediates + 1
  <2>1. 1 \in 1..Len(line) /\ \A i \in 1..Len(items') : i + 1 \in 1..Len(line)
    BY <1>2
  <2> QED
    BY <1>1, <1>2, <2>1
<1>3. CASE items' = line /\ currentItem' = current /\ immediates' = immediates
  BY <1>1, <1>3
<1> QED
  BY <1>1, <1>2, <1>3, ProcessEffect

\* close() with a query open: the line is emptied and its own closeQuery() is
\* claimed, or waits alone behind the item that runs.
LEMMA OwnCloseQuery ==
    ASSUME Queue!TypeOK, NEW i \in Internal,
           accepted' = accepted \cup {i},
           dropped' = dropped \cup Queue!Waiting,
           Queue!Process(<<i>>, currentItem),
           UNCHANGED <<runs, dones, node>>
    PROVE  /\ Queue!TypeOK'
           /\ \/ /\ currentItem = NoRequest
                 /\ currentItem' = i
                 /\ items' = <<>>
                 /\ immediates' = immediates + 1
              \/ /\ currentItem # NoRequest
                 /\ currentItem' = currentItem
                 /\ items' = <<i>>
                 /\ immediates' = immediates
<1>1. i \in Queued /\ <<i>> \in Seq(Queued) /\ <<i>> # <<>> /\ Head(<<i>>) = i /\ Tail(<<i>>) = <<>>
  BY KindFacts, QueueAssumptions
<1>2. \/ /\ currentItem = NoRequest
         /\ currentItem' = i
         /\ items' = <<>>
         /\ immediates' = immediates + 1
      \/ /\ currentItem # NoRequest
         /\ currentItem' = currentItem
         /\ items' = <<i>>
         /\ immediates' = immediates
  BY <1>1 DEF Queue!Process
<1>3. Queue!Waiting \subseteq Queued
  BY DEF Queue!Waiting, Queue!TypeOK
<1>4. items' \in Seq(Queued) /\ currentItem' \in Queued \cup {NoRequest} /\ immediates' \in Nat
  <2>1. currentItem \in Queued \cup {NoRequest} /\ immediates \in Nat
    BY DEF Queue!TypeOK
  <2>2. i \in Queued /\ <<i>> \in Seq(Queued) /\ <<>> \in Seq(Queued)
    BY <1>1
  <2>3. items' = <<>> \/ items' = <<i>>
    BY <1>2
  <2>4. items' \in Seq(Queued)
    BY <2>2, <2>3, Zenon
  <2> QED
    BY <1>2, <2>1, <2>2, <2>4
<1>5. accepted' \subseteq Queued /\ dropped' \subseteq Queued
  BY <1>1, <1>3 DEF Queue!TypeOK
<1> QED
  BY <1>2, <1>4, <1>5 DEF Queue!TypeOK

-----------------------------------------------------------------------------
(* Types and places, handler by handler.                                     *)

LEMMA PlacesFacts ==
    ASSUME TypeOK, PlacesInv
    PROVE  /\ TasksOK(micro)
           /\ connector # NoRequest => link # "open"
           /\ \A i \in 1..Len(items) : items[i] \in Queued /\ stage[items[i]] # "idle"
           /\ currentItem \in Requests => stage[currentItem] # "idle"
           /\ \A i \in Internal : stage[i] # "idle" => closer[i] \in Requests /\ Kind[closer[i]] = "close"
  BY DEF TypeOK, Queue!TypeOK, PlacesInv, CloserOK

LEMMA CallQueuedKeepsPlaces ==
    ASSUME TypeOK, PlacesInv, NEW r \in Requests, CallQueued(r)
    PROVE  TypeOK' /\ PlacesInv'
<1>1. r \in Queued /\ r \notin Internal
  BY DEF CallQueued
<1>2. Queue!TypeOK /\ Queue!TypeOK'
  BY <1>1, QueueStepKeepsType DEF TypeOK, QueueStep, CallQueued
<1>3. Moves(r)
  <2>1. stage' = [stage EXCEPT ![r] = "called"]
        /\ UNCHANGED <<wire, listening, slot, eventCallback, micro, sent>>
    BY DEF CallQueued, socketVars
  <2>2. TasksOK(micro')
    BY <2>1, PlacesFacts DEF TasksOK
  <2> QED
    BY <2>1, <2>2 DEF Moves, TypeOK, Stages
<1>4. TypeOK'
  <2>1. /\ link' = link /\ connector' = connector /\ autoCommit' = autoCommit /\ closer' = closer
        /\ called' = Append(called, r)
        /\ cut' = cut /\ faults' = faults
    BY DEF CallQueued, socketVars
  <2>2. called' \in Seq(Requests)
    BY <2>1 DEF TypeOK
  <2> QED
    BY <1>2, <1>3, <2>1, <2>2, MovesKeepsType DEF TypeOK
<1>5. /\ \A i \in 1..Len(items') : items'[i] = r \/ stage[items'[i]] # "idle"
      /\ currentItem' = r \/ (currentItem' \in Requests => stage[currentItem'] # "idle")
  <2>1. PICK line \in Seq(Queued) :
           /\ Queue!Process(line, currentItem)
           /\ Len(line) = Len(items) + 1
           /\ \/ /\ r \notin Urgent
                 /\ line[Len(items) + 1] = r
                 /\ \A i \in 1..Len(items) : line[i] = items[i]
              \/ /\ r \in Urgent
                 /\ line[1] = r
                 /\ \A i \in 1..Len(items) : line[i + 1] = items[i]
    BY <1>1, <1>2, QueuedLine DEF CallQueued
  <2>2. Len(items) \in Nat /\ currentItem \in Queued \cup {NoRequest}
    BY DEF TypeOK, Queue!TypeOK
  <2>3. \A i \in 1..Len(line) : line[i] = r \/ stage[line[i]] # "idle"
    <3>1. \A i \in 1..Len(line) : i # Len(items) + 1 => i \in 1..Len(items)
      BY <2>1, <2>2
    <3>2. \A i \in 1..Len(line) : i # 1 => i - 1 \in 1..Len(items) /\ (i - 1) + 1 = i
      BY <2>1, <2>2
    <3>3. \A j \in 1..Len(items) : stage[items[j]] # "idle"
      BY PlacesFacts
    <3>4. ASSUME NEW i \in 1..Len(line) PROVE line[i] = r \/ stage[line[i]] # "idle"
      <4>1. CASE /\ line[Len(items) + 1] = r
                 /\ \A j \in 1..Len(items) : line[j] = items[j]
        BY <3>1, <3>3, <4>1
      <4>2. CASE /\ line[1] = r
                 /\ \A j \in 1..Len(items) : line[j + 1] = items[j]
        <5>1. i # 1 => line[i] = items[i - 1]
          BY <3>2, <4>2
        <5> QED
          BY <3>2, <3>3, <4>2, <5>1
      <4> QED
        BY <2>1, <4>1, <4>2
    <3> QED
      BY <3>4
  <2>4. /\ currentItem' = currentItem \/ \E j \in 1..Len(line) : currentItem' = line[j]
        /\ \A i \in 1..Len(items') : \E j \in 1..Len(line) : items'[i] = line[j]
    BY <1>2, <2>1, <2>2, ProcessTakes
  <2> QED
    BY <2>3, <2>4, PlacesFacts
<1>6. PlacesInv'
  <2>1. connector' = connector /\ link' = link /\ closer' = closer
    BY DEF CallQueued, socketVars
  <2>2. connector' # NoRequest => link' # "open" /\ Kind[connector'] # "close"
    BY <2>1 DEF PlacesInv
  <2> QED
    BY <1>1, <1>3, <1>4, <1>5, <2>1, <2>2, MovesKeepsPlaces
<1> QED
  BY <1>4, <1>6

LEMMA CallVersionKeepsPlaces ==
    ASSUME TypeOK, PlacesInv, NEW r \in Requests, CallVersion(r)
    PROVE  TypeOK' /\ PlacesInv'
<1>1. r \notin Queued /\ r \notin Internal /\ Kind[r] # "close"
  BY KindFacts, QueueAssumptions DEF CallVersion
<1>2. Queue!TypeOK'
  BY QueueStepKeepsType DEF TypeOK, QueueStep, CallVersion
<1>3. /\ Moves(r)
      /\ link' = link
      /\ \/ connector' = connector
         \/ connector' = r /\ connector = NoRequest /\ link # "open"
  BY <1>1, ConnectMoves, PlacesFacts DEF CallVersion
<1>4. /\ items' = items /\ currentItem' = currentItem
      /\ autoCommit' = autoCommit /\ closer' = closer /\ called' = Append(called, r)
      /\ cut' = cut /\ faults' = faults
  BY DEF CallVersion, queueVars
<1>5. TypeOK'
  <2>1. called' \in Seq(Requests)
    BY <1>4 DEF TypeOK
  <2> QED
    BY <1>2, <1>3, <1>4, <2>1, MovesKeepsType DEF TypeOK
<1>6. PlacesInv'
  <2>1. connector' # NoRequest => /\ link' # "open" /\ Kind[connector'] # "close"
                                  /\ connector' = connector \/ connector' = r
    BY <1>1, <1>3 DEF PlacesInv
  <2> QED
    BY <1>1, <1>3, <1>4, <1>5, <2>1, MovesKeepsPlaces, PlacesFacts
<1> QED
  BY <1>5, <1>6

\* close(): the one handler that moves several calls at once.
LEMMA CallCloseKeepsType ==
    ASSUME TypeOK, NEW r \in Requests, CallClose(r)
    PROVE  TypeOK'
<1>1. /\ called' \in Seq(Requests)
      /\ micro' \in Seq([do : {"done", "closeDatabase", "rejectClose"}, of : Requests])
      /\ connector' \in Requests \cup {NoRequest} /\ autoCommit' \in BOOLEAN
      /\ cut' \subseteq Requests /\ faults' \in 0..MaxFaults
  <2>1. called' = Append(called, r)
        /\ UNCHANGED <<connector, autoCommit, micro, cut, faults>>
    BY DEF CallClose
  <2> QED
    BY <2>1 DEF TypeOK
<1>2. CASE /\ link # "open"
           /\ stage' = [stage EXCEPT ![r] = "ok"]
           /\ UNCHANGED <<queueVars, socketVars, slot, eventCallback, closer, sent>>
  <2>1. Queue!TypeOK'
    BY <1>2, QueueStepKeepsType DEF TypeOK, QueueStep
  <2>2. UNCHANGED <<link, wire, listening, slot, eventCallback, closer, sent>>
    BY <1>2 DEF socketVars
  <2> QED
    BY <1>1, <1>2, <2>1, <2>2 DEF TypeOK
<1>3. CASE /\ Queue!Empty
           /\ slot' = r
           /\ eventCallback' = r
           /\ listening' = TRUE
           /\ wire' = Append(wire, r)
           /\ sent' = Append(sent, r)
           /\ stage' = [q \in Requests |-> IF q = r THEN "sent"
                         ELSE IF q \in Queue!Waiting THEN "dropped" ELSE stage[q]]
           /\ UNCHANGED <<link, closer>>
  <2>1. Queue!TypeOK'
    BY <1>3, QueueStepKeepsType DEF TypeOK, QueueStep
  <2>2. wire' \in Seq(Requests) /\ sent' \in Seq(Requests)
    BY <1>3 DEF TypeOK
  <2>3. stage' \in [Requests -> Stages]
    BY <1>3 DEF TypeOK, Stages
  <2> QED
    BY <1>1, <1>3, <2>1, <2>2, <2>3 DEF TypeOK, Stages
<1>4. ASSUME NEW i \in Internal,
             accepted' = accepted \cup {i},
             dropped' = dropped \cup Queue!Waiting,
             Queue!Process(<<i>>, currentItem),
             closer' = [closer EXCEPT ![i] = r],
             stage' = [q \in Requests |-> IF q = r THEN "closing" ELSE IF q = i THEN "called"
                         ELSE IF q \in Queue!Waiting THEN "dropped" ELSE stage[q]],
             UNCHANGED <<runs, dones, node, socketVars, slot, eventCallback, sent>>
      PROVE  TypeOK'
  <2>1. Queue!TypeOK'
    BY <1>4, OwnCloseQuery DEF TypeOK
  <2>2. stage' \in [Requests -> Stages]
    BY <1>4 DEF TypeOK, Stages
  <2>3. closer' \in [Internal -> Requests \cup {NoRequest}]
    BY <1>4 DEF TypeOK
  <2>4. UNCHANGED <<link, wire, listening, slot, eventCallback, sent>>
    BY <1>4 DEF socketVars
  <2> QED
    BY <1>1, <2>1, <2>2, <2>3, <2>4 DEF TypeOK, Stages
<1> QED
  BY <1>2, <1>3, <1>4 DEF CallClose

LEMMA CallCloseKeepsPlaces ==
    ASSUME TypeOK, TypeOK', PlacesInv, NEW r \in Requests, CallClose(r)
    PROVE  PlacesInv'
<1>1. /\ UNCHANGED <<connector, micro>> /\ Kind[r] = "close" /\ r \notin Queued /\ stage[r] = "idle"
  BY KindFacts DEF CallClose
<1>2. link' = link
  BY DEF CallClose, socketVars
<1>3. (connector' # NoRequest => link' # "open" /\ Kind[connector'] # "close") /\ TasksOK(micro')
  BY <1>1, <1>2 DEF PlacesInv, TasksOK
<1>4. \A q \in Requests : stage[q] # "idle" => stage'[q] # "idle"
  BY DEF CallClose, TypeOK
<1>5. stage'[r] # "idle"
  BY DEF CallClose, TypeOK
<1>6. sent' = sent \/ sent' = Append(sent, r)
  BY DEF CallClose
<1>7. \A j \in 1..Len(sent') : stage'[sent'[j]] # "idle"
  <2>1. sent \in Seq(Requests) /\ \A i \in 1..Len(sent) : sent[i] \in Requests /\ stage[sent[i]] # "idle"
    BY DEF TypeOK, PlacesInv
  <2>2. \A j \in 1..Len(sent') : sent'[j] = r \/ (j \in 1..Len(sent) /\ sent'[j] = sent[j])
    BY <1>6, <2>1
  <2> QED
    BY <1>4, <1>5, <2>1, <2>2
<1>8. /\ slot' = slot \/ slot' = r
      /\ eventCallback' = eventCallback \/ eventCallback' = r
      /\ listening' => listening \/ slot' = r
  <2>1. /\ slot' = slot \/ slot' = r
        /\ eventCallback' = eventCallback \/ eventCallback' = r
        /\ listening' = listening \/ slot' = r
    BY DEF CallClose, socketVars
  <2>2. listening \in BOOLEAN /\ listening' \in BOOLEAN
    BY DEF TypeOK
  <2> QED
    BY <2>1, <2>2
<1>9. CASE closer' = closer /\ items' \in {items, <<>>} /\ currentItem' = currentItem
           /\ \A q \in Internal : stage'[q] # "idle" => stage[q] # "idle"
  <2>1. \A q \in Requests : q \in {currentItem', connector', slot', eventCallback'} => stage'[q] # "idle"
    BY <1>1, <1>4, <1>5, <1>8, <1>9 DEF PlacesInv
  <2>2. \A j \in 1..Len(items') : stage'[items'[j]] # "idle"
    <3>1. \A j \in 1..Len(items) : items[j] \in Requests /\ stage[items[j]] # "idle"
      BY PlacesFacts, KindFacts
    <3> QED
      BY <1>4, <1>9, <3>1
  <2>3. CloserOK'
    BY <1>9 DEF PlacesInv, CloserOK
  <2> QED
    BY <1>3, <1>7, <1>8, <2>1, <2>2, <2>3 DEF PlacesInv
<1>10. ASSUME NEW i \in Internal,
             accepted' = accepted \cup {i},
             dropped' = dropped \cup Queue!Waiting,
             Queue!Process(<<i>>, currentItem),
             closer' = [closer EXCEPT ![i] = r],
             stage' = [q \in Requests |-> IF q = r THEN "closing" ELSE IF q = i THEN "called"
                         ELSE IF q \in Queue!Waiting THEN "dropped" ELSE stage[q]],
             UNCHANGED <<runs, dones, node>>
       PROVE PlacesInv'
  <2>1. i \in Queued /\ i \in Requests /\ stage'[i] = "called"
    BY <1>1, <1>10, KindFacts, QueueAssumptions
  <2>2. (items' = <<>> \/ items' = <<i>>) /\ (currentItem' = currentItem \/ currentItem' = i)
    BY <1>10, OwnCloseQuery DEF TypeOK
  <2>3. \A q \in Requests : q \in {currentItem', connector', slot', eventCallback'} => stage'[q] # "idle"
    BY <1>1, <1>4, <1>5, <1>8, <2>1, <2>2 DEF PlacesInv
  <2>4. \A j \in 1..Len(items') : stage'[items'[j]] # "idle"
    <3>1. \A j \in 1..Len(items') : items'[j] = i
      BY <2>2
    <3> QED
      BY <2>1, <3>1
  <2>5. CloserOK'
    <3>1. \A q \in Internal : closer'[q] = IF q = i THEN r ELSE closer[q]
      BY <1>10 DEF TypeOK
    <3>2. \A q \in Internal : q # i => (stage'[q] # "idle" => stage[q] # "idle")
      <4>1. \A j \in 1..Len(items) : stage[items[j]] # "idle"
        BY PlacesFacts
      <4>2. \A q \in Queue!Waiting : stage[q] # "idle"
        BY <4>1 DEF Queue!Waiting
      <4>3. \A q \in Internal : q # r /\ q \in Requests
        BY <1>1, KindFacts, QueueAssumptions
      <4> QED
        BY <1>10, <4>2, <4>3
    <3> QED
      BY <1>1, <3>1, <3>2 DEF PlacesInv, CloserOK
  <2> QED
    BY <1>3, <1>7, <1>8, <2>3, <2>4, <2>5 DEF PlacesInv
<1>11. \A q \in Queue!Waiting : stage[q] # "idle"
  <2>1. \A j \in 1..Len(items) : stage[items[j]] # "idle"
    BY PlacesFacts
  <2> QED
    BY <2>1 DEF Queue!Waiting
<1>12. \A q \in Internal : q # r /\ q \in Requests
  BY <1>1, KindFacts, QueueAssumptions
<1>13. CASE /\ stage' = [stage EXCEPT ![r] = "ok"]
            /\ UNCHANGED <<queueVars, socketVars, slot, eventCallback, closer, sent>>
  <2>1. closer' = closer /\ items' = items /\ currentItem' = currentItem
    BY <1>13 DEF queueVars
  <2>2. \A q \in Internal : stage'[q] # "idle" => stage[q] # "idle"
    BY <1>12, <1>13 DEF TypeOK
  <2> QED
    BY <1>9, <2>1, <2>2
<1>14. CASE /\ Queue!Empty
            /\ stage' = [q \in Requests |-> IF q = r THEN "sent"
                         ELSE IF q \in Queue!Waiting THEN "dropped" ELSE stage[q]]
            /\ UNCHANGED <<link, closer>>
  <2>1. closer' = closer /\ items' = <<>> /\ currentItem' = currentItem
    BY <1>14 DEF Queue!Empty
  <2>2. \A q \in Internal : stage'[q] # "idle" => stage[q] # "idle"
    BY <1>11, <1>12, <1>14
  <2> QED
    BY <1>9, <2>1, <2>2
<1> QED
  BY <1>10, <1>13, <1>14 DEF CallClose

LEMMA RunItemKeepsPlaces ==
    ASSUME TypeOK, PlacesInv, RunItem
    PROVE  TypeOK' /\ PlacesInv'
<1>1. /\ Queue!RunImmediate
      /\ UNCHANGED <<items, currentItem, autoCommit, closer, called, cut, faults>>
  BY DEF RunItem, Queue!RunImmediate
<1>2. Queue!TypeOK'
  BY <1>1, QueueStepKeepsType DEF TypeOK, QueueStep
<1>3. CASE /\ currentItem = NoRequest
           /\ UNCHANGED <<socketVars, connector, slot, eventCallback, stage, micro, sent>>
  <2>1. UNCHANGED <<link, wire, listening, connector, slot, eventCallback, stage, micro, sent>>
    BY <1>3 DEF socketVars
  <2>2. TypeOK'
    BY <1>1, <1>2, <2>1 DEF TypeOK
  <2>3. PlacesInv'
    BY <1>1, <2>1 DEF PlacesInv, CloserOK, TasksOK
  <2> QED
    BY <2>2, <2>3
<1>4. ASSUME currentItem \in Queued, Moves(currentItem),
             link' = link,
             \/ connector' = connector
             \/ connector' = currentItem /\ link # "open"
      PROVE  TypeOK' /\ PlacesInv'
  <2>1. currentItem \in Requests /\ stage[currentItem] # "idle" /\ Kind[currentItem] # "close"
    BY <1>4, KindFacts, PlacesFacts
  <2>2. TypeOK'
    BY <1>1, <1>2, <1>4, <2>1, MovesKeepsType DEF TypeOK
  <2>3. connector' # NoRequest => /\ link' # "open" /\ Kind[connector'] # "close"
                                  /\ connector' = connector \/ connector' = currentItem
    BY <1>4, <2>1 DEF PlacesInv
  <2>4. PlacesInv'
    BY <1>1, <1>4, <2>1, <2>2, <2>3, PlacesFacts, MovesKeepsPlaces
  <2> QED
    BY <2>2, <2>4
<1>5. currentItem # NoRequest => currentItem \in Queued /\ currentItem \in Requests
  BY KindFacts DEF TypeOK, Queue!TypeOK
<1>6. CASE currentItem # NoRequest /\ Connect(currentItem)
  BY <1>4, <1>5, <1>6, ConnectMoves, PlacesFacts
<1>7. CASE /\ currentItem # NoRequest
           /\ Kind[currentItem] \in {"commit", "rollback"}
           /\ EndTransaction(currentItem)
           /\ UNCHANGED <<link, connector>>
  <2>1. currentItem \notin Internal
    BY <1>7, PipelineAssumption
  <2> QED
    BY <1>4, <1>5, <1>7, <2>1, EndTransactionMoves, PlacesFacts
<1> QED
  BY <1>3, <1>6, <1>7 DEF RunItem

LEMMA MicrotaskKeepsPlaces ==
    ASSUME TypeOK, PlacesInv, Microtask
    PROVE  TypeOK' /\ PlacesInv'
<1>1. /\ micro # <<>> /\ micro' = Tail(micro)
      /\ UNCHANGED <<link, connector, autoCommit, closer, called, cut, faults>>
  BY DEF Microtask
<1> DEFINE task == Head(micro)
<1>2. TasksOK(micro') /\ task.of \in Requests
      /\ IF task.do = "done" THEN task.of \in Queued ELSE Kind[task.of] = "close"
  <2>1. micro \in Seq(Tasks)
        /\ \A k \in 1..Len(micro) :
             IF micro[k].do = "done" THEN micro[k].of \in Queued ELSE Kind[micro[k].of] = "close"
    BY PlacesFacts DEF TasksOK, Tasks
  <2>2. micro' \in Seq(Tasks) /\ Len(micro) \in Nat /\ Len(micro') = Len(micro) - 1
        /\ \A k \in 1..Len(micro') : micro'[k] = micro[k + 1]
    BY <1>1, <2>1, HeadTailProperties
  <2>3. 1 \in 1..Len(micro) /\ task = micro[1] /\ task \in Tasks
    BY <1>1, <2>1
  <2>4. \A k \in 1..Len(micro') : k + 1 \in 1..Len(micro)
    BY <2>2
  <2> QED
    BY <2>1, <2>2, <2>3, <2>4 DEF TasksOK, Tasks
<1>3. CASE /\ task.do = "done"
           /\ Queue!Done(task.of)
           /\ UNCHANGED <<wire, listening, slot, eventCallback, stage, sent>>
  <2>1. Queue!TypeOK'
    BY <1>2, <1>3, QueueStepKeepsType DEF TypeOK, QueueStep
  <2>2. TypeOK'
    BY <1>1, <1>2, <1>3, <2>1 DEF TypeOK, TasksOK
  <2>3. items \in Seq(Queued) /\ Queue!Process(items, NoRequest)
    BY <1>3 DEF Queue!Done, TypeOK, Queue!TypeOK
  <2>4. /\ currentItem' = NoRequest \/ \E j \in 1..Len(items) : currentItem' = items[j]
        /\ \A i \in 1..Len(items') : \E j \in 1..Len(items) : items'[i] = items[j]
    BY <2>3, ProcessTakes DEF TypeOK
  <2>5. \A r \in Requests : r \in {currentItem', connector', slot', eventCallback'} => stage'[r] # "idle"
    BY <1>1, <1>3, <2>4, KindFacts DEF PlacesInv
  <2>6. \A i \in 1..Len(items') : stage'[items'[i]] # "idle"
    BY <1>3, <2>4 DEF PlacesInv
  <2> QED
    BY <1>1, <1>2, <1>3, <2>2, <2>5, <2>6 DEF PlacesInv, CloserOK
<1>4. ASSUME task.do # "done", Moves(task.of), UNCHANGED queueVars
      PROVE  TypeOK' /\ PlacesInv'
  <2>1. items' = items /\ currentItem' = currentItem /\ Queue!TypeOK'
    BY <1>4, QueueStepKeepsType DEF TypeOK, QueueStep, queueVars
  <2>2. TypeOK'
    BY <1>1, <1>2, <1>4, <2>1, MovesKeepsType DEF TypeOK
  <2>3. task.of \notin Internal
    BY <1>2, <1>4, PipelineAssumption
  <2>4. PlacesInv'
    BY <1>1, <1>2, <1>4, <2>1, <2>2, <2>3, PlacesFacts, MovesKeepsPlaces DEF PlacesInv
  <2> QED
    BY <2>2, <2>4
<1>5. CASE /\ task.do = "closeDatabase"
           /\ Send(task.of, wire, link = "open")
           /\ UNCHANGED queueVars
  <2>1. wire \in Seq(Requests)
    BY DEF TypeOK
  <2>2. PICK live \in BOOLEAN : Send(task.of, wire, live)
    BY <1>5
  <2>3. Moves(task.of)
    BY <1>2, <2>1, <2>2, SendMoves
  <2> QED
    BY <1>4, <1>5, <2>3
<1>6. CASE /\ task.do = "rejectClose"
           /\ stage' = [stage EXCEPT ![task.of] = "error"]
           /\ UNCHANGED <<queueVars, wire, listening, slot, eventCallback, sent>>
  <2>1. UNCHANGED queueVars
    BY <1>6
  <2>2. Moves(task.of)
    BY <1>2, <1>6 DEF Moves, TypeOK, Stages
  <2> QED
    BY <1>4, <1>6, <2>1, <2>2
<1> QED
  BY <1>3, <1>5, <1>6 DEF Microtask

LEMMA ConnectDoneKeepsPlaces ==
    ASSUME TypeOK, PlacesInv, ConnectDone
    PROVE  TypeOK' /\ PlacesInv'
<1>1. /\ connector # NoRequest /\ link' = "open" /\ autoCommit' = TRUE /\ connector' = NoRequest
      /\ UNCHANGED <<closer, called, cut, faults>> /\ UNCHANGED queueVars
  BY DEF ConnectDone
<1>2. connector \in Requests /\ stage[connector] # "idle"
  BY <1>1 DEF TypeOK, PlacesInv
<1>3. Moves(connector)
  <2>1. <<>> \in Seq(Requests) /\ Proceed(connector, <<>>, "login")
    BY DEF ConnectDone
  <2> QED
    BY <1>2, <2>1, PlacesFacts, ProceedMoves
<1>4. items' = items /\ currentItem' = currentItem /\ Queue!TypeOK'
  BY <1>1, QueueStepKeepsType DEF TypeOK, QueueStep, queueVars
<1>5. TypeOK'
  BY <1>1, <1>2, <1>3, <1>4, MovesKeepsType DEF TypeOK
<1>6. PlacesInv'
  BY <1>1, <1>2, <1>3, <1>4, <1>5, PlacesFacts, MovesKeepsPlaces
<1> QED
  BY <1>5, <1>6

LEMMA ConnectFailedKeepsPlaces ==
    ASSUME TypeOK, PlacesInv, ConnectFailed
    PROVE  TypeOK' /\ PlacesInv'
<1>1. /\ connector # NoRequest /\ link' = "closed" /\ connector' = NoRequest
      /\ Settle(connector, "error")
      /\ UNCHANGED <<wire, listening, autoCommit, slot, eventCallback, closer, called, sent,
                     cut, faults>> /\ UNCHANGED queueVars
  BY DEF ConnectFailed
<1>2. connector \in Requests /\ stage[connector] # "idle"
  BY <1>1 DEF TypeOK, PlacesInv
<1>3. Moves(connector)
  <2>1. /\ stage' \in [Requests -> Stages]
        /\ \A q \in Requests : q # connector => stage'[q] = stage[q]
        /\ stage'[connector] \in {"ok", "error"}
        /\ TasksOK(micro')
    BY <1>1, <1>2, PlacesFacts, SettleMoves
  <2> QED
    BY <1>1, <2>1 DEF Moves, TypeOK
<1>4. items' = items /\ currentItem' = currentItem /\ Queue!TypeOK'
  BY <1>1, QueueStepKeepsType DEF TypeOK, QueueStep, queueVars
<1>5. TypeOK'
  BY <1>1, <1>2, <1>3, <1>4, MovesKeepsType DEF TypeOK
<1>6. PlacesInv'
  BY <1>1, <1>2, <1>3, <1>4, <1>5, PlacesFacts, MovesKeepsPlaces
<1> QED
  BY <1>5, <1>6

LEMMA LoginTakenKeepsPlaces ==
    ASSUME TypeOK, PlacesInv, LoginTaken
    PROVE  TypeOK' /\ PlacesInv'
<1>1. /\ eventCallback \in Requests /\ stage[eventCallback] = "sent" /\ link' = "taken"
      /\ UNCHANGED <<connector, autoCommit, wire, listening, slot, eventCallback, closer, called,
                     sent, cut, faults>> /\ UNCHANGED queueVars
  BY DEF LoginTaken
<1>2. PICK outcome \in {"ok", "error"} : Settle(eventCallback, outcome)
  BY DEF LoginTaken
<1>3. Moves(eventCallback)
  <2>1. /\ stage' \in [Requests -> Stages]
        /\ \A q \in Requests : q # eventCallback => stage'[q] = stage[q]
        /\ stage'[eventCallback] \in {"ok", "error"}
        /\ TasksOK(micro')
    BY <1>1, <1>2, PlacesFacts, SettleMoves
  <2> QED
    BY <1>1, <2>1 DEF Moves, TypeOK
<1>4. items' = items /\ currentItem' = currentItem /\ Queue!TypeOK'
  BY <1>1, QueueStepKeepsType DEF TypeOK, QueueStep, queueVars
<1>5. TypeOK'
  BY <1>1, <1>3, <1>4, MovesKeepsType DEF TypeOK
<1>6. connector' # NoRequest => /\ link' # "open" /\ Kind[connector'] # "close"
                                /\ connector' = connector \/ connector' = eventCallback
  BY <1>1 DEF PlacesInv
<1>7. PlacesInv'
  BY <1>1, <1>3, <1>4, <1>5, <1>6, PlacesFacts, MovesKeepsPlaces
<1> QED
  BY <1>5, <1>7

LEMMA RespondKeepsPlaces ==
    ASSUME TypeOK, PlacesInv, Respond
    PROVE  TypeOK' /\ PlacesInv'
<1>1. /\ link = "open" /\ wire # <<>>
      /\ UNCHANGED <<connector, autoCommit, slot, eventCallback, closer, called, sent,
                     cut, faults>>
      /\ UNCHANGED queueVars
  BY DEF Respond
<1>2. items' = items /\ currentItem' = currentItem /\ Queue!TypeOK'
  BY <1>1, QueueStepKeepsType DEF TypeOK, QueueStep, queueVars
<1>3. /\ wire \in Seq(Requests) /\ Tail(wire) \in Seq(Requests) /\ Head(wire) \in Requests
      /\ <<>> \in Seq(Requests)
  BY <1>1 DEF TypeOK
<1>4. connector = NoRequest
  BY <1>1, PlacesFacts
<1>5. CASE wire' = Tail(wire) /\ UNCHANGED <<link, listening, stage, micro>>
  <2>1. TypeOK'
    BY <1>1, <1>2, <1>3, <1>5 DEF TypeOK
  <2>2. PlacesInv'
    BY <1>1, <1>2, <1>5 DEF PlacesInv, CloserOK, TasksOK
  <2> QED
    BY <2>1, <2>2
<1>6. ASSUME listening, listening' = FALSE,
             NEW outcome \in {"ok", "error"}, Settle(slot, outcome),
             link' \in {"open", "closed"}, wire' \in {Tail(wire), <<>>}
      PROVE  TypeOK' /\ PlacesInv'
  <2>1. slot \in Requests /\ stage[slot] # "idle"
    BY <1>6 DEF PlacesInv
  <2>2. Moves(slot)
    <3>1. /\ stage' \in [Requests -> Stages]
          /\ \A q \in Requests : q # slot => stage'[q] = stage[q]
          /\ stage'[slot] \in {"ok", "error"}
          /\ TasksOK(micro')
      BY <1>6, <2>1, PlacesFacts, SettleMoves
    <3> QED
      BY <1>1, <1>3, <1>6, <3>1 DEF Moves
  <2>4. TypeOK'
    BY <1>1, <1>2, <1>6, <2>1, <2>2, MovesKeepsType DEF TypeOK
  <2>5. PlacesInv'
    BY <1>1, <1>2, <1>4, <2>1, <2>2, <2>4, PlacesFacts, MovesKeepsPlaces
  <2> QED
    BY <2>4, <2>5
<1>7. CASE /\ listening
           /\ listening' = FALSE
           /\ \E outcome \in Outcomes(slot, Head(wire)) : Settle(slot, outcome)
           /\ IF Kind[slot] = "close"
              THEN link' = "closed" /\ wire' = <<>>
              ELSE wire' = Tail(wire) /\ UNCHANGED link
  <2>1. PICK outcome \in {"ok", "error"} : Settle(slot, outcome)
    BY <1>7 DEF Outcomes
  <2>2. link' \in {"open", "closed"} /\ wire' \in {Tail(wire), <<>>}
    BY <1>1, <1>7
  <2> QED
    BY <1>6, <1>7, <2>1, <2>2
<1> QED
  BY <1>5, <1>7 DEF Respond

LEMMA SocketDiesFacts ==
    ASSUME TypeOK, PlacesInv, SocketDies
    PROVE  /\ UNCHANGED <<connector, autoCommit, slot, closer, called, sent>>
           /\ items' = items /\ currentItem' = currentItem /\ Queue!TypeOK'
           /\ link' = "closed" /\ wire' = <<>> /\ listening' = FALSE
           /\ faults' \in 0..MaxFaults
           /\ connector = NoRequest
<1>1. UNCHANGED queueVars /\ link = "open" /\ faults < MaxFaults /\ faults' = faults + 1
  BY DEF SocketDies
<1>2. items' = items /\ currentItem' = currentItem /\ Queue!TypeOK'
  BY <1>1, QueueStepKeepsType DEF TypeOK, QueueStep, queueVars
<1>3. faults' \in 0..MaxFaults
  BY <1>1, PipelineAssumption DEF TypeOK
<1> QED
  BY <1>1, <1>2, <1>3, PlacesFacts DEF SocketDies

LEMMA SocketSettleKeepsPlaces ==
    ASSUME TypeOK, PlacesInv, SocketDies, NEW r \in Requests, NEW outcome \in {"ok", "error"},
           stage[r] # "idle", Settle(r, outcome),
           eventCallback' \in {eventCallback, NoRequest}, cut' \subseteq Requests
    PROVE  TypeOK' /\ PlacesInv'
<1>1. Moves(r)
  <2>1. /\ stage' \in [Requests -> Stages]
        /\ \A q \in Requests : q # r => stage'[q] = stage[q]
        /\ stage'[r] \in {"ok", "error"}
        /\ TasksOK(micro')
    BY PlacesFacts, SettleMoves
  <2>2. <<>> \in Seq(Requests)
    OBVIOUS
  <2> QED
    BY <2>1, <2>2, SocketDiesFacts DEF Moves
<1>2. TypeOK'
  BY <1>1, SocketDiesFacts, MovesKeepsType DEF TypeOK
<1>3. PlacesInv'
  BY <1>1, <1>2, SocketDiesFacts, PlacesFacts, MovesKeepsPlaces
<1> QED
  BY <1>2, <1>3

LEMMA SocketFaultKeepsPlaces ==
    ASSUME TypeOK, PlacesInv, SocketError \/ SocketEnd
    PROVE  TypeOK' /\ PlacesInv'
<1>1. SocketDies
  BY DEF SocketError, SocketEnd
<1>2. ASSUME UNCHANGED <<stage, micro>>, eventCallback' \in {eventCallback, NoRequest}, cut' \subseteq Requests
      PROVE  TypeOK' /\ PlacesInv'
  <2>1. <<>> \in Seq(Requests)
    OBVIOUS
  <2>2. TypeOK'
    BY <1>1, <1>2, <2>1, SocketDiesFacts DEF TypeOK
  <2>3. PlacesInv'
    BY <1>1, <1>2, SocketDiesFacts, KindFacts DEF PlacesInv, CloserOK, TasksOK
  <2> QED
    BY <2>2, <2>3
<1>3. CASE SocketError
  <2>1. eventCallback' = NoRequest /\ cut' \subseteq Requests
    BY <1>3 DEF SocketError, TypeOK
  <2>2. ASSUME eventCallback \in Requests, NEW outcome \in {"ok", "error"},
               Settle(eventCallback, outcome)
        PROVE  TypeOK' /\ PlacesInv'
    <3>1. stage[eventCallback] # "idle"
      BY <2>2 DEF PlacesInv
    <3> QED
      BY <1>1, <2>1, <2>2, <3>1, SocketSettleKeepsPlaces
  <2>3. \/ UNCHANGED <<stage, micro>>
        \/ eventCallback \in Requests /\ \E outcome \in {"ok", "error"} : Settle(eventCallback, outcome)
    BY <1>3 DEF SocketError
  <2> QED
    BY <1>2, <2>1, <2>2, <2>3
<1>4. CASE SocketEnd
  <2>1. eventCallback' = eventCallback /\ cut' \subseteq Requests
    BY <1>4 DEF SocketEnd, TypeOK
  <2>2. \/ UNCHANGED <<stage, micro>>
        \/ \E r \in Requests : stage[r] = "sent" /\ Settle(r, "ok")
    BY <1>4 DEF SocketEnd
  <2> QED
    BY <1>1, <1>2, <2>1, <2>2, SocketSettleKeepsPlaces
<1> QED
  BY <1>3, <1>4

LEMMA StepKeepsPlaces == TypeOK /\ PlacesInv /\ [Next]_vars => TypeOK' /\ PlacesInv'
<1> SUFFICES ASSUME TypeOK, PlacesInv, [Next]_vars PROVE TypeOK' /\ PlacesInv'
  OBVIOUS
<1>1. ASSUME NEW r \in Requests, CallClose(r) PROVE TypeOK' /\ PlacesInv'
  BY <1>1, CallCloseKeepsType, CallCloseKeepsPlaces
<1>2. ASSUME NEW mode \in BOOLEAN, SetAutoCommitMode(mode) PROVE TypeOK' /\ PlacesInv'
  <2>1. /\ UNCHANGED <<link, wire, listening, connector, slot, eventCallback, stage, closer, micro,
                       called, sent, cut, faults>>
        /\ UNCHANGED queueVars /\ autoCommit' = mode
    BY <1>2 DEF SetAutoCommitMode, socketVars, callVars
  <2>2. items' = items /\ currentItem' = currentItem /\ Queue!TypeOK'
    BY <2>1, QueueStepKeepsType DEF TypeOK, QueueStep, queueVars
  <2>3. TypeOK'
    BY <2>1, <2>2 DEF TypeOK
  <2>4. PlacesInv'
    BY <2>1, <2>2 DEF PlacesInv, CloserOK, TasksOK
  <2> QED
    BY <2>3, <2>4
<1>3. CASE UNCHANGED vars
  <2>1. UNCHANGED <<items, currentItem, immediates, runs, dones, accepted, dropped, node>>
    BY <1>3 DEF vars, queueVars
  <2>2. UNCHANGED <<link, wire, listening, connector, autoCommit, slot, eventCallback, stage, closer,
                    micro, called, sent, cut, faults>>
    BY <1>3 DEF vars, socketVars, callVars
  <2>3. Queue!TypeOK'
    BY <2>1 DEF TypeOK, Queue!TypeOK
  <2>4. TypeOK'
    BY <2>2, <2>3 DEF TypeOK
  <2>5. PlacesInv'
    BY <2>1, <2>2 DEF PlacesInv, CloserOK, TasksOK
  <2> QED
    BY <2>4, <2>5
<1> QED
  BY <1>1, <1>2, <1>3, CallQueuedKeepsPlaces, CallVersionKeepsPlaces, RunItemKeepsPlaces,
     MicrotaskKeepsPlaces, ConnectDoneKeepsPlaces, ConnectFailedKeepsPlaces, LoginTakenKeepsPlaces,
     RespondKeepsPlaces, SocketFaultKeepsPlaces
  DEF Next

LEMMA InitPlaces == Init => TypeOK /\ PlacesInv
<1> SUFFICES ASSUME Init PROVE TypeOK /\ PlacesInv
  OBVIOUS
<1>1. Queue!TypeOK /\ items = <<>> /\ currentItem = NoRequest
  BY DEF Init, Queue!Init, Queue!TypeOK
<1>2. TypeOK
  <2>1. <<>> \in Seq(Requests) /\ micro \in Seq(Tasks) /\ 0 \in 0..MaxFaults
    BY PipelineAssumption DEF Init
  <2> QED
    BY <1>1, <2>1 DEF Init, TypeOK, Tasks
<1>3. PlacesInv
  <2>1. TasksOK(micro)
    BY DEF Init, TasksOK
  <2>2. CloserOK
    BY KindFacts, QueueAssumptions DEF Init, CloserOK
  <2> QED
    BY <1>1, <2>1, <2>2, KindFacts DEF Init, PlacesInv
<1> QED
  BY <1>2, <1>3

LEMMA PlacesHold == Spec => [](TypeOK /\ PlacesInv)
  BY InitPlaces, StepKeepsPlaces, PTL DEF Spec

\* The variables keep their types: above all, every answer goes to a request,
\* because somebody owns the slot whenever the socket listens.
THEOREM TypeCorrect == Spec => []TypeOK
  BY PlacesHold, PTL

-----------------------------------------------------------------------------
(* The order of the pushed requests: what each move in the chain of places   *)
(* called - line - claim - connect() - socket does to it.                    *)

LEMMA BeforeGrows ==
    ASSUME NEW calls \in Seq(Requests), NEW r \in Requests
    PROVE  /\ \A x, y : Before(calls, x, y) => Before(Append(calls, r), x, y)
           /\ \A i \in 1..Len(calls) : Before(Append(calls, r), calls[i], r)
<1> DEFINE more == Append(calls, r)
<1>1. /\ Len(calls) \in Nat /\ Len(more) = Len(calls) + 1 /\ more[Len(calls) + 1] = r
      /\ \A i \in 1..Len(calls) : more[i] = calls[i]
  OBVIOUS
<1>2. /\ \A i \in 1..Len(calls) : i \in 1..Len(more) /\ i < Len(calls) + 1
      /\ Len(calls) + 1 \in 1..Len(more)
  BY <1>1
<1> HIDE DEF more
<1>3. ASSUME NEW x, NEW y, Before(calls, x, y) PROVE Before(more, x, y)
  <2>1. PICK i \in 1..Len(calls), j \in 1..Len(calls) : i < j /\ calls[i] = x /\ calls[j] = y
    BY <1>3 DEF Before
  <2>2. more[i] = x /\ more[j] = y /\ i \in 1..Len(more) /\ j \in 1..Len(more)
    BY <1>1, <1>2, <2>1
  <2> QED
    BY <2>1, <2>2 DEF Before
<1>4. ASSUME NEW i \in 1..Len(calls) PROVE Before(more, calls[i], r)
  BY <1>1, <1>2 DEF Before
<1> QED
  BY <1>3, <1>4 DEF more

LEMMA CallKeepsOrder ==
    ASSUME NEW calls \in Seq(Requests), NEW r \in Requests,
           NEW line, NEW current, NEW waiter, NEW sends,
           InOrder(calls, line, current, waiter, sends)
    PROVE  InOrder(Append(calls, r), line, current, waiter, sends)
<1> DEFINE more == Append(calls, r)
<1>1. \A x, y : Before(calls, x, y) => Before(more, x, y)
  BY BeforeGrows
<1> HIDE DEF more
<1>2. InOrder(more, line, current, waiter, sends)
  BY <1>1 DEF InOrder
<1> QED
  BY <1>2 DEF more

LEMMA ReleaseKeepsOrder ==
    ASSUME NEW calls, NEW line, NEW current, NEW waiter, NEW sends,
           InOrder(calls, line, current, waiter, sends)
    PROVE  InOrder(calls, line, NoRequest, waiter, sends)
<1>1. NoRequest \notin Pushed
  BY QueueAssumptions DEF Pushed
<1> QED
  BY <1>1 DEF InOrder

LEMMA ClaimKeepsOrder ==
    ASSUME NEW calls, NEW line \in Seq(Queued), line # <<>>,
           NEW rest \in Seq(Queued), Len(rest) = Len(line) - 1,
           \A i \in 1..Len(rest) : rest[i] = line[i + 1],
           NEW waiter, NEW sends,
           InOrder(calls, line, NoRequest, waiter, sends)
    PROVE  InOrder(calls, rest, line[1], waiter, sends)
<1>1. /\ Len(line) \in Nat /\ 1 \in 1..Len(line)
      /\ \A i \in 1..Len(rest) : i + 1 \in 1..Len(line) /\ 1 < i + 1
      /\ \A i, j \in 1..Len(rest) : i < j => i + 1 < j + 1
  OBVIOUS
<1>2. \A i, j \in 1..Len(rest) :
         i < j /\ rest[i] \in Pushed /\ rest[j] \in Pushed => Before(calls, rest[i], rest[j])
  BY <1>1 DEF InOrder
<1>3. ASSUME NEW r \in Pushed, NEW j \in 1..Len(rest), rest[j] \in Pushed,
             r = line[1] \/ r = waiter \/ \E i \in 1..Len(sends) : sends[i] = r
      PROVE  Before(calls, r, rest[j])
  <2>1. rest[j] = line[j + 1] /\ j + 1 \in 1..Len(line) /\ 1 < j + 1
    BY <1>1
  <2>2. CASE r = line[1]
    BY <1>1, <1>3, <2>1, <2>2 DEF InOrder
  <2>3. CASE r = waiter \/ \E i \in 1..Len(sends) : sends[i] = r
    BY <1>3, <2>1, <2>3 DEF InOrder
  <2> QED
    BY <1>3, <2>2, <2>3
<1>4. waiter \in Pushed /\ line[1] \in Pushed => Before(calls, waiter, line[1])
  BY <1>1 DEF InOrder
<1>5. ASSUME NEW i \in 1..Len(sends), NEW r \in Pushed, sends[i] \in Pushed,
             r = line[1] \/ r = waiter
      PROVE  sends[i] = r \/ Before(calls, sends[i], r)
  BY <1>1, <1>5 DEF InOrder
<1>6. \A i, j \in 1..Len(sends) :
          i < j /\ sends[i] \in Pushed /\ sends[j] \in Pushed =>
             sends[i] = sends[j] \/ Before(calls, sends[i], sends[j])
  BY DEF InOrder
<1> QED
  BY <1>2, <1>3, <1>4, <1>5, <1>6 DEF InOrder

LEMMA ProcessKeepsOrder ==
    ASSUME Queue!TypeOK, NEW calls, NEW line \in Seq(Queued),
           NEW current \in Queued \cup {NoRequest}, NEW waiter, NEW sends,
           InOrder(calls, line, current, waiter, sends),
           Queue!Process(line, current)
    PROVE  InOrder(calls, items', currentItem', waiter, sends)
<1>1. immediates \in Nat
  BY DEF Queue!TypeOK
<1>2. CASE /\ current = NoRequest
           /\ line # <<>>
           /\ currentItem' = line[1]
           /\ items' \in Seq(Queued)
           /\ Len(items') = Len(line) - 1
           /\ \A i \in 1..Len(items') : items'[i] = line[i + 1]
  <2>1. PICK rest \in Seq(Queued) : rest = items'
    BY <1>2
  <2>2. InOrder(calls, rest, line[1], waiter, sends)
    BY <1>2, <2>1, ClaimKeepsOrder
  <2> QED
    BY <1>2, <2>1, <2>2
<1>3. CASE items' = line /\ currentItem' = current
  BY <1>3
<1> QED
  BY <1>1, <1>2, <1>3, ProcessEffect

LEMMA ConnectKeepsOrder ==
    ASSUME NEW calls, NEW line, NEW current, NEW waiter, NEW sends,
           InOrder(calls, line, current, waiter, sends),
           NEW next, next = waiter \/ next = current \/ next \notin Pushed
    PROVE  InOrder(calls, line, current, next, sends)
<1>1. CASE next = waiter
  BY <1>1
<1>2. CASE next = current \/ next \notin Pushed
  BY <1>2 DEF InOrder
<1> QED
  BY <1>1, <1>2

LEMMA SendKeepsOrder ==
    ASSUME NEW calls, NEW line, NEW current, NEW waiter, NEW sends \in Seq(Requests),
           InOrder(calls, line, current, waiter, sends),
           NEW r \in Requests, r \in Pushed => r = waiter \/ (r = current /\ waiter \notin Pushed)
    PROVE  InOrder(calls, line, current, waiter, Append(sends, r))
<1> DEFINE more == Append(sends, r)
<1>1. /\ \A i \in 1..Len(more) : \/ i \in 1..Len(sends) /\ more[i] = sends[i]
                                 \/ i = Len(sends) + 1 /\ more[i] = r
      /\ Len(sends) \in Nat
  OBVIOUS
<1> HIDE DEF more
<1>2. \A i, j \in 1..Len(line) :
          i < j /\ line[i] \in Pushed /\ line[j] \in Pushed => Before(calls, line[i], line[j])
  BY DEF InOrder
<1>3. ASSUME NEW q \in Pushed, NEW j \in 1..Len(line), line[j] \in Pushed,
             q = current \/ q = waiter \/ \E i \in 1..Len(more) : more[i] = q
      PROVE  Before(calls, q, line[j])
  <2>1. q = current \/ q = waiter \/ \E i \in 1..Len(sends) : sends[i] = q
    BY <1>1, <1>3
  <2> QED
    BY <1>3, <2>1 DEF InOrder
<1>4. waiter \in Pushed /\ current \in Pushed => waiter = current \/ Before(calls, waiter, current)
  BY DEF InOrder
<1>5. ASSUME NEW i \in 1..Len(more), NEW q \in Pushed, more[i] \in Pushed,
             q = current \/ q = waiter
      PROVE  more[i] = q \/ Before(calls, more[i], q)
  <2>1. CASE i \in 1..Len(sends) /\ more[i] = sends[i]
    BY <1>5, <2>1 DEF InOrder
  <2>2. CASE more[i] = r
    BY <1>5, <2>2 DEF InOrder
  <2> QED
    BY <1>1, <2>1, <2>2
<1>6. ASSUME NEW i \in 1..Len(more), NEW j \in 1..Len(more), i < j,
             more[i] \in Pushed, more[j] \in Pushed
      PROVE  more[i] = more[j] \/ Before(calls, more[i], more[j])
  <2>1. i \in 1..Len(sends) /\ more[i] = sends[i]
    BY <1>1, <1>6
  <2>2. CASE j \in 1..Len(sends) /\ more[j] = sends[j]
    BY <1>6, <2>1, <2>2 DEF InOrder
  <2>3. CASE more[j] = r
    BY <1>6, <2>1, <2>3 DEF InOrder
  <2> QED
    BY <1>1, <2>2, <2>3
<1>7. InOrder(calls, line, current, waiter, more)
  BY <1>2, <1>3, <1>4, <1>5, <1>6 DEF InOrder
<1> QED
  BY <1>7 DEF more

\* A pushed request is called after all others and enters the line behind them.
LEMMA PushKeepsOrder ==
    ASSUME NEW calls \in Seq(Requests), NEW r \in Requests,
           NEW line \in Seq(Queued), NEW longer \in Seq(Queued),
           Len(longer) = Len(line) + 1, longer[Len(line) + 1] = r,
           \A i \in 1..Len(line) : longer[i] = line[i],
           NEW current, NEW waiter, NEW sends,
           InOrder(calls, line, current, waiter, sends),
           \A q \in Pushed :
              \/ q = current \/ q = waiter
              \/ \E i \in 1..Len(line) : line[i] = q
              \/ \E i \in 1..Len(sends) : sends[i] = q
              => \E i \in 1..Len(calls) : calls[i] = q
    PROVE  InOrder(Append(calls, r), longer, current, waiter, sends)
<1> DEFINE more == Append(calls, r)
<1>1. InOrder(more, line, current, waiter, sends)
  BY CallKeepsOrder
<1>2. \A i \in 1..Len(calls) : Before(more, calls[i], r)
  BY BeforeGrows
<1> HIDE DEF more
<1>3. Len(line) \in Nat
      /\ \A i \in 1..Len(longer) : i = Len(line) + 1 \/ i \in 1..Len(line)
  OBVIOUS
<1>4. ASSUME NEW i \in 1..Len(longer), NEW j \in 1..Len(longer), i < j,
             longer[i] \in Pushed, longer[j] \in Pushed
      PROVE  Before(more, longer[i], longer[j])
  <2>1. i \in 1..Len(line) /\ longer[i] = line[i]
    BY <1>3, <1>4
  <2>2. CASE j \in 1..Len(line)
    BY <1>1, <1>4, <2>1, <2>2 DEF InOrder
  <2>3. CASE j = Len(line) + 1
    BY <1>2, <1>4, <2>1, <2>3
  <2> QED
    BY <1>3, <2>2, <2>3
<1>5. ASSUME NEW q \in Pushed, NEW j \in 1..Len(longer), longer[j] \in Pushed,
             q = current \/ q = waiter \/ \E i \in 1..Len(sends) : sends[i] = q
      PROVE  Before(more, q, longer[j])
  <2>1. CASE j \in 1..Len(line)
    BY <1>1, <1>5, <2>1 DEF InOrder
  <2>2. CASE j = Len(line) + 1
    BY <1>2, <1>5, <2>2
  <2> QED
    BY <1>3, <2>1, <2>2
<1>6. InOrder(more, longer, current, waiter, sends)
  BY <1>1, <1>4, <1>5 DEF InOrder
<1> QED
  BY <1>6 DEF more

\* An urgent one enters at the front and is in nobody's way.
LEMMA UnshiftKeepsOrder ==
    ASSUME NEW calls \in Seq(Requests), NEW r \in Requests, r \notin Pushed,
           NEW line \in Seq(Queued), NEW longer \in Seq(Queued),
           Len(longer) = Len(line) + 1, longer[1] = r,
           \A i \in 1..Len(line) : longer[i + 1] = line[i],
           NEW current, NEW waiter, NEW sends,
           InOrder(calls, line, current, waiter, sends)
    PROVE  InOrder(Append(calls, r), longer, current, waiter, sends)
<1> DEFINE more == Append(calls, r)
<1>1. InOrder(more, line, current, waiter, sends)
  BY CallKeepsOrder
<1> HIDE DEF more
<1>2. \A i \in 1..Len(longer) : longer[i] \in Pushed =>
          i - 1 \in 1..Len(line) /\ longer[i] = line[i - 1]
  <2>1. \A i \in 1..Len(longer) : i # 1 => i - 1 \in 1..Len(line) /\ (i - 1) + 1 = i
    OBVIOUS
  <2> QED
    BY <2>1
<1>3. ASSUME NEW i \in 1..Len(longer), NEW j \in 1..Len(longer), i < j,
             longer[i] \in Pushed, longer[j] \in Pushed
      PROVE  Before(more, longer[i], longer[j])
  <2>1. i - 1 < j - 1
    BY <1>3
  <2> QED
    BY <1>1, <1>2, <1>3, <2>1 DEF InOrder
<1>4. ASSUME NEW q \in Pushed, NEW j \in 1..Len(longer), longer[j] \in Pushed,
             q = current \/ q = waiter \/ \E i \in 1..Len(sends) : sends[i] = q
      PROVE  Before(more, q, longer[j])
  BY <1>1, <1>2, <1>4 DEF InOrder
<1>5. InOrder(more, longer, current, waiter, sends)
  BY <1>1, <1>3, <1>4 DEF InOrder
<1> QED
  BY <1>5 DEF more

\* A line without pushed requests puts nobody out of order.
LEMMA ShortLineKeepsOrder ==
    ASSUME NEW calls, NEW line, NEW shorter, NEW current, NEW waiter, NEW sends,
           InOrder(calls, line, current, waiter, sends),
           \A i \in 1..Len(shorter) : shorter[i] \notin Pushed,
           NEW next, next = current \/ next \notin Pushed
    PROVE  InOrder(calls, shorter, next, waiter, sends)
  BY DEF InOrder

LEMMA CallsKept ==
    ASSUME CallsInv, called' = called,
           \A q \in Requests : stage[q] # "idle" => stage'[q] # "idle",
           \A q \in Pushed : stage'[q] # "idle" => stage[q] # "idle",
           TypeOK
    PROVE  CallsInv'
<1>1. \A i \in 1..Len(called) : called[i] \in Requests
  BY DEF TypeOK
<1> QED
  BY <1>1 DEF CallsInv

LEMMA CallsExtended ==
    ASSUME CallsInv, TypeOK, NEW r \in Requests, called' = Append(called, r),
           stage[r] = "idle", stage'[r] # "idle",
           \A q \in Requests : stage[q] # "idle" => stage'[q] # "idle",
           \A q \in Pushed : stage'[q] # "idle" => stage[q] # "idle" \/ q = r
    PROVE  CallsInv'
<1>1. /\ called \in Seq(Requests) /\ Len(called) \in Nat /\ Len(called') = Len(called) + 1
      /\ called'[Len(called) + 1] = r
      /\ \A i \in 1..Len(called) : called'[i] = called[i] /\ called[i] \in Requests
      /\ \A i \in 1..Len(called') : i = Len(called) + 1 \/ i \in 1..Len(called)
      /\ \A i \in 1..Len(called) : i \in 1..Len(called')
      /\ Len(called) + 1 \in 1..Len(called')
  BY DEF TypeOK
<1>2. \A i \in 1..Len(called) : called[i] # r
  BY DEF CallsInv
<1>3. \A i, j \in 1..Len(called') : called'[i] = called'[j] => i = j
  BY <1>1, <1>2 DEF CallsInv
<1>4. \A i \in 1..Len(called') : stage'[called'[i]] # "idle"
  BY <1>1 DEF CallsInv
<1>5. \A q \in Pushed : stage'[q] # "idle" => \E i \in 1..Len(called') : called'[i] = q
  BY <1>1 DEF CallsInv
<1> QED
  BY <1>3, <1>4, <1>5 DEF CallsInv

-----------------------------------------------------------------------------
(* The order, handler by handler.                                            *)

LEMMA OrderKept ==
    ASSUME TypeOK, OrderInv, NEW r \in Requests, stage[r] # "idle", Moves(r),
           called' = called, InOrder(called, items', currentItem', connector', sent')
    PROVE  OrderInv'
<1>1. Pushed \subseteq Requests
  BY KindFacts DEF Pushed
<1>2. /\ \A q \in Requests : stage[q] # "idle" => stage'[q] # "idle"
      /\ \A q \in Pushed : stage'[q] # "idle" => stage[q] # "idle"
  BY <1>1 DEF Moves
<1>3. CallsInv'
  BY <1>2, CallsKept DEF OrderInv
<1> QED
  BY <1>3 DEF OrderInv

LEMMA CallQueuedKeepsOrder ==
    ASSUME TypeOK, PlacesInv, OrderInv, NEW r \in Requests, CallQueued(r)
    PROVE  OrderInv'
<1>1. /\ r \in Queued /\ stage[r] = "idle" /\ called' = Append(called, r)
      /\ stage' = [stage EXCEPT ![r] = "called"]
      /\ connector' = connector /\ sent' = sent
      /\ Queue!TypeOK
  BY DEF CallQueued, TypeOK
<1>2. CallsInv'
  <2>1. Pushed \subseteq Requests
    BY KindFacts DEF Pushed
  <2>2. /\ stage'[r] # "idle"
        /\ \A q \in Requests : stage[q] # "idle" => stage'[q] # "idle"
        /\ \A q \in Pushed : stage'[q] # "idle" => stage[q] # "idle" \/ q = r
    BY <1>1, <2>1 DEF TypeOK
  <2> QED
    BY <1>1, <2>2, CallsExtended DEF OrderInv
<1>3. PICK line \in Seq(Queued) :
         /\ Queue!Process(line, currentItem)
         /\ Len(line) = Len(items) + 1
         /\ \/ /\ r \notin Urgent
               /\ line[Len(items) + 1] = r
               /\ \A i \in 1..Len(items) : line[i] = items[i]
            \/ /\ r \in Urgent
               /\ line[1] = r
               /\ \A i \in 1..Len(items) : line[i + 1] = items[i]
  BY <1>1, QueuedLine DEF CallQueued
<1>4. \A q \in Pushed :
         \/ q = currentItem \/ q = connector
         \/ \E i \in 1..Len(items) : items[i] = q
         \/ \E i \in 1..Len(sent) : sent[i] = q
         => \E i \in 1..Len(called) : called[i] = q
  <2>1. Pushed \subseteq Requests
    BY KindFacts DEF Pushed
  <2> QED
    BY <2>1 DEF PlacesInv, OrderInv, CallsInv
<1>5. /\ called \in Seq(Requests) /\ items \in Seq(Queued)
      /\ currentItem \in Queued \cup {NoRequest}
  BY DEF TypeOK, Queue!TypeOK
<1>6. InOrder(called', line, currentItem, connector, sent)
  <2>1. CASE /\ r \notin Urgent
             /\ line[Len(items) + 1] = r
             /\ \A i \in 1..Len(items) : line[i] = items[i]
    BY <1>1, <1>3, <1>4, <1>5, <2>1, PushKeepsOrder DEF OrderInv
  <2>2. CASE /\ r \in Urgent
             /\ line[1] = r
             /\ \A i \in 1..Len(items) : line[i + 1] = items[i]
    <3>1. r \notin Pushed
      BY <2>2 DEF Pushed
    <3> QED
      BY <1>1, <1>3, <1>5, <2>2, <3>1, UnshiftKeepsOrder DEF OrderInv
  <2> QED
    BY <1>3, <2>1, <2>2
<1>7. InOrder(called', items', currentItem', connector, sent)
  BY <1>1, <1>3, <1>5, <1>6, ProcessKeepsOrder
<1> QED
  BY <1>1, <1>2, <1>7 DEF OrderInv

LEMMA CallVersionKeepsOrder ==
    ASSUME TypeOK, PlacesInv, OrderInv, NEW r \in Requests, CallVersion(r)
    PROVE  OrderInv'
<1>1. r \notin Pushed /\ r \notin Internal /\ stage[r] = "idle" /\ called' = Append(called, r)
      /\ items' = items /\ currentItem' = currentItem
  BY KindFacts, QueueAssumptions DEF CallVersion, Pushed, queueVars
<1>2. /\ Moves(r)
      /\ connector' = connector \/ connector' = r
  BY <1>1, ConnectMoves, PlacesFacts DEF CallVersion
<1>3. CallsInv'
  <2>1. Pushed \subseteq Requests
    BY KindFacts DEF Pushed
  <2>2. /\ stage'[r] # "idle"
        /\ \A q \in Requests : stage[q] # "idle" => stage'[q] # "idle"
        /\ \A q \in Pushed : stage'[q] # "idle" => stage[q] # "idle" \/ q = r
    BY <1>2, <2>1 DEF Moves
  <2> QED
    BY <1>1, <2>2, CallsExtended DEF OrderInv
<1>4. called \in Seq(Requests) /\ sent \in Seq(Requests)
  BY DEF TypeOK
<1>5. InOrder(called', items, currentItem, connector, sent)
  BY <1>1, <1>4, CallKeepsOrder DEF OrderInv
<1>6. InOrder(called', items, currentItem, connector, sent')
  <2>1. sent' = sent \/ sent' = Append(sent, r)
    BY <1>2 DEF Moves
  <2> QED
    BY <1>1, <1>4, <1>5, <2>1, SendKeepsOrder
<1>7. InOrder(called', items, currentItem, connector', sent')
  BY <1>1, <1>2, <1>6, ConnectKeepsOrder
<1> QED
  BY <1>1, <1>3, <1>7 DEF OrderInv

LEMMA CallCloseKeepsOrder ==
    ASSUME TypeOK, PlacesInv, OrderInv, NEW r \in Requests, CallClose(r)
    PROVE  OrderInv'
<1>1. r \notin Pushed /\ stage[r] = "idle" /\ called' = Append(called, r) /\ connector' = connector
  BY KindFacts DEF CallClose, Pushed
<1>2. \A q \in Queue!Waiting : stage[q] # "idle"
  <2>1. \A j \in 1..Len(items) : stage[items[j]] # "idle"
    BY PlacesFacts
  <2> QED
    BY <2>1 DEF Queue!Waiting
<1>3. \A i \in Internal : i \notin Pushed
  BY KindFacts DEF Pushed
<1>4. Pushed \subseteq Requests
  BY KindFacts DEF Pushed
<1>5. /\ stage'[r] # "idle"
      /\ \A q \in Requests : stage[q] # "idle" => stage'[q] # "idle"
      /\ \A q \in Pushed : stage'[q] # "idle" => stage[q] # "idle" \/ q = r
  BY <1>2, <1>3, <1>4 DEF CallClose, TypeOK
<1>6. CallsInv'
  BY <1>1, <1>5, CallsExtended DEF OrderInv
<1>7. called \in Seq(Requests) /\ sent \in Seq(Requests)
  BY DEF TypeOK
<1>8. InOrder(called', items, currentItem, connector, sent)
  BY <1>1, <1>7, CallKeepsOrder DEF OrderInv
<1>9. InOrder(called', items, currentItem, connector, sent')
  <2>1. sent' = sent \/ sent' = Append(sent, r)
    BY DEF CallClose
  <2> QED
    BY <1>1, <1>7, <1>8, <2>1, SendKeepsOrder
<1>10. ASSUME NEW i \in Internal,
              accepted' = accepted \cup {i},
              dropped' = dropped \cup Queue!Waiting,
              Queue!Process(<<i>>, currentItem),
              UNCHANGED <<runs, dones, node>>
       PROVE  InOrder(called', items', currentItem', connector, sent')
  <2>1. (items' = <<>> \/ items' = <<i>>) /\ (currentItem' = currentItem \/ currentItem' = i)
    BY <1>10, OwnCloseQuery DEF TypeOK
  <2>2. \A j \in 1..Len(items') : items'[j] \notin Pushed
    BY <1>3, <2>1
  <2> QED
    BY <1>3, <1>9, <2>1, <2>2, ShortLineKeepsOrder
<1>11. ASSUME UNCHANGED queueVars
       PROVE  InOrder(called', items', currentItem', connector, sent')
  <2>1. items' = items /\ currentItem' = currentItem
    BY <1>11 DEF queueVars
  <2> QED
    BY <1>9, <2>1
<1>12. ASSUME Queue!Empty
       PROVE  InOrder(called', items', currentItem', connector, sent')
  <2>1. items' = <<>> /\ currentItem' = currentItem
    BY <1>12 DEF Queue!Empty
  <2>2. \A j \in 1..Len(items') : items'[j] \notin Pushed
    BY <2>1
  <2>3. InOrder(called', items', currentItem, connector, sent')
    BY <1>9, <2>2, ShortLineKeepsOrder
  <2> QED
    BY <2>1, <2>3
<1>13. InOrder(called', items', currentItem', connector, sent')
  BY <1>10, <1>11, <1>12 DEF CallClose
<1> QED
  BY <1>1, <1>6, <1>13 DEF OrderInv

LEMMA RunItemKeepsOrder ==
    ASSUME TypeOK, PlacesInv, OrderInv, RunItem
    PROVE  OrderInv'
<1>1. UNCHANGED <<items, currentItem, called>> /\ sent \in Seq(Requests)
  BY DEF RunItem, Queue!RunImmediate, TypeOK
<1>2. currentItem # NoRequest =>
         currentItem \in Queued /\ currentItem \in Requests /\ stage[currentItem] # "idle"
  BY KindFacts, PlacesFacts DEF TypeOK, Queue!TypeOK
<1>3. CASE UNCHANGED <<socketVars, connector, slot, eventCallback, stage, micro, sent>>
  BY <1>1, <1>3 DEF OrderInv, CallsInv
<1>4. CASE currentItem # NoRequest /\ Connect(currentItem)
  <2>1. /\ Moves(currentItem)
        /\ sent' = sent \/ (sent' = Append(sent, currentItem) /\ link = "open")
        /\ connector' = connector \/ connector' = currentItem
    BY <1>2, <1>4, ConnectMoves, PlacesFacts
  <2>2. InOrder(called, items, currentItem, connector, sent')
    <3>1. link = "open" => connector \notin Pushed
      BY PlacesFacts, QueueAssumptions DEF Pushed
    <3>2. ASSUME link = "open" PROVE InOrder(called, items, currentItem, connector, Append(sent, currentItem))
      BY <1>1, <1>2, <1>4, <3>1, <3>2, SendKeepsOrder DEF OrderInv
    <3> QED
      BY <2>1, <3>2 DEF OrderInv
  <2>3. InOrder(called, items, currentItem, connector', sent')
    BY <2>1, <2>2, ConnectKeepsOrder
  <2> QED
    BY <1>1, <1>2, <1>4, <2>1, <2>3, OrderKept
<1>5. CASE /\ currentItem # NoRequest
           /\ Kind[currentItem] \in {"commit", "rollback"}
           /\ EndTransaction(currentItem)
           /\ UNCHANGED <<link, connector>>
  <2>1. currentItem \notin Internal /\ currentItem \notin Pushed
    BY <1>2, <1>5, PipelineAssumption DEF Pushed, Urgent
  <2>2. Moves(currentItem)
    BY <1>2, <1>5, <2>1, EndTransactionMoves, PlacesFacts
  <2>3. InOrder(called, items, currentItem, connector, sent')
    <3>1. sent' = sent \/ sent' = Append(sent, currentItem)
      BY <2>2 DEF Moves
    <3>2. InOrder(called, items, currentItem, connector, Append(sent, currentItem))
      BY <1>1, <1>2, <1>5, <2>1, SendKeepsOrder DEF OrderInv
    <3> QED
      BY <3>1, <3>2 DEF OrderInv
  <2> QED
    BY <1>1, <1>2, <1>5, <2>2, <2>3, OrderKept
<1> QED
  BY <1>3, <1>4, <1>5 DEF RunItem

\* A `done` too many claims the next item early, and yet in its turn.
LEMMA MicrotaskKeepsOrder ==
    ASSUME TypeOK, PlacesInv, OrderInv, Microtask
    PROVE  OrderInv'
<1>1. micro # <<>> /\ connector' = connector /\ called' = called
  BY DEF Microtask
<1> DEFINE task == Head(micro)
<1>2. /\ task.of \in Requests
      /\ task.do = "done" \/ task.of \notin Pushed
  <2>1. micro \in Seq(Tasks)
        /\ \A k \in 1..Len(micro) : micro[k].do # "done" => Kind[micro[k].of] = "close"
    BY PlacesFacts DEF TasksOK, Tasks
  <2>2. 1 \in 1..Len(micro) /\ task = micro[1] /\ task \in Tasks
    BY <1>1, <2>1
  <2> QED
    BY <2>1, <2>2, KindFacts DEF Tasks, Pushed
<1> HIDE DEF task
<1>3. sent \in Seq(Requests)
  BY DEF TypeOK
<1>4. CASE Queue!Done(task.of) /\ UNCHANGED <<stage, sent>>
  <2>1. items \in Seq(Queued) /\ Queue!Process(items, NoRequest) /\ Queue!TypeOK
    BY <1>4 DEF Queue!Done, TypeOK, Queue!TypeOK
  <2>2. InOrder(called, items, NoRequest, connector, sent)
    BY ReleaseKeepsOrder DEF OrderInv
  <2>3. InOrder(called, items', currentItem', connector, sent)
    BY <2>1, <2>2, ProcessKeepsOrder
  <2> QED
    BY <1>1, <1>4, <2>3 DEF OrderInv, CallsInv
<1>5. CASE task.do = "closeDatabase" /\ Send(task.of, wire, link = "open") /\ UNCHANGED queueVars
  <2>1. items' = items /\ currentItem' = currentItem /\ sent' = Append(sent, task.of)
    BY <1>5 DEF queueVars, Send
  <2>2. InOrder(called, items, currentItem, connector, Append(sent, task.of))
    BY <1>2, <1>3, <1>5, SendKeepsOrder DEF OrderInv
  <2>3. stage' = [stage EXCEPT ![task.of] = "sent"]
    BY <1>5 DEF Send
  <2>4. CallsInv'
    <3>1. \A q \in Pushed : q \in Requests /\ q # task.of
      BY <1>2, <1>5, KindFacts DEF Pushed
    <3> QED
      BY <1>1, <1>2, <2>3, <3>1, CallsKept DEF OrderInv, TypeOK
  <2> QED
    BY <1>1, <2>1, <2>2, <2>4 DEF OrderInv
<1>6. CASE /\ task.do = "rejectClose"
           /\ stage' = [stage EXCEPT ![task.of] = "error"]
           /\ UNCHANGED <<queueVars, sent>>
  <2>1. items' = items /\ currentItem' = currentItem /\ sent' = sent
    BY <1>6 DEF queueVars
  <2>2. CallsInv'
    <3>1. \A q \in Pushed : q \in Requests /\ q # task.of
      BY <1>2, <1>6, KindFacts DEF Pushed
    <3> QED
      BY <1>1, <1>2, <1>6, <3>1, CallsKept DEF OrderInv, TypeOK
  <2> QED
    BY <1>1, <2>1, <2>2 DEF OrderInv
<1> QED
  BY <1>4, <1>5, <1>6 DEF Microtask, task

LEMMA ConnectorKeepsOrder ==
    ASSUME TypeOK, PlacesInv, OrderInv, ConnectDone \/ ConnectFailed
    PROVE  OrderInv'
<1>1. /\ connector \in Requests /\ stage[connector] # "idle" /\ connector' = NoRequest
      /\ called' = called /\ items' = items /\ currentItem' = currentItem
  BY DEF ConnectDone, ConnectFailed, queueVars, TypeOK, PlacesInv
<1>2. Moves(connector)
  <2>1. CASE ConnectDone
    <3>1. <<>> \in Seq(Requests) /\ Proceed(connector, <<>>, "login")
      BY <2>1 DEF ConnectDone
    <3> QED
      BY <1>1, <3>1, PlacesFacts, ProceedMoves
  <2>2. CASE ConnectFailed
    <3>1. /\ stage' \in [Requests -> Stages]
          /\ \A q \in Requests : q # connector => stage'[q] = stage[q]
          /\ stage'[connector] \in {"ok", "error"}
          /\ TasksOK(micro')
      BY <1>1, <2>2, PlacesFacts, SettleMoves DEF ConnectFailed
    <3> QED
      BY <2>2, <3>1 DEF Moves, TypeOK, ConnectFailed
  <2> QED
    BY <2>1, <2>2
<1>3. InOrder(called, items, currentItem, connector, sent')
  <2>1. sent \in Seq(Requests) /\ (sent' = sent \/ sent' = Append(sent, connector))
    BY <1>2 DEF Moves, TypeOK
  <2>2. InOrder(called, items, currentItem, connector, Append(sent, connector))
    BY <1>1, <2>1, SendKeepsOrder DEF OrderInv
  <2> QED
    BY <2>1, <2>2 DEF OrderInv
<1>4. InOrder(called, items, currentItem, NoRequest, sent')
  <2>1. NoRequest \notin Pushed
    BY QueueAssumptions DEF Pushed
  <2> QED
    BY <1>3, <2>1, ConnectKeepsOrder
<1> QED
  BY <1>1, <1>2, <1>4, OrderKept

LEMMA AnswerKeepsOrder ==
    ASSUME TypeOK, PlacesInv, OrderInv,
           LoginTaken \/ Respond \/ SocketError \/ SocketEnd
    PROVE  OrderInv'
<1>1. UNCHANGED <<called, items, currentItem, connector, sent>>
  BY DEF LoginTaken, Respond, SocketError, SocketEnd, SocketDies, queueVars
<1>2. \/ UNCHANGED stage
      \/ \E r \in Requests, outcome \in {"ok", "error"} : stage[r] # "idle" /\ Settle(r, outcome)
  <2>1. CASE Respond
    BY <2>1 DEF Respond, Outcomes, PlacesInv
  <2>2. CASE LoginTaken \/ SocketError
    BY <2>2 DEF LoginTaken, SocketError, PlacesInv
  <2>3. CASE SocketEnd
    <3>1. UNCHANGED stage \/ \E r \in Requests : stage[r] = "sent" /\ Settle(r, "ok")
      BY <2>3 DEF SocketEnd
    <3> QED
      BY <3>1
  <2> QED
    BY <2>1, <2>2, <2>3
<1>3. CASE UNCHANGED stage
  BY <1>1, <1>3 DEF OrderInv, CallsInv
<1>4. ASSUME NEW r \in Requests, NEW outcome \in {"ok", "error"}, stage[r] # "idle",
             Settle(r, outcome)
      PROVE  OrderInv'
  <2>1. stage' = stage \/ stage' = [stage EXCEPT ![r] = outcome]
    BY <1>4 DEF Settle
  <2>2. /\ \A q \in Requests : stage[q] # "idle" => stage'[q] # "idle"
        /\ \A q \in Requests : stage'[q] # "idle" => stage[q] # "idle"
    BY <1>4, <2>1 DEF TypeOK
  <2>3. CallsInv'
    <3>1. Pushed \subseteq Requests
      BY KindFacts DEF Pushed
    <3> QED
      BY <1>1, <2>2, <3>1, CallsKept DEF OrderInv
  <2> QED
    BY <1>1, <2>3 DEF OrderInv
<1> QED
  BY <1>2, <1>3, <1>4

LEMMA OrderHolds == Spec => []OrderInv
<1>1. Init => OrderInv
  <2> SUFFICES ASSUME Init PROVE OrderInv
    OBVIOUS
  <2>1. /\ items = <<>> /\ sent = <<>> /\ called = <<>> /\ currentItem = NoRequest
        /\ connector = NoRequest /\ \A r \in Requests : stage[r] = "idle"
    BY DEF Init, Queue!Init
  <2>2. NoRequest \notin Pushed /\ Pushed \subseteq Requests
    BY QueueAssumptions, KindFacts DEF Pushed
  <2> QED
    BY <2>1, <2>2 DEF OrderInv, CallsInv, InOrder
<1>2. TypeOK /\ PlacesInv /\ OrderInv /\ [Next]_vars => OrderInv'
  <2> SUFFICES ASSUME TypeOK, PlacesInv, OrderInv, [Next]_vars PROVE OrderInv'
    OBVIOUS
  <2>1. ASSUME NEW mode \in BOOLEAN, SetAutoCommitMode(mode) PROVE OrderInv'
    BY <2>1 DEF SetAutoCommitMode, queueVars, callVars, OrderInv, CallsInv
  <2>2. CASE UNCHANGED vars
    BY <2>2 DEF vars, queueVars, callVars, OrderInv, CallsInv
  <2> QED
    BY <2>1, <2>2, CallQueuedKeepsOrder, CallVersionKeepsOrder, CallCloseKeepsOrder,
       RunItemKeepsOrder, MicrotaskKeepsOrder, ConnectorKeepsOrder, AnswerKeepsOrder
    DEF Next
<1> QED
  BY <1>1, <1>2, PlacesHold, PTL DEF Spec

\* Pushed requests reach the server in the order of their calls, whatever urgent
\* requests, close()s, reconnects, errors and repeated `done`s come between.
THEOREM ReachTheServerInOrder == Spec => []PushedInOrder
<1>1. TypeOK /\ OrderInv => PushedInOrder
  <2> SUFFICES ASSUME TypeOK, OrderInv, NEW r \in Pushed, NEW s \in Pushed,
                      Before(called, r, s), Before(sent, s, r)
               PROVE  FALSE
    BY DEF PushedInOrder, Pushed
  <2>1. r = s \/ Before(called, s, r)
    <3>1. PICK i \in 1..Len(sent), j \in 1..Len(sent) : i < j /\ sent[i] = s /\ sent[j] = r
      BY DEF Before
    <3> QED
      BY <3>1 DEF OrderInv, InOrder
  <2>2. PICK i \in 1..Len(called), j \in 1..Len(called) : i < j /\ called[i] = r /\ called[j] = s
    BY DEF Before
  <2>3. CASE r = s
    BY <2>2, <2>3 DEF OrderInv, CallsInv
  <2>4. CASE Before(called, s, r)
    <3>1. PICK k \in 1..Len(called), l \in 1..Len(called) : k < l /\ called[k] = s /\ called[l] = r
      BY <2>4 DEF Before
    <3>2. k = j /\ l = i
      BY <2>2, <3>1 DEF OrderInv, CallsInv
    <3> QED
      BY <2>2, <3>1, <3>2
  <2> QED
    BY <2>1, <2>3, <2>4
<1> QED
  BY <1>1, PlacesHold, OrderHolds, PTL

-----------------------------------------------------------------------------
(* The queue's invariant, in the hands of these requests.                    *)

LEMMA QueueStepKeepsInv ==
    ASSUME Queue!TypeOK, QP!IInv, QueueStep
    PROVE  QP!IInv' /\ (Queue!RepeatedDone => Queue!RepeatedDone')
<1>1. QP!TypeOK /\ QP!TypeOK'
  <2>1. Queue!TypeOK' <=> QP!TypeOK'
    BY DEF Queue!TypeOK, QP!TypeOK
  <2> QED
    BY <2>1, SameQueue, QueueStepKeepsType
<1>2. [QP!Next]_(QP!vars)
  BY QueueStepIsStep
<1>3. QP!IInv'
  BY <1>1, <1>2, QueueAssumptions, QP!StepKeepsInv
<1>4. QP!RepeatedDone => QP!RepeatedDone'
  <2>1. CASE QP!Next
    BY <1>1, <2>1, QueueAssumptions, QP!RepeatedDoneStable DEF QP!IInv
  <2>2. CASE UNCHANGED QP!vars
    BY <2>2 DEF QP!RepeatedDone, QP!vars, QP!historyVars
  <2> QED
    BY <1>2, <2>1, <2>2
<1>5. Queue!RepeatedDone' <=> QP!RepeatedDone'
  BY DEF Queue!RepeatedDone, QP!RepeatedDone
<1> QED
  BY <1>3, <1>4, <1>5, SameQueue

LEMMA OwnCloseQueryKeepsInv ==
    ASSUME Queue!TypeOK, QP!IInv, NEW i \in Internal, i \notin accepted,
           accepted' = accepted \cup {i},
           dropped' = dropped \cup Queue!Waiting,
           Queue!Process(<<i>>, currentItem),
           UNCHANGED <<runs, dones, node>>
    PROVE  QP!IInv' /\ (Queue!RepeatedDone => Queue!RepeatedDone')
<1>1. \/ /\ currentItem = NoRequest
         /\ currentItem' = i
         /\ items' = <<>>
         /\ immediates' = immediates + 1
      \/ /\ currentItem # NoRequest
         /\ currentItem' = currentItem
         /\ items' = <<i>>
         /\ immediates' = immediates
  BY OwnCloseQuery
<1>2. i \in Queued /\ i # NoRequest
  BY KindFacts, QueueAssumptions
<1>3. runs[i] = 0 /\ dones[i] = 0 /\ i # currentItem
  <2>1. runs[i] \in Nat
    BY <1>2 DEF Queue!TypeOK
  <2> QED
    BY <1>2, <2>1 DEF QP!IInv, QP!LineInv
<1>4. \A j \in 1..Len(items') : items'[j] = i /\ j = 1
  <2>1. Len(<<>>) = 0 /\ Len(<<i>>) = 1 /\ <<i>>[1] = i /\ 1..0 = {} /\ 1..1 = {1}
    OBVIOUS
  <2>2. items' = <<>> \/ items' = <<i>>
    BY <1>1
  <2> QED
    BY <2>1, <2>2
<1>5. QP!LineInv'
  <2>1. \A j, k \in 1..Len(items') : items'[j] = items'[k] => j = k
    BY <1>4
  <2>2. \A j \in 1..Len(items') :
           items'[j] \in accepted' /\ items'[j] # currentItem' /\ runs'[items'[j]] = 0
    <3>1. items' # <<>> => currentItem' = currentItem
      BY <1>1
    <3>2. ASSUME NEW j \in 1..Len(items') PROVE items' # <<>>
      OBVIOUS
    <3> QED
      BY <1>3, <1>4, <3>1, <3>2
  <2>3. currentItem' \in Queued => currentItem' \in accepted' /\ dones'[currentItem'] = 0
    BY <1>1, <1>3 DEF QP!IInv, QP!LineInv
  <2>4. /\ \A r \in Queued : runs'[r] > 0 => r \in accepted'
        /\ \A r \in Queued : runs'[r] = 0 => dones'[r] = 0
    BY DEF QP!IInv, QP!LineInv
  <2>5. dropped' \subseteq accepted'
    BY DEF QP!IInv, QP!LineInv, Queue!Waiting
  <2> QED
    BY <2>1, <2>2, <2>3, <2>4, <2>5 DEF QP!LineInv
<1>6. QP!RepeatedDone' <=> QP!RepeatedDone
  BY DEF QP!RepeatedDone
<1>7. QP!SerialInv => QP!SerialInv'
  <2> SUFFICES ASSUME QP!SerialInv PROVE QP!SerialInv'
    OBVIOUS
  <2>1. node' = "up" /\ \A r \in Queued : runs'[r] <= 1
    BY DEF QP!SerialInv
  <2>2. /\ QP!Claimed' => immediates' = 1
        /\ ~QP!Claimed' => immediates' = 0
        /\ currentItem' = NoRequest => items' = <<>>
        /\ currentItem # NoRequest => currentItem' = currentItem
    <3>1. CASE currentItem = NoRequest
      <4>1. currentItem' = i /\ immediates' = immediates + 1 /\ immediates = 0
        BY <1>1, <3>1 DEF QP!SerialInv, QP!Claimed
      <4>2. QP!Claimed'
        BY <1>2, <1>3, <4>1 DEF QP!Claimed
      <4> QED
        BY <1>2, <3>1, <4>1, <4>2
    <3>2. CASE currentItem # NoRequest
      <4>1. currentItem' = currentItem /\ immediates' = immediates
        BY <1>1, <3>2
      <4>2. QP!Claimed' <=> QP!Claimed
        BY <4>1 DEF QP!Claimed
      <4> QED
        BY <3>2, <4>1, <4>2 DEF QP!SerialInv
    <3> QED
      BY <3>1, <3>2
  <2>3. \A r \in Queued : QP!Running(r)' => r = currentItem'
    <3>1. \A r \in Queued : QP!Running(r)' => r = currentItem
      BY DEF QP!SerialInv, QP!Running
    <3> QED
      BY <2>2, <3>1, QueueAssumptions
  <2>4. QP!NothingLost'
    <3>1. ASSUME NEW r \in accepted', r # i
          PROVE  r \in QP!Waiting' \cup dropped' \/ r = currentItem' \/ runs'[r] > 0
      <4>1. r \in accepted /\ r \in Queued
        BY <3>1 DEF Queue!TypeOK
      <4>2. r \in QP!Waiting \cup dropped \/ r = currentItem \/ runs[r] > 0
        BY <4>1 DEF QP!SerialInv, QP!NothingLost
      <4>3. QP!Waiting = Queue!Waiting
        BY DEF QP!Waiting, Queue!Waiting
      <4>4. r # NoRequest
        BY <4>1, QueueAssumptions
      <4> QED
        BY <2>2, <4>2, <4>3, <4>4
    <3>2. i \in QP!Waiting' \/ i = currentItem'
      <4>1. items' = <<i>> => i \in QP!Waiting'
        BY DEF QP!Waiting
      <4> QED
        BY <1>1, <4>1
    <3> QED
      BY <3>1, <3>2 DEF QP!NothingLost
  <2> QED
    BY <2>1, <2>2, <2>3, <2>4 DEF QP!SerialInv
<1> QED
  BY <1>5, <1>6, <1>7, SameQueue DEF QP!IInv, QP!RepeatedDone, Queue!RepeatedDone

\* A call is made once: no step makes it idle again.
LEMMA StageGrows ==
    ASSUME TypeOK, PlacesInv, [Next]_vars
    PROVE  \A q \in Requests : stage[q] # "idle" => stage'[q] # "idle"
<1>1. ASSUME NEW r, NEW outcome \in {"ok", "error"}, Settle(r, outcome)
      PROVE  \A q \in Requests : stage[q] # "idle" => stage'[q] # "idle"
  <2>1. stage' = stage \/ stage' = [stage EXCEPT ![r] = outcome]
    BY <1>1 DEF Settle
  <2> QED
    BY <2>1 DEF TypeOK
<1>2. ASSUME NEW r, NEW line, NEW live, Send(r, line, live)
      PROVE  \A q \in Requests : stage[q] # "idle" => stage'[q] # "idle"
  BY <1>2 DEF Send, TypeOK
<1>3. ASSUME NEW r, NEW line, NEW left, Proceed(r, line, left)
      PROVE  \A q \in Requests : stage[q] # "idle" => stage'[q] # "idle"
  <2>1. Send(r, line, TRUE) \/ Settle(r, "ok") \/ Settle(r, "error")
    BY <1>3, Zenon DEF Proceed
  <2> QED
    BY <1>1, <1>2, <2>1
<1>4. ASSUME NEW r, Connect(r)
      PROVE  \A q \in Requests : stage[q] # "idle" => stage'[q] # "idle"
  <2>1. Proceed(r, wire, eventCallback) \/ Settle(r, "error") \/ stage' = [stage EXCEPT ![r] = "connecting"]
    BY <1>4 DEF Connect
  <2>2. stage' = [stage EXCEPT ![r] = "connecting"] =>
           \A q \in Requests : stage[q] # "idle" => stage'[q] # "idle"
    BY DEF TypeOK
  <2> QED
    BY <1>1, <1>3, <2>1, <2>2
<1>5. ASSUME NEW r \in Requests, CallClose(r)
      PROVE  \A q \in Requests : stage[q] # "idle" => stage'[q] # "idle"
  BY <1>5 DEF CallClose, TypeOK
<1>6. ASSUME NEW r \in Requests, CallQueued(r) \/ CallVersion(r)
      PROVE  \A q \in Requests : stage[q] # "idle" => stage'[q] # "idle"
  <2>1. CallQueued(r) => stage' = [stage EXCEPT ![r] = "called"]
    BY DEF CallQueued
  <2>2. stage' = [stage EXCEPT ![r] = "called"] =>
           \A q \in Requests : stage[q] # "idle" => stage'[q] # "idle"
    BY DEF TypeOK
  <2> QED
    BY <1>4, <1>6, <2>1, <2>2 DEF CallVersion
<1>7. CASE RunItem
  <2>1. EndTransaction(currentItem) => Send(currentItem, wire, link = "open") \/ Settle(currentItem, "error")
    BY DEF EndTransaction
  <2>2. UNCHANGED stage \/ Connect(currentItem) \/ EndTransaction(currentItem)
    BY <1>7 DEF RunItem
  <2> QED
    BY <1>1, <1>2, <1>4, <2>1, <2>2
<1>8. CASE Microtask
  <2>1. \/ UNCHANGED stage
        \/ Send(Head(micro).of, wire, link = "open")
        \/ stage' = [stage EXCEPT ![Head(micro).of] = "error"]
    BY <1>8 DEF Microtask
  <2>2. stage' = [stage EXCEPT ![Head(micro).of] = "error"] =>
           \A q \in Requests : stage[q] # "idle" => stage'[q] # "idle"
    BY DEF TypeOK
  <2> QED
    BY <1>2, <2>1, <2>2
<1>9. CASE ConnectDone \/ ConnectFailed
  BY <1>1, <1>3, <1>9 DEF ConnectDone, ConnectFailed
<1>10. CASE LoginTaken \/ Respond \/ SocketError \/ SocketEnd
  <2>1. UNCHANGED stage \/ \E r, outcome : outcome \in {"ok", "error"} /\ Settle(r, outcome)
    BY <1>10 DEF LoginTaken, Respond, Outcomes, SocketError, SocketEnd
  <2> QED
    BY <1>1, <2>1
<1>11. CASE UNCHANGED vars \/ \E mode \in BOOLEAN : SetAutoCommitMode(mode)
  BY <1>11 DEF SetAutoCommitMode, vars, callVars
<1> QED
  BY <1>5, <1>6, <1>7, <1>8, <1>9, <1>10, <1>11 DEF Next

LEMMA StepKeepsQueueInv ==
    ASSUME TypeOK, PlacesInv, QueueInv, [Next]_vars
    PROVE  QueueInv' /\ (Queue!RepeatedDone => Queue!RepeatedDone')
<1>1. Queue!TypeOK /\ QP!IInv
  BY DEF TypeOK, QueueInv
<1>2. \A q \in Requests : stage[q] # "idle" => stage'[q] # "idle"
  BY StageGrows
<1>3. ASSUME QueueStep, accepted' = accepted
      PROVE  QueueInv' /\ (Queue!RepeatedDone => Queue!RepeatedDone')
  BY <1>1, <1>2, <1>3, KindFacts, QueueStepKeepsInv DEF QueueInv, Queue!TypeOK
<1>4. ASSUME NEW r \in Requests, CallQueued(r)
      PROVE  QueueInv' /\ (Queue!RepeatedDone => Queue!RepeatedDone')
  <2>1. QueueStep /\ accepted' = accepted \cup {r}
    BY <1>4 DEF CallQueued, QueueStep, Queue!Push, Queue!Unshift, Queue!Accept
  <2>2. stage'[r] # "idle"
    BY <1>4 DEF CallQueued, TypeOK
  <2> QED
    BY <1>1, <1>2, <2>1, <2>2, KindFacts, QueueStepKeepsInv DEF QueueInv, Queue!TypeOK
<1>5. ASSUME UNCHANGED queueVars
      PROVE  QueueInv' /\ (Queue!RepeatedDone => Queue!RepeatedDone')
  BY <1>3, <1>5 DEF QueueStep, queueVars
<1>6. ASSUME NEW r \in Requests, CallClose(r)
      PROVE  QueueInv' /\ (Queue!RepeatedDone => Queue!RepeatedDone')
  <2>1. CASE Queue!Empty
    BY <1>3, <2>1 DEF QueueStep, Queue!Empty
  <2>2. ASSUME NEW i \in Internal,
               stage[i] = "idle",
               accepted' = accepted \cup {i},
               dropped' = dropped \cup Queue!Waiting,
               Queue!Process(<<i>>, currentItem),
               stage' = [q \in Requests |-> IF q = r THEN "closing" ELSE IF q = i THEN "called"
                           ELSE IF q \in Queue!Waiting THEN "dropped" ELSE stage[q]],
               UNCHANGED <<runs, dones, node>>
        PROVE  QueueInv' /\ (Queue!RepeatedDone => Queue!RepeatedDone')
    <3>1. i \notin accepted
      BY <2>2 DEF QueueInv
    <3>2. i \in Requests /\ stage'[i] # "idle"
      BY <2>2, KindFacts, QueueAssumptions
    <3>3. QP!IInv' /\ (Queue!RepeatedDone => Queue!RepeatedDone')
      BY <1>1, <2>2, <3>1, OwnCloseQueryKeepsInv
    <3> QED
      BY <1>1, <1>2, <2>2, <3>2, <3>3, KindFacts DEF QueueInv, Queue!TypeOK
  <2> QED
    BY <1>5, <1>6, <2>1, <2>2 DEF CallClose
<1>7. CASE RunItem
  BY <1>3, <1>7 DEF RunItem, QueueStep, Queue!RunImmediate
<1>8. CASE Microtask
  <2>1. UNCHANGED queueVars \/ (Head(micro).do = "done" /\ Queue!Done(Head(micro).of))
    BY <1>8 DEF Microtask
  <2>2. Head(micro).do = "done" => Head(micro).of \in Queued
    <3>1. micro \in Seq(Tasks) /\ micro # <<>>
          /\ \A k \in 1..Len(micro) : micro[k].do = "done" => micro[k].of \in Queued
      BY <1>8, PlacesFacts DEF Microtask, TasksOK, Tasks
    <3>2. 1 \in 1..Len(micro) /\ Head(micro) = micro[1]
      BY <3>1
    <3> QED
      BY <3>1, <3>2
  <2> QED
    BY <1>3, <1>5, <2>1, <2>2 DEF QueueStep, Queue!Done
<1> QED
  BY <1>4, <1>5, <1>6, <1>7, <1>8
  DEF Next, vars, CallVersion, SetAutoCommitMode, ConnectDone, ConnectFailed, LoginTaken,
      Respond, SocketError, SocketEnd, SocketDies

LEMMA QueueInvHolds == Spec => []QueueInv
<1>1. Init => QueueInv
  <2> SUFFICES ASSUME Init PROVE QueueInv
    OBVIOUS
  <2>1. QP!Init
    BY DEF Init, Queue!Init, QP!Init
  <2>2. QP!LineInv
    BY <2>1, QueueAssumptions DEF QP!Init, QP!LineInv
  <2>3. ~QP!Claimed /\ \A r \in Queued : ~QP!Running(r)
    BY <2>1 DEF QP!Init, QP!Claimed, QP!Running
  <2> QED
    BY <2>1, <2>2, <2>3 DEF QP!Init, QueueInv, QP!IInv, QP!SerialInv, QP!NothingLost
<1>2. TypeOK /\ PlacesInv /\ QueueInv /\ [Next]_vars => QueueInv'
  BY StepKeepsQueueInv
<1> QED
  BY <1>1, <1>2, PlacesHold, PTL DEF Spec

-----------------------------------------------------------------------------
(* Nothing is sent again before a `done` is called again.                    *)

\* Moving q keeps who has sent what, if q sends for the first time.
LEMMA MoveKeepsSends ==
    ASSUME TypeOK, SendsInv, NEW q \in Requests,
           \A p \in Requests : p # q => stage'[p] = stage[p],
           \/ sent' = sent
           \/ sent' = Append(sent, q) /\ stage'[q] = "sent" /\ stage[q] \notin {"sent", "ok", "error"},
           stage[q] \in {"sent", "ok", "error"} => stage'[q] \in {"sent", "ok", "error"},
           \A r \in Requests : r \in {slot', eventCallback'} =>
              r \in {slot, eventCallback} \/ (r = q /\ stage'[q] \in {"sent", "ok", "error"}),
           \A r \in Queued : runs'[r] = 0 => runs[r] = 0,
           q \in Queued => runs'[q] # 0,
           connector' \in Requests => IF connector' = q THEN stage'[q] = "connecting"
                                      ELSE connector' = connector
    PROVE  SendsInv'
<1>1. sent \in Seq(Requests) /\ Len(sent) \in Nat /\ \A i \in 1..Len(sent) : sent[i] \in Requests
  BY DEF TypeOK
<1>2. CASE sent' = sent
  <2>1. \A i \in 1..Len(sent) : stage'[sent[i]] \in {"sent", "ok", "error"}
    <3> TAKE i \in 1..Len(sent)
    <3>1. sent[i] \in Requests /\ stage[sent[i]] \in {"sent", "ok", "error"}
      BY <1>1 DEF SendsInv
    <3> QED
      BY <3>1
  <2>2. \A r \in Requests : r \in {slot', eventCallback'} => stage'[r] \in {"sent", "ok", "error"}
    BY DEF SendsInv
  <2>3. \A r \in Queued : runs'[r] = 0 => stage'[r] \in {"idle", "called", "dropped"}
    BY KindFacts DEF SendsInv
  <2>4. connector' \in Requests => stage'[connector'] = "connecting"
    BY DEF SendsInv
  <2> QED
    BY <1>2, <2>1, <2>2, <2>3, <2>4 DEF SendsInv
<1>3. CASE sent' = Append(sent, q) /\ stage'[q] = "sent" /\ stage[q] \notin {"sent", "ok", "error"}
  <2>1. /\ \A i \in 1..Len(sent') : \/ i \in 1..Len(sent) /\ sent'[i] = sent[i]
                                    \/ i = Len(sent) + 1 /\ sent'[i] = q
        /\ Len(sent) + 1 \in 1..Len(sent') /\ sent'[Len(sent) + 1] = q
        /\ \A i \in 1..Len(sent) : i \in 1..Len(sent') /\ sent'[i] = sent[i]
    BY <1>1, <1>3
  <2>2. \A i \in 1..Len(sent) : sent[i] # q
    BY <1>3 DEF SendsInv
  <2>3. \A i, j \in 1..Len(sent') : sent'[i] = sent'[j] => i = j
    BY <2>1, <2>2 DEF SendsInv
  <2>4. \A i \in 1..Len(sent') : stage'[sent'[i]] \in {"sent", "ok", "error"}
    <3> TAKE i \in 1..Len(sent')
    <3>1. CASE i \in 1..Len(sent) /\ sent'[i] = sent[i]
      <4>1. sent[i] \in Requests /\ stage[sent[i]] \in {"sent", "ok", "error"} /\ sent[i] # q
        BY <1>1, <2>2, <3>1 DEF SendsInv
      <4> QED
        BY <3>1, <4>1
    <3> QED
      BY <1>3, <2>1, <3>1
  <2>5. \A r \in Requests : r \in {slot', eventCallback'} => stage'[r] \in {"sent", "ok", "error"}
    BY DEF SendsInv
  <2>6. \A r \in Queued : runs'[r] = 0 => stage'[r] \in {"idle", "called", "dropped"}
    BY KindFacts DEF SendsInv
  <2>7. connector' \in Requests => stage'[connector'] = "connecting"
    BY DEF SendsInv
  <2> QED
    BY <2>3, <2>4, <2>5, <2>6, <2>7 DEF SendsInv
<1> QED
  BY <1>2, <1>3

\* Moving q keeps who waits for whom.
LEMMA MoveKeepsClosers ==
    ASSUME TypeOK, PlacesInv, ClosersInv, closer' = closer, NEW q \in Requests,
           \A p \in Requests : p # q => stage'[p] = stage[p],
           stage'[q] # "idle",
           stage[q] = "closing" => \A i \in Internal : closer[i] = q => stage[i] \in {"ok", "error"},
           q \in Internal /\ stage[q] \in {"idle", "ok", "error"} => stage'[q] \in {"ok", "error"}
    PROVE  ClosersInv'
<1>1. ASSUME NEW i \in Internal, stage'[i] \notin {"idle", "ok", "error"}
      PROVE  stage'[closer[i]] = "closing"
  <2>1. i \in Requests
    BY KindFacts, QueueAssumptions
  <2>2. stage[i] \notin {"idle", "ok", "error"}
    BY <1>1, <2>1
  <2>3. closer[i] \in Requests /\ stage[closer[i]] = "closing"
    BY <2>2 DEF ClosersInv, PlacesInv, CloserOK
  <2>4. closer[i] # q
    BY <2>2, <2>3
  <2> QED
    BY <2>3, <2>4
<1>2. \A i \in Internal : closer[i] \in Requests => stage'[closer[i]] # "idle"
  BY DEF ClosersInv
<1> QED
  BY <1>1, <1>2 DEF ClosersInv

LEMMA SettleKeepsSent ==
    ASSUME TypeOK, PlacesInv, SentInv, NEW q \in Requests, NEW outcome \in {"ok", "error"},
           Settle(q, outcome), sent' = sent, closer' = closer,
           \A r \in Requests : r \in {slot', eventCallback'} => r \in {slot, eventCallback, q},
           stage[q] # "closing",
           q \in Internal => stage[q] # "idle",
           \A r \in Queued : runs'[r] = 0 => runs[r] = 0,
           q \in Queued => runs'[q] # 0,
           connector' \in Requests => connector' = connector /\ connector' # q
    PROVE  SentInv'
<1>1. /\ \A p \in Requests : p # q => stage'[p] = stage[p]
      /\ stage'[q] \in {"ok", "error"}
  BY PlacesFacts, SettleMoves
<1>2. SendsInv'
  BY <1>1, MoveKeepsSends DEF SentInv
<1>3. ClosersInv'
  BY <1>1, MoveKeepsClosers DEF SentInv
<1>4. TasksInv'
  <2>1. CASE \A k \in 1..Len(micro') : micro'[k].do = "done"
    BY <2>1 DEF TasksInv
  <2>2. CASE q \in Internal /\ ~Answered(q)
    <3> DEFINE second == [do |-> IF outcome = "ok" THEN "closeDatabase" ELSE "rejectClose",
                          of |-> closer[q]]
    <3>1. micro' = <<Done(q), second>>
      BY <2>2, KindFacts DEF Settle, Followers
    <3>2. Done(q).do = "done" /\ second.of = closer[q]
      BY DEF Done
    <3>3. /\ stage[q] \notin {"idle", "ok", "error"}
          /\ closer[q] \in Requests /\ stage[closer[q]] = "closing" /\ closer[q] # q
      BY <2>2, PlacesFacts DEF Answered, SentInv, ClosersInv
    <3>4. closer[q] # NoRequest
      BY <3>3, KindFacts
    <3>5. stage'[closer[q]] = "closing" /\ \A i \in Internal : closer[i] = closer[q] => i = q
      BY <1>1, <2>2, <3>3, <3>4 DEF SentInv, ClosersInv
    <3> HIDE DEF second
    <3>6. Len(micro') = 2 /\ micro'[1] = Done(q) /\ micro'[2] = second
      BY <3>1
    <3>7. \A k \in 1..Len(micro') : micro'[k].do # "done" => k = 2 /\ micro'[k].of = closer[q]
      BY <3>2, <3>6
    <3> QED
      BY <1>1, <3>5, <3>7 DEF TasksInv
  <2>3. CASE q \notin Internal \/ Answered(q)
    <3>1. micro' \in {<<>>, <<Done(q)>>, <<Done(q), Done(q)>>}
      BY <2>3 DEF Settle, Followers
    <3>2. Done(q).do = "done"
      BY DEF Done
    <3> QED
      BY <2>1, <3>1, <3>2
  <2> QED
    BY <2>2, <2>3
<1> QED
  BY <1>2, <1>3, <1>4 DEF SentInv

LEMMA SendKeepsSent ==
    ASSUME TypeOK, PlacesInv, SentInv, NEW q \in Requests, NEW line, NEW live,
           Send(q, line, live), closer' = closer, TasksInv',
           stage[q] \notin {"sent", "ok", "error"},
           stage[q] = "closing" => \A i \in Internal : closer[i] = q => stage[i] \in {"ok", "error"},
           q \in Internal => stage[q] # "idle",
           \A r \in Queued : runs'[r] = 0 => runs[r] = 0,
           q \in Queued => runs'[q] # 0,
           connector' \in Requests => connector' = connector /\ connector' # q
    PROVE  SentInv'
<1>1. /\ \A p \in Requests : p # q => stage'[p] = stage[p]
      /\ stage'[q] = "sent" /\ sent' = Append(sent, q) /\ slot' = q /\ eventCallback' = q
  BY DEF Send, TypeOK
<1>2. SendsInv'
  BY <1>1, MoveKeepsSends DEF SentInv
<1>3. ClosersInv'
  BY <1>1, MoveKeepsClosers DEF SentInv
<1> QED
  BY <1>2, <1>3 DEF SentInv

LEMMA SentFacts ==
    ASSUME TypeOK, PlacesInv, SentInv
    PROVE  /\ \A r \in Requests : r \in {slot, eventCallback} => stage[r] \in {"sent", "ok", "error"}
           /\ \A r \in Queued : stage[r] \notin {"idle", "called", "dropped"} => runs[r] # 0
           /\ connector # NoRequest => connector \in Requests /\ stage[connector] = "connecting"
  BY DEF TypeOK, SentInv, SendsInv

LEMMA NoTasks == micro' = <<>> => TasksInv'
  BY DEF TasksInv

\* connect() for a call that has not been sent.
LEMMA ConnectKeepsSent ==
    ASSUME TypeOK, PlacesInv, SentInv, micro = <<>>, NEW q \in Requests, Connect(q),
           closer' = closer,
           stage[q] \in {"idle", "called", "dropped"},
           q \in Internal => stage[q] # "idle",
           \A r \in Queued : runs'[r] = 0 => runs[r] = 0,
           q \in Queued => runs'[q] # 0
    PROVE  SentInv'
<1>1. connector # NoRequest => connector # q
  BY SentFacts
<1>2. ASSUME NEW outcome \in {"ok", "error"}, Settle(q, outcome),
             eventCallback' \in {eventCallback, q}, UNCHANGED <<connector, slot, sent>>
      PROVE  SentInv'
  BY <1>1, <1>2, KindFacts, SettleKeepsSent
<1>3. CASE Send(q, wire, TRUE) /\ UNCHANGED <<micro, connector>>
  BY <1>1, <1>3, KindFacts, NoTasks, SendKeepsSent
<1>4. CASE /\ connector' = q
           /\ eventCallback' = "login"
           /\ stage' = [stage EXCEPT ![q] = "connecting"]
           /\ UNCHANGED <<slot, micro, sent>>
  <2>1. /\ \A p \in Requests : p # q => stage'[p] = stage[p]
        /\ stage'[q] = "connecting"
    BY <1>4 DEF TypeOK
  <2>2. \A r \in Requests : r \in {slot', eventCallback'} => r \in {slot, eventCallback}
    BY <1>4, KindFacts
  <2>3. SendsInv'
    BY <1>4, <2>1, <2>2, MoveKeepsSends DEF SentInv
  <2>4. ClosersInv'
    BY <2>1, MoveKeepsClosers DEF SentInv
  <2> QED
    BY <1>4, <2>3, <2>4, NoTasks DEF SentInv
<1>5. Connect(q) => \/ Proceed(q, wire, eventCallback) /\ UNCHANGED connector
                    \/ Settle(q, "error") /\ UNCHANGED <<connector, slot, eventCallback, sent>>
                    \/ /\ connector' = q
                       /\ eventCallback' = "login"
                       /\ stage' = [stage EXCEPT ![q] = "connecting"]
                       /\ UNCHANGED <<slot, micro, sent>>
  BY DEF Connect
<1>6. Proceed(q, wire, eventCallback) =>
         \/ Send(q, wire, TRUE) /\ UNCHANGED micro
         \/ \E outcome \in {"ok", "error"} :
               /\ Settle(q, outcome)
               /\ eventCallback' \in {eventCallback, q}
               /\ UNCHANGED <<slot, sent>>
  BY Zenon DEF Proceed
<1> QED
  BY <1>2, <1>3, <1>4, <1>5, <1>6

LEMMA RunItemKeepsSent ==
    ASSUME TypeOK, PlacesInv, QueueInv, ~Queue!RepeatedDone, SentInv, RunItem
    PROVE  SentInv'
<1>1. /\ immediates > 0 /\ node = "up" /\ QP!SerialInv /\ micro = <<>> /\ closer' = closer
  BY SameQueue DEF RunItem, Queue!RunImmediate, QueueInv, QP!IInv, Quiet
<1>2. currentItem \in Queued /\ currentItem \in Requests /\ runs[currentItem] = 0
  <2>1. QP!Claimed
    BY <1>1 DEF QP!SerialInv
  <2> QED
    BY <2>1, KindFacts DEF QP!Claimed, TypeOK, Queue!TypeOK
<1>3. stage[currentItem] \in {"called", "dropped"}
  BY <1>2, PlacesFacts DEF SentInv, SendsInv
<1>4. currentItem # NoRequest
  BY <1>2, QueueAssumptions
<1>5. runs' = [runs EXCEPT ![currentItem] = @ + 1]
  BY <1>4 DEF RunItem, Queue!RunImmediate
<1>6. /\ \A r \in Queued : runs'[r] = 0 => runs[r] = 0
      /\ runs'[currentItem] # 0
  BY <1>2, <1>5 DEF TypeOK, Queue!TypeOK
<1>7. CASE Connect(currentItem)
  BY <1>1, <1>2, <1>3, <1>6, <1>7, ConnectKeepsSent
<1>8. CASE EndTransaction(currentItem) /\ UNCHANGED connector
  <2>1. connector' \in Requests => connector' = connector /\ connector' # currentItem
    BY <1>3, <1>8, KindFacts, SentFacts
  <2>2. CASE Settle(currentItem, "error") /\ UNCHANGED <<slot, eventCallback, sent>>
    BY <1>1, <1>2, <1>3, <1>6, <2>1, <2>2, SettleKeepsSent
  <2>3. CASE Send(currentItem, wire, link = "open") /\ UNCHANGED micro
    BY <1>1, <1>2, <1>3, <1>6, <2>1, <2>3, NoTasks, SendKeepsSent
  <2> QED
    BY <1>8, <2>2, <2>3 DEF EndTransaction
<1> QED
  BY <1>4, <1>7, <1>8 DEF RunItem

LEMMA CallQueuedKeepsSent ==
    ASSUME TypeOK, PlacesInv, SentInv, NEW r \in Requests, CallQueued(r)
    PROVE  SentInv'
<1>1. /\ stage' = [stage EXCEPT ![r] = "called"] /\ stage[r] = "idle" /\ micro = <<>>
      /\ r \in Queued /\ r \notin Internal
      /\ UNCHANGED <<connector, slot, eventCallback, closer, micro, sent, runs>>
  BY DEF CallQueued, Quiet, Queue!Push, Queue!Unshift, Queue!Accept
<1>2. sent \in Seq(Requests) /\ \A i \in 1..Len(sent) : sent[i] \in Requests /\ sent[i] # r
  <2>1. sent \in Seq(Requests) /\ \A i \in 1..Len(sent) : stage[sent[i]] \in {"sent", "ok", "error"}
    BY DEF TypeOK, SentInv, SendsInv
  <2> QED
    BY <1>1, <2>1
<1>3. SendsInv'
  <2>1. \A i \in 1..Len(sent) : stage'[sent[i]] \in {"sent", "ok", "error"}
    BY <1>1, <1>2 DEF SentInv, SendsInv
  <2>2. \A q \in Queued : runs[q] = 0 => stage'[q] \in {"idle", "called", "dropped"}
    BY <1>1, KindFacts DEF SentInv, SendsInv, TypeOK
  <2>3. connector \in Requests => stage'[connector] = "connecting"
    BY <1>1 DEF SentInv, SendsInv
  <2> QED
    BY <1>1, <2>1, <2>2, <2>3 DEF SentInv, SendsInv
<1>4. ClosersInv'
  <2>1. \A q \in Requests : q # r => stage'[q] = stage[q]
    BY <1>1 DEF TypeOK
  <2>2. stage'[r] = "called"
    BY <1>1 DEF TypeOK
  <2> QED
    BY <1>1, <2>1, <2>2, MoveKeepsClosers DEF SentInv
<1> QED
  BY <1>1, <1>3, <1>4, NoTasks DEF SentInv

LEMMA CallVersionKeepsSent ==
    ASSUME TypeOK, PlacesInv, SentInv, NEW r \in Requests, CallVersion(r)
    PROVE  SentInv'
<1>1. /\ r \notin Queued /\ r \notin Internal /\ stage[r] = "idle" /\ micro = <<>>
      /\ Connect(r) /\ closer' = closer /\ runs' = runs
  BY KindFacts, QueueAssumptions DEF CallVersion, Quiet, queueVars
<1> QED
  BY <1>1, ConnectKeepsSent

\* A waiting item was called by its user and not yet by the queue.
LEMMA WaitingFacts ==
    ASSUME TypeOK, PlacesInv, QueueInv, SentInv, NEW q \in Queue!Waiting
    PROVE  q \in Queued /\ q \in Requests /\ runs[q] = 0 /\ stage[q] \in {"called", "dropped"}
<1>1. PICK j \in 1..Len(items) : q = items[j]
  BY DEF Queue!Waiting
<1>2. q \in Queued /\ runs[q] = 0
  BY <1>1 DEF TypeOK, Queue!TypeOK, QueueInv, QP!IInv, QP!LineInv
<1> QED
  BY <1>1, <1>2, PlacesFacts, KindFacts DEF SentInv, SendsInv

LEMMA CallCloseKeepsSent ==
    ASSUME TypeOK, PlacesInv, QueueInv, SentInv, NEW r \in Requests, CallClose(r)
    PROVE  SentInv'
<1>1. /\ stage[r] = "idle" /\ micro = <<>> /\ micro' = micro /\ connector' = connector
      /\ r \notin Queued
  BY KindFacts DEF CallClose, Quiet
<1>2. \/ slot' = slot /\ eventCallback' = eventCallback /\ sent' = sent
      \/ slot' = r /\ eventCallback' = r /\ sent' = Append(sent, r) /\ stage'[r] = "sent"
  BY DEF CallClose
<1>3. runs' = runs
  BY DEF CallClose, queueVars, Queue!Empty
<1>4. \A i \in Internal : i \in Queued /\ i \in Requests /\ i # r
  BY <1>1, KindFacts, QueueAssumptions
<1>5. /\ stage'[r] # "idle"
      /\ \A q \in Requests : stage[q] \notin {"idle", "called", "dropped"} => stage'[q] = stage[q]
  <2>1. \A q \in Requests : stage[q] \notin {"idle", "called", "dropped"} => q # r /\ q \notin Queue!Waiting
    BY <1>1, WaitingFacts
  <2> QED
    BY <1>4, <2>1 DEF CallClose, TypeOK
<1>6. \A q \in Queued : runs[q] = 0 => stage'[q] \in {"idle", "called", "dropped"}
  <2>1. \A q \in Queued : q \in Requests /\ q # r
    BY <1>1, KindFacts
  <2>2. \A q \in Queued : runs[q] = 0 => stage[q] \in {"idle", "called", "dropped"}
    BY DEF SentInv, SendsInv
  <2>3. \A q \in Queued : stage'[q] = stage[q] \/ stage'[q] \in {"called", "dropped"}
    BY <2>1 DEF CallClose, TypeOK
  <2> QED
    BY <2>2, <2>3
<1>7. SendsInv'
  <2>1. sent \in Seq(Requests) /\ \A i \in 1..Len(sent) : sent[i] \in Requests
    BY DEF TypeOK
  <2>2. \A i \in 1..Len(sent) : stage'[sent[i]] \in {"sent", "ok", "error"} /\ sent[i] # r
    <3> TAKE i \in 1..Len(sent)
    <3>1. stage[sent[i]] \in {"sent", "ok", "error"}
      BY DEF SentInv, SendsInv
    <3> QED
      BY <1>1, <1>5, <2>1, <3>1
  <2>3. connector \in Requests => stage'[connector] = "connecting"
    BY <1>5 DEF SentInv, SendsInv
  <2>4. CASE slot' = slot /\ eventCallback' = eventCallback /\ sent' = sent
    <3>1. \A q \in Requests : q \in {slot', eventCallback'} => stage'[q] \in {"sent", "ok", "error"}
      BY <1>5, <2>4 DEF SentInv, SendsInv
    <3> QED
      BY <1>1, <1>3, <1>6, <2>2, <2>3, <2>4, <3>1 DEF SentInv, SendsInv
  <2>5. CASE slot' = r /\ eventCallback' = r /\ sent' = Append(sent, r) /\ stage'[r] = "sent"
    <3>1. /\ \A i \in 1..Len(sent') : \/ i \in 1..Len(sent) /\ sent'[i] = sent[i]
                                      \/ i = Len(sent) + 1 /\ sent'[i] = r
          /\ Len(sent) + 1 \in 1..Len(sent') /\ sent'[Len(sent) + 1] = r
      BY <2>1, <2>5
    <3>2. \A i, j \in 1..Len(sent') : sent'[i] = sent'[j] => i = j
      BY <2>2, <3>1 DEF SentInv, SendsInv
    <3>3. \A i \in 1..Len(sent') : stage'[sent'[i]] \in {"sent", "ok", "error"}
      BY <2>2, <2>5, <3>1
    <3>4. \A q \in Requests : q \in {slot', eventCallback'} => stage'[q] \in {"sent", "ok", "error"}
      BY <2>5
    <3> QED
      BY <1>1, <1>3, <1>6, <2>3, <3>2, <3>3, <3>4 DEF SendsInv
  <2> QED
    BY <1>2, <2>4, <2>5
<1>8. CASE closer' = closer /\ \A i \in Internal : stage'[i] = stage[i] \/ i \in Queue!Waiting
  <2>1. ASSUME NEW i \in Internal, stage'[i] \notin {"idle", "ok", "error"}
        PROVE  stage'[closer[i]] = "closing"
    <3>1. stage[i] \notin {"idle", "ok", "error"}
      BY <1>8, <2>1, WaitingFacts
    <3>2. closer[i] \in Requests /\ stage[closer[i]] = "closing"
      BY <3>1, PlacesFacts DEF SentInv, ClosersInv
    <3> QED
      BY <1>5, <3>2
  <2>2. ASSUME NEW i \in Internal, closer[i] \in Requests PROVE stage'[closer[i]] # "idle"
    <3>1. stage[closer[i]] # "idle"
      BY <2>2 DEF SentInv, ClosersInv
    <3> QED
      BY <2>2, <3>1, StageGrows DEF Next
  <2>3. ClosersInv'
    BY <1>8, <2>1, <2>2 DEF SentInv, ClosersInv
  <2> QED
    BY <1>1, <1>7, <2>3, NoTasks DEF SentInv
<1>9. ASSUME NEW i \in Internal,
             stage[i] = "idle",
             closer' = [closer EXCEPT ![i] = r],
             stage' = [q \in Requests |-> IF q = r THEN "closing" ELSE IF q = i THEN "called"
                         ELSE IF q \in Queue!Waiting THEN "dropped" ELSE stage[q]]
      PROVE  SentInv'
  <2>1. \A j \in Internal : closer'[j] = IF j = i THEN r ELSE closer[j]
    BY <1>9 DEF TypeOK
  <2>2. \A j \in Internal : closer[j] # r
    BY <1>1 DEF SentInv, ClosersInv
  <2>3. ASSUME NEW j \in Internal, stage'[j] \notin {"idle", "ok", "error"}
        PROVE  stage'[closer'[j]] = "closing"
    <3>1. CASE j = i
      BY <1>9, <2>1, <3>1
    <3>2. CASE j # i
      <4>1. stage[j] \notin {"idle", "ok", "error"}
        BY <1>4, <1>9, <2>3, <3>2, WaitingFacts
      <4>2. closer[j] \in Requests /\ stage[closer[j]] = "closing"
        BY <4>1, PlacesFacts DEF SentInv, ClosersInv
      <4> QED
        BY <1>5, <2>1, <3>2, <4>2
    <3> QED
      BY <3>1, <3>2
  <2>4. ASSUME NEW j \in Internal, closer'[j] \in Requests PROVE stage'[closer'[j]] # "idle"
    <3>1. CASE j = i
      BY <1>5, <2>1, <3>1
    <3>2. CASE j # i
      <4>1. closer[j] \in Requests /\ stage[closer[j]] # "idle"
        BY <2>1, <2>4, <3>2 DEF SentInv, ClosersInv
      <4> QED
        BY <2>1, <3>2, <4>1, StageGrows DEF Next
    <3> QED
      BY <3>1, <3>2
  <2>5. \A j, k \in Internal : closer'[j] = closer'[k] /\ closer'[j] # NoRequest => j = k
    BY <2>1, <2>2 DEF SentInv, ClosersInv
  <2>6. ClosersInv'
    BY <2>3, <2>4, <2>5 DEF ClosersInv
  <2> QED
    BY <1>1, <1>7, <2>6, NoTasks DEF SentInv
<1>10. \/ stage' = [stage EXCEPT ![r] = "ok"] /\ closer' = closer
       \/ /\ stage' = [q \in Requests |-> IF q = r THEN "sent"
                         ELSE IF q \in Queue!Waiting THEN "dropped" ELSE stage[q]]
          /\ closer' = closer
       \/ \E i \in Internal :
             /\ stage[i] = "idle"
             /\ closer' = [closer EXCEPT ![i] = r]
             /\ stage' = [q \in Requests |-> IF q = r THEN "closing" ELSE IF q = i THEN "called"
                            ELSE IF q \in Queue!Waiting THEN "dropped" ELSE stage[q]]
  BY DEF CallClose
<1>11. CASE stage' = [stage EXCEPT ![r] = "ok"] /\ closer' = closer
  BY <1>4, <1>8, <1>11 DEF TypeOK
<1>12. CASE /\ stage' = [q \in Requests |-> IF q = r THEN "sent"
                          ELSE IF q \in Queue!Waiting THEN "dropped" ELSE stage[q]]
            /\ closer' = closer
  BY <1>4, <1>8, <1>12
<1> QED
  BY <1>9, <1>10, <1>11, <1>12

LEMMA MicrotaskKeepsSent ==
    ASSUME TypeOK, PlacesInv, SentInv, Microtask
    PROVE  SentInv'
<1>1. /\ micro # <<>> /\ micro' = Tail(micro)
      /\ UNCHANGED <<connector, closer>>
  BY DEF Microtask
<1> DEFINE task == Head(micro)
<1>2. /\ micro \in Seq(Tasks)
      /\ \A k \in 1..Len(micro) :
           IF micro[k].do = "done" THEN micro[k].of \in Queued ELSE Kind[micro[k].of] = "close"
  BY PlacesFacts DEF TasksOK, Tasks
<1>3. 1 \in 1..Len(micro) /\ task = micro[1] /\ task \in Tasks
  BY <1>1, <1>2
<1>4. /\ Len(micro) \in Nat /\ Len(micro') = Len(micro) - 1
      /\ \A k \in 1..Len(micro') : micro'[k] = micro[k + 1] /\ k + 1 \in 1..Len(micro)
  BY <1>1, <1>2, HeadTailProperties
<1>5. task.of \in Requests
  BY <1>3 DEF Tasks
<1> HIDE DEF task
<1>6. CASE task.do = "done" /\ Queue!Done(task.of) /\ UNCHANGED <<slot, eventCallback, stage, sent>>
  <2>1. runs' = runs
    BY <1>6 DEF Queue!Done
  <2>2. SendsInv' /\ ClosersInv'
    BY <1>1, <1>6, <2>1 DEF SentInv, SendsInv, ClosersInv
  <2>3. TasksInv'
    <3>1. ASSUME NEW k \in 1..Len(micro'), NEW l \in 1..Len(micro'),
                 micro'[k].do # "done", micro'[l].do # "done"
          PROVE  k = l
      <4>1. k + 1 = l + 1
        BY <1>4, <3>1 DEF SentInv, TasksInv
      <4> QED
        BY <4>1
    <3>2. ASSUME NEW k \in 1..Len(micro'), micro'[k].do # "done"
          PROVE  /\ stage[micro'[k].of] = "closing"
                 /\ \A i \in Internal : closer[i] = micro'[k].of => stage[i] \in {"ok", "error"}
      BY <1>4, <3>2 DEF SentInv, TasksInv
    <3> QED
      BY <1>1, <1>6, <3>1, <3>2 DEF TasksInv
  <2> QED
    BY <2>2, <2>3 DEF SentInv
<1>7. ASSUME task.do # "done" PROVE
         /\ task.of \notin Queued /\ task.of \notin Internal
         /\ stage[task.of] = "closing"
         /\ \A i \in Internal : closer[i] = task.of => stage[i] \in {"ok", "error"}
         /\ TasksInv'
         /\ connector' \in Requests => connector' # task.of
  <2>1. Kind[task.of] = "close"
    BY <1>2, <1>3, <1>7
  <2>2. task.of \notin Queued /\ task.of \notin Internal
    BY <1>5, <2>1, KindFacts, QueueAssumptions
  <2>3. /\ stage[task.of] = "closing"
        /\ \A i \in Internal : closer[i] = task.of => stage[i] \in {"ok", "error"}
    BY <1>3, <1>7 DEF SentInv, TasksInv
  <2>4. TasksInv'
    <3>1. \A k \in 1..Len(micro') : micro'[k].do = "done"
      <4> SUFFICES ASSUME NEW k \in 1..Len(micro'), micro'[k].do # "done" PROVE FALSE
        OBVIOUS
      <4>1. k + 1 = 1
        BY <1>3, <1>4, <1>7 DEF SentInv, TasksInv
      <4> QED
        BY <4>1
    <3> QED
      BY <3>1 DEF TasksInv
  <2>5. connector' \in Requests => connector' # task.of
    BY <1>1, <2>3 DEF SentInv, SendsInv
  <2> QED
    BY <2>2, <2>3, <2>4, <2>5
<1>8. CASE task.do = "closeDatabase" /\ Send(task.of, wire, link = "open") /\ UNCHANGED queueVars
  <2>1. runs' = runs
    BY <1>8 DEF queueVars
  <2> QED
    BY <1>1, <1>5, <1>7, <1>8, <2>1, SendKeepsSent
<1>9. CASE /\ task.do = "rejectClose"
           /\ stage' = [stage EXCEPT ![task.of] = "error"]
           /\ UNCHANGED <<queueVars, slot, eventCallback, sent>>
  <2>1. runs' = runs /\ slot' = slot /\ eventCallback' = eventCallback /\ sent' = sent
    BY <1>9 DEF queueVars
  <2>2. /\ \A p \in Requests : p # task.of => stage'[p] = stage[p]
        /\ stage'[task.of] = "error"
    BY <1>5, <1>9 DEF TypeOK
  <2>3. SendsInv'
    BY <1>1, <1>5, <1>7, <1>9, <2>1, <2>2, MoveKeepsSends DEF SentInv
  <2>4. ClosersInv'
    BY <1>1, <1>5, <1>7, <1>9, <2>2, MoveKeepsClosers DEF SentInv
  <2> QED
    BY <1>7, <1>9, <2>3, <2>4 DEF SentInv
<1> QED
  BY <1>6, <1>8, <1>9 DEF Microtask, task

LEMMA ConnectorKeepsSent ==
    ASSUME TypeOK, PlacesInv, SentInv, ConnectDone \/ ConnectFailed
    PROVE  SentInv'
<1>1. /\ connector \in Requests /\ connector' = NoRequest /\ NoRequest \notin Requests
      /\ stage[connector] = "connecting" /\ micro = <<>>
      /\ closer' = closer /\ runs' = runs
  BY SentFacts, KindFacts DEF ConnectDone, ConnectFailed, Quiet, queueVars
<1>2. connector \in Queued => runs[connector] # 0
  BY <1>1, SentFacts
<1>3. ASSUME NEW outcome \in {"ok", "error"}, Settle(connector, outcome),
             eventCallback' \in {eventCallback, "login", connector}, UNCHANGED <<slot, sent>>
      PROVE  SentInv'
  BY <1>1, <1>2, <1>3, SettleKeepsSent, KindFacts
<1>4. CASE Send(connector, <<>>, TRUE) /\ UNCHANGED micro
  BY <1>1, <1>2, <1>4, NoTasks, SendKeepsSent
<1>5. Proceed(connector, <<>>, "login") =>
         \/ Send(connector, <<>>, TRUE) /\ UNCHANGED micro
         \/ \E outcome \in {"ok", "error"} :
               /\ Settle(connector, outcome)
               /\ eventCallback' \in {"login", connector}
               /\ UNCHANGED <<slot, sent>>
  BY Zenon DEF Proceed
<1> QED
  BY <1>3, <1>4, <1>5 DEF ConnectDone, ConnectFailed

LEMMA AnswerKeepsSent ==
    ASSUME TypeOK, PlacesInv, SentInv,
           LoginTaken \/ Respond \/ SocketError \/ SocketEnd
    PROVE  SentInv'
<1>1. /\ UNCHANGED <<connector, closer, runs, sent>> /\ micro = <<>>
      /\ slot' = slot /\ eventCallback' \in {eventCallback, NoRequest}
  BY DEF LoginTaken, Respond, SocketError, SocketEnd, SocketDies, Quiet, queueVars
<1>2. \A r \in Requests : r \in {slot', eventCallback'} => r \in {slot, eventCallback}
  BY <1>1, KindFacts
<1>3. ASSUME NEW r \in Requests, NEW outcome \in {"ok", "error"}, Settle(r, outcome),
             stage[r] \in {"sent", "ok", "error"}
      PROVE  SentInv'
  <2>1. r \in Queued => runs[r] # 0
    BY <1>3, SentFacts
  <2>2. connector # r
    BY <1>3, KindFacts, SentFacts
  <2> QED
    BY <1>1, <1>2, <1>3, <2>1, <2>2, SettleKeepsSent
<1>4. CASE UNCHANGED <<stage, micro>>
  BY <1>1, <1>2, <1>4 DEF SentInv, SendsInv, ClosersInv, TasksInv
<1>5. CASE Respond
  <2>1. \/ UNCHANGED <<stage, micro>>
        \/ slot \in Requests /\ \E outcome \in {"ok", "error"} : Settle(slot, outcome)
    BY <1>5 DEF Respond, Outcomes, PlacesInv
  <2> QED
    BY <1>3, <1>4, <2>1, SentFacts
<1>6. CASE LoginTaken \/ SocketError
  <2>1. \/ UNCHANGED <<stage, micro>>
        \/ eventCallback \in Requests /\ \E outcome \in {"ok", "error"} : Settle(eventCallback, outcome)
    BY <1>6 DEF LoginTaken, SocketError
  <2> QED
    BY <1>3, <1>4, <2>1, SentFacts
<1>7. CASE SocketEnd
  <2>1. UNCHANGED <<stage, micro>> \/ \E r \in Requests : stage[r] = "sent" /\ Settle(r, "ok")
    BY <1>7 DEF SocketEnd
  <2> QED
    BY <1>3, <1>4, <2>1
<1> QED
  BY <1>5, <1>6, <1>7

LEMMA StepKeepsSent ==
    ASSUME TypeOK, PlacesInv, QueueInv, ~Queue!RepeatedDone, SentInv, [Next]_vars
    PROVE  SentInv'
<1>1. ASSUME NEW mode \in BOOLEAN, SetAutoCommitMode(mode) PROVE SentInv'
  BY <1>1 DEF SetAutoCommitMode, queueVars, callVars, SentInv, SendsInv, ClosersInv, TasksInv
<1>2. CASE UNCHANGED vars
  BY <1>2 DEF vars, queueVars, callVars, SentInv, SendsInv, ClosersInv, TasksInv
<1> QED
  BY <1>1, <1>2, CallQueuedKeepsSent, CallVersionKeepsSent, CallCloseKeepsSent, RunItemKeepsSent,
     MicrotaskKeepsSent, ConnectorKeepsSent, AnswerKeepsSent
  DEF Next

LEMMA InitSent == Init => SentInv
<1> SUFFICES ASSUME Init PROVE SentInv
  OBVIOUS
<1>1. /\ sent = <<>> /\ slot = NoRequest /\ eventCallback = NoRequest /\ connector = NoRequest
      /\ micro = <<>> /\ \A r \in Requests : stage[r] = "idle"
      /\ \A i \in Internal : closer[i] = NoRequest
  BY DEF Init
<1>2. SendsInv
  BY <1>1, KindFacts DEF SendsInv
<1>3. ClosersInv
  BY <1>1, KindFacts, QueueAssumptions DEF ClosersInv
<1>4. TasksInv
  BY <1>1 DEF TasksInv
<1> QED
  BY <1>2, <1>3, <1>4 DEF SentInv

LEMMA UntilRepeatedHolds == Spec => []UntilRepeated
<1>1. Init /\ QueueInv => UntilRepeated
  BY InitSent DEF UntilRepeated
<1>2. TypeOK /\ PlacesInv /\ UntilRepeated /\ [Next]_vars => UntilRepeated'
  <2> SUFFICES ASSUME TypeOK, PlacesInv, UntilRepeated, [Next]_vars PROVE UntilRepeated'
    OBVIOUS
  <2>1. QueueInv' /\ (Queue!RepeatedDone => Queue!RepeatedDone')
    BY StepKeepsQueueInv DEF UntilRepeated
  <2>2. ~Queue!RepeatedDone => SentInv'
    BY StepKeepsSent DEF UntilRepeated
  <2> QED
    BY <2>1, <2>2 DEF UntilRepeated
<1> QED
  BY <1>1, <1>2, PlacesHold, QueueInvHolds, PTL DEF Spec

\* No request is sent a second time unless some request called its `done` a
\* second time, whatever shares the connection and whatever happens to it.
THEOREM ResendsNeedRepeatedDone == Spec => []OnlyRepeatedDoneResends
<1>1. TypeOK /\ UntilRepeated => OnlyRepeatedDoneResends
  <2> SUFFICES ASSUME TypeOK, SentInv PROVE SentOnce
    BY DEF UntilRepeated, OnlyRepeatedDoneResends
  <2>1. DOMAIN sent = 1..Len(sent)
    BY DEF TypeOK
  <2> QED
    BY <2>1 DEF SentInv, SendsInv, SentOnce, IsInjective
<1> QED
  BY <1>1, PlacesHold, UntilRepeatedHolds, PTL

-----------------------------------------------------------------------------
(* Requests that call their `done` once.                                     *)

LEMMA MoreRunsRepeatNothing ==
    ASSUME TypeOK, ~Queue!RepeatedDone, dones' = dones,
           runs' = runs \/ runs' = [runs EXCEPT ![currentItem] = @ + 1]
    PROVE  ~Queue!RepeatedDone'
<1>1. \A r \in Queued : runs[r] \in Nat /\ dones[r] \in Nat /\ dones[r] <= runs[r]
  BY DEF TypeOK, Queue!TypeOK, Queue!RepeatedDone
<1>2. \A r \in Queued : runs'[r] = runs[r] \/ runs'[r] = runs[r] + 1
  BY DEF TypeOK, Queue!TypeOK
<1>3. \A r \in Queued : dones'[r] <= runs'[r]
  BY <1>1, <1>2
<1>4. \A r \in Queued : ~(dones'[r] > runs'[r])
  BY <1>1, <1>2
<1> QED
  BY <1>4 DEF Queue!RepeatedDone

\* A step without an answer calls no `done`.
LEMMA UnansweredKeepsDone ==
    ASSUME TypeOK, DoneInv, dones' = dones, ~Queue!RepeatedDone', micro' = <<>>,
           \A q \in Requests : stage[q] \in {"ok", "error"} => stage'[q] = stage[q]
    PROVE  DoneInv'
<1>1. \A r \in Queued : dones'[r] > 0 => dones'[r] = 1 /\ Answered(r)'
  BY KindFacts DEF DoneInv, Answered
<1> QED
  BY <1>1 DEF DoneInv

\* The first answer of a call makes it call its `done`.
LEMMA SettleKeepsDone ==
    ASSUME CallDoneOnce, TypeOK, PlacesInv, DoneInv, NEW q \in Requests,
           NEW outcome \in {"ok", "error"}, Settle(q, outcome),
           dones' = dones, ~Queue!RepeatedDone'
    PROVE  DoneInv'
<1>1. CASE Answered(q)
  <2>1. stage' = stage /\ micro' = <<>>
    BY <1>1 DEF Settle, CallDoneOnce
  <2> QED
    BY <2>1, UnansweredKeepsDone
<1>2. CASE ~Answered(q)
  <2>1. stage' = [stage EXCEPT ![q] = outcome] /\ micro' = Followers(q, outcome)
    BY <1>2 DEF Settle
  <2>2. /\ stage'[q] \in {"ok", "error"}
        /\ \A r \in Requests : stage[r] \in {"ok", "error"} => stage'[r] \in {"ok", "error"}
    BY <2>1 DEF TypeOK
  <2>3. \A r \in Queued : dones'[r] > 0 => dones'[r] = 1 /\ stage'[r] \in {"ok", "error"}
    BY <2>2, KindFacts DEF DoneInv, Answered
  <2>4. q \in Queued => dones'[q] = 0
    <3>1. q \in Queued => dones[q] \in Nat
      BY DEF TypeOK, Queue!TypeOK
    <3> QED
      BY <1>2, <3>1 DEF DoneInv
  <2>5. \A k \in 1..Len(micro') :
           micro'[k].do = "done" =>
              k = 1 /\ dones'[micro'[k].of] = 0 /\ stage'[micro'[k].of] \in {"ok", "error"}
    <3>1. Done(q).do = "done" /\ Done(q).of = q
      BY DEF Done
    <3>2. CASE q \in Internal
      <4> DEFINE second == [do |-> IF outcome = "ok" THEN "closeDatabase" ELSE "rejectClose",
                            of |-> closer[q]]
      <4>1. micro' = <<Done(q), second>> /\ second.do # "done"
        BY <2>1, <3>2, KindFacts DEF Followers
      <4> HIDE DEF second
      <4>2. Len(micro') = 2 /\ micro'[1] = Done(q) /\ micro'[2] = second
        BY <4>1
      <4>3. \A k \in 1..Len(micro') : micro'[k].do = "done" => k = 1 /\ micro'[k].of = q
        BY <3>1, <4>1, <4>2
      <4>4. q \in Queued
        BY <3>2, KindFacts, QueueAssumptions
      <4> QED
        BY <2>2, <2>4, <4>3, <4>4
    <3>3. CASE q \notin Internal /\ q \in Queued
      <4>1. micro' = <<Done(q)>>
        BY <2>1, <3>3 DEF Followers, CallDoneOnce
      <4>2. \A k \in 1..Len(micro') : k = 1 /\ micro'[k] = Done(q)
        BY <4>1
      <4> QED
        BY <2>2, <2>4, <3>1, <3>3, <4>2
    <3>4. CASE q \notin Internal /\ q \notin Queued
      <4>1. micro' = <<>>
        BY <2>1, <3>4 DEF Followers, CallDoneOnce
      <4> QED
        BY <4>1
    <3> QED
      BY <3>2, <3>3, <3>4
  <2> QED
    BY <2>3, <2>5 DEF DoneInv, Answered
<1> QED
  BY <1>1, <1>2

LEMMA SendKeepsDone ==
    ASSUME TypeOK, DoneInv, NEW q \in Requests, NEW line, NEW live, Send(q, line, live),
           stage[q] \notin {"ok", "error"}, dones' = dones, ~Queue!RepeatedDone', micro' = <<>>
    PROVE  DoneInv'
<1>1. stage' = [stage EXCEPT ![q] = "sent"]
  BY DEF Send
<1>2. \A r \in Requests : stage[r] \in {"ok", "error"} => stage'[r] = stage[r]
  BY <1>1 DEF TypeOK
<1> QED
  BY <1>2, UnansweredKeepsDone

LEMMA ProceedKeepsDone ==
    ASSUME CallDoneOnce, TypeOK, PlacesInv, DoneInv, NEW q \in Requests, NEW line, NEW left,
           Proceed(q, line, left), micro = <<>>,
           stage[q] \notin {"ok", "error"}, dones' = dones, ~Queue!RepeatedDone'
    PROVE  DoneInv'
<1>1. \/ Send(q, line, TRUE) /\ micro' = micro
      \/ \E outcome \in {"ok", "error"} : Settle(q, outcome)
  BY Zenon DEF Proceed
<1> QED
  BY <1>1, SendKeepsDone, SettleKeepsDone

LEMMA ConnectKeepsDone ==
    ASSUME CallDoneOnce, TypeOK, PlacesInv, DoneInv, NEW q \in Requests, Connect(q),
           micro = <<>>, stage[q] \notin {"ok", "error"}, dones' = dones, ~Queue!RepeatedDone'
    PROVE  DoneInv'
<1>1. CASE Proceed(q, wire, eventCallback) \/ Settle(q, "error")
  BY <1>1, ProceedKeepsDone, SettleKeepsDone
<1>2. CASE stage' = [stage EXCEPT ![q] = "connecting"] /\ micro' = micro
  <2>1. \A r \in Requests : stage[r] \in {"ok", "error"} => stage'[r] = stage[r]
    BY <1>2 DEF TypeOK
  <2> QED
    BY <1>2, <2>1, UnansweredKeepsDone
<1> QED
  BY <1>1, <1>2 DEF Connect

LEMMA RunItemFacts ==
    ASSUME TypeOK, PlacesInv, QueueInv, ~Queue!RepeatedDone, SentInv, RunItem
    PROVE  /\ currentItem \in Queued /\ currentItem \in Requests /\ currentItem # NoRequest
           /\ runs[currentItem] = 0 /\ dones[currentItem] = 0 /\ micro = <<>>
           /\ stage[currentItem] \in {"called", "dropped"}
           /\ runs' = [runs EXCEPT ![currentItem] = @ + 1]
           /\ dones' = dones
           /\ \A r \in Queued : dones[r] >= runs[r]
<1>1. /\ immediates > 0 /\ node = "up" /\ QP!SerialInv /\ micro = <<>> /\ dones' = dones
  BY SameQueue DEF RunItem, Queue!RunImmediate, QueueInv, QP!IInv, Quiet
<1>2. currentItem \in Queued /\ currentItem \in Requests /\ runs[currentItem] = 0
  <2>1. QP!Claimed
    BY <1>1 DEF QP!SerialInv
  <2> QED
    BY <2>1, KindFacts DEF QP!Claimed, TypeOK, Queue!TypeOK
<1>3. currentItem # NoRequest
  BY <1>2, QueueAssumptions
<1>4. dones[currentItem] = 0
  BY <1>2 DEF QueueInv, QP!IInv, QP!LineInv
<1>5. \A r \in Queued : dones[r] >= runs[r]
  <2>1. \A r \in Queued : ~QP!Running(r)
    BY <1>1, <1>2, <1>4 DEF QP!SerialInv, QP!Running
  <2> QED
    BY <2>1 DEF QP!Running, TypeOK, Queue!TypeOK
<1> QED
  BY <1>1, <1>2, <1>3, <1>4, <1>5, PlacesFacts DEF RunItem, Queue!RunImmediate, SentInv, SendsInv

LEMMA CallKeepsDone ==
    ASSUME CallDoneOnce, TypeOK, PlacesInv, QueueInv, SentInv, DoneInv,
           NEW r \in Requests, CallQueued(r) \/ CallVersion(r) \/ CallClose(r)
    PROVE  DoneInv'
<1>1. stage[r] = "idle" /\ micro = <<>> /\ dones' = dones /\ runs' = runs
  BY DEF CallQueued, CallVersion, CallClose, Quiet, queueVars,
         Queue!Push, Queue!Unshift, Queue!Accept, Queue!Empty
<1>2. ~Queue!RepeatedDone'
  BY <1>1, MoreRunsRepeatNothing DEF DoneInv
<1>3. CASE CallQueued(r)
  <2>1. stage' = [stage EXCEPT ![r] = "called"] /\ micro' = micro
    BY <1>3 DEF CallQueued
  <2>2. \A q \in Requests : stage[q] \in {"ok", "error"} => stage'[q] = stage[q]
    BY <1>1, <2>1 DEF TypeOK
  <2> QED
    BY <1>1, <1>2, <2>1, <2>2, UnansweredKeepsDone
<1>4. CASE CallVersion(r)
  BY <1>1, <1>2, <1>4, ConnectKeepsDone DEF CallVersion
<1>5. CASE CallClose(r)
  <2>1. \A q \in Requests : stage[q] \in {"ok", "error"} => q # r /\ q \notin Queue!Waiting
    BY <1>1, WaitingFacts
  <2>2. \A q \in Requests : stage[q] \in {"ok", "error"} => stage'[q] = stage[q]
    BY <1>5, <2>1 DEF CallClose, TypeOK
  <2>3. micro' = micro
    BY <1>5 DEF CallClose
  <2> QED
    BY <1>1, <1>2, <2>2, <2>3, UnansweredKeepsDone
<1> QED
  BY <1>3, <1>4, <1>5

LEMMA RunItemKeepsDone ==
    ASSUME CallDoneOnce, TypeOK, PlacesInv, QueueInv, SentInv, DoneInv, RunItem
    PROVE  DoneInv'
<1>1. /\ currentItem \in Requests /\ currentItem # NoRequest /\ micro = <<>>
      /\ stage[currentItem] \notin {"ok", "error"} /\ dones' = dones
      /\ runs' = [runs EXCEPT ![currentItem] = @ + 1]
  BY RunItemFacts DEF DoneInv
<1>2. ~Queue!RepeatedDone'
  BY <1>1, MoreRunsRepeatNothing DEF DoneInv
<1>3. CASE Connect(currentItem)
  BY <1>1, <1>2, <1>3, ConnectKeepsDone
<1>4. CASE EndTransaction(currentItem)
  <2>1. \/ Settle(currentItem, "error")
        \/ Send(currentItem, wire, link = "open") /\ micro' = micro
    BY <1>4 DEF EndTransaction
  <2> QED
    BY <1>1, <1>2, <2>1, SendKeepsDone, SettleKeepsDone
<1> QED
  BY <1>1, <1>3, <1>4 DEF RunItem

LEMMA MicrotaskKeepsDone ==
    ASSUME TypeOK, PlacesInv, SentInv, DoneInv, Microtask
    PROVE  DoneInv'
<1>1. /\ micro # <<>> /\ micro' = Tail(micro)
  BY DEF Microtask
<1> DEFINE task == Head(micro)
<1>2. /\ micro \in Seq(Tasks)
      /\ \A k \in 1..Len(micro) :
           IF micro[k].do = "done" THEN micro[k].of \in Queued ELSE Kind[micro[k].of] = "close"
  BY PlacesFacts DEF TasksOK, Tasks
<1>3. 1 \in 1..Len(micro) /\ task = micro[1] /\ task \in Tasks
  BY <1>1, <1>2
<1>4. /\ Len(micro) \in Nat
      /\ \A k \in 1..Len(micro') : micro'[k] = micro[k + 1] /\ k + 1 \in 1..Len(micro)
  BY <1>1, <1>2, HeadTailProperties
<1>5. \A k \in 1..Len(micro') : micro'[k].do # "done"
  <2> SUFFICES ASSUME NEW k \in 1..Len(micro'), micro'[k].do = "done" PROVE FALSE
    OBVIOUS
  <2>1. k + 1 = 1
    BY <1>4 DEF DoneInv
  <2> QED
    BY <2>1
<1> HIDE DEF task
<1>6. CASE task.do = "done" /\ Queue!Done(task.of) /\ stage' = stage
  <2>1. task.of \in Queued /\ dones[task.of] = 0 /\ stage[task.of] \in {"ok", "error"}
    BY <1>2, <1>3, <1>6 DEF DoneInv, Answered
  <2>2. /\ dones' = [dones EXCEPT ![task.of] = @ + 1] /\ runs' = runs
        /\ dones[task.of] < 9 * runs[task.of]
    BY <1>6 DEF Queue!Done
  <2>3. \A q \in Queued : runs[q] \in Nat /\ dones[q] \in Nat /\ dones[q] <= runs[q]
    BY DEF DoneInv, TypeOK, Queue!TypeOK, Queue!RepeatedDone
  <2>4. \A q \in Queued : dones'[q] = IF q = task.of THEN 1 ELSE dones[q]
    BY <2>1, <2>2 DEF TypeOK, Queue!TypeOK
  <2>5. runs[task.of] >= 1
    BY <2>1, <2>2, <2>3
  <2>6. \A q \in Queued : ~(dones'[q] > runs'[q])
    BY <2>2, <2>3, <2>4, <2>5
  <2>7. \A q \in Queued : dones'[q] > 0 => dones'[q] = 1 /\ stage'[q] \in {"ok", "error"}
    BY <1>6, <2>1, <2>4 DEF DoneInv, Answered
  <2> QED
    BY <1>5, <2>6, <2>7 DEF DoneInv, Answered, Queue!RepeatedDone
<1>7. CASE task.do # "done" /\ UNCHANGED queueVars
           /\ \E new \in Stages : stage' = [stage EXCEPT ![task.of] = new]
  <2>1. task.of \notin Queued
    BY <1>2, <1>3, <1>7, KindFacts
  <2>2. dones' = dones /\ runs' = runs
    BY <1>7 DEF queueVars
  <2>3. \A q \in Queued : stage'[q] = stage[q]
    BY <1>7, <2>1, KindFacts DEF TypeOK
  <2>4. ~Queue!RepeatedDone'
    BY <2>2, MoreRunsRepeatNothing DEF DoneInv
  <2>5. \A q \in Queued : dones'[q] > 0 => dones'[q] = 1 /\ stage'[q] \in {"ok", "error"}
    BY <2>2, <2>3 DEF DoneInv, Answered
  <2> QED
    BY <1>5, <2>4, <2>5 DEF DoneInv, Answered
<1> QED
  BY <1>6, <1>7 DEF Microtask, task, Send, Stages

LEMMA EventKeepsDone ==
    ASSUME CallDoneOnce, TypeOK, PlacesInv, SentInv, DoneInv,
           ConnectDone \/ ConnectFailed \/ LoginTaken \/ Respond \/ SocketError \/ SocketEnd
    PROVE  DoneInv'
<1>1. micro = <<>> /\ dones' = dones /\ runs' = runs
  BY DEF ConnectDone, ConnectFailed, LoginTaken, Respond, SocketError, SocketEnd, SocketDies,
         Quiet, queueVars
<1>2. ~Queue!RepeatedDone'
  BY <1>1, MoreRunsRepeatNothing DEF DoneInv
<1>3. ASSUME NEW q \in Requests, NEW outcome \in {"ok", "error"}, Settle(q, outcome)
      PROVE  DoneInv'
  BY <1>1, <1>2, <1>3, SettleKeepsDone
<1>4. CASE UNCHANGED <<stage, micro>>
  BY <1>1, <1>2, <1>4, UnansweredKeepsDone
<1>5. CASE ConnectDone \/ ConnectFailed
  <2>1. connector \in Requests /\ stage[connector] \notin {"ok", "error"}
    BY <1>5, SentFacts DEF ConnectDone, ConnectFailed
  <2> QED
    BY <1>1, <1>2, <1>3, <1>5, <2>1, ProceedKeepsDone DEF ConnectDone, ConnectFailed
<1>6. CASE Respond
  <2>1. \/ UNCHANGED <<stage, micro>>
        \/ slot \in Requests /\ \E outcome \in {"ok", "error"} : Settle(slot, outcome)
    BY <1>6 DEF Respond, Outcomes, PlacesInv
  <2> QED
    BY <1>3, <1>4, <2>1
<1>7. CASE LoginTaken \/ SocketError
  <2>1. \/ UNCHANGED <<stage, micro>>
        \/ eventCallback \in Requests /\ \E outcome \in {"ok", "error"} : Settle(eventCallback, outcome)
    BY <1>7 DEF LoginTaken, SocketError
  <2> QED
    BY <1>3, <1>4, <2>1
<1>8. CASE SocketEnd
  <2>1. UNCHANGED <<stage, micro>> \/ \E r \in Requests : Settle(r, "ok")
    BY <1>8 DEF SocketEnd
  <2> QED
    BY <1>3, <1>4, <2>1
<1> QED
  BY <1>5, <1>6, <1>7, <1>8

LEMMA StepKeepsDone ==
    ASSUME CallDoneOnce, TypeOK, PlacesInv, QueueInv, SentInv, DoneInv, [Next]_vars
    PROVE  DoneInv'
<1>1. ASSUME UNCHANGED <<runs, dones, stage, micro>> PROVE DoneInv'
  BY <1>1 DEF DoneInv, Answered, Queue!RepeatedDone
<1>2. ASSUME NEW mode \in BOOLEAN, SetAutoCommitMode(mode) PROVE DoneInv'
  BY <1>1, <1>2 DEF SetAutoCommitMode, queueVars, callVars
<1>3. CASE UNCHANGED vars
  BY <1>1, <1>3 DEF vars, queueVars, callVars
<1> QED
  BY <1>2, <1>3, CallKeepsDone, RunItemKeepsDone, MicrotaskKeepsDone, EventKeepsDone DEF Next

LEMMA DoneHolds == ASSUME CallDoneOnce PROVE Spec => []DoneInv
<1>1. Init => DoneInv
  BY DEF Init, Queue!Init, DoneInv, Queue!RepeatedDone
<1>2. TypeOK /\ PlacesInv /\ UntilRepeated /\ DoneInv /\ [Next]_vars => DoneInv'
  BY CallDoneOnce, StepKeepsDone DEF UntilRepeated, DoneInv
<1> QED
  BY <1>1, <1>2, PlacesHold, UntilRepeatedHolds, PTL DEF Spec

\* Requests whose code calls `done` once are sent once each, whatever shares the
\* connection and whatever happens to it: an INSERT is executed once.
THEOREM SentOnceEach == ASSUME CallDoneOnce PROVE Spec => []SentOnce
<1>1. DoneInv /\ OnlyRepeatedDoneResends => SentOnce
  BY DEF DoneInv, OnlyRepeatedDoneResends
<1> QED
  BY <1>1, CallDoneOnce, DoneHolds, ResendsNeedRepeatedDone, PTL

-----------------------------------------------------------------------------
(* The serial executor in the hands of the pipeline.                         *)

LEMMA SameExecutor ==
    /\ QP!Executor!Init <=> Queue!Executor!Init
    /\ [QP!Executor!Next]_(QP!Executor!vars) <=> [Queue!Executor!Next]_(Queue!Executor!vars)
  BY Zenon
  DEF QP!Claimed, Queue!Claimed, QP!Running, Queue!Running,
      QP!Executor!Init, QP!Executor!Next, QP!Executor!vars, QP!Executor!Fresh,
      QP!Executor!Submit, QP!Executor!SubmitUrgent, QP!Executor!Start, QP!Executor!Finish,
      QP!Executor!Discard,
      Queue!Executor!Init, Queue!Executor!Next, Queue!Executor!vars, Queue!Executor!Fresh,
      Queue!Executor!Submit, Queue!Executor!SubmitUrgent, Queue!Executor!Start,
      Queue!Executor!Finish, Queue!Executor!Discard

\* Every handler is one step of the queue, or none, when no close() closes
\* queries through it.
LEMMA StepIsQueueStep ==
    ASSUME Internal = {}, TypeOK, PlacesInv, [Next]_vars
    PROVE  QueueStep
<1>1. CASE RunItem
  BY <1>1 DEF RunItem, QueueStep
<1>2. ASSUME NEW r \in Requests, CallQueued(r) PROVE QueueStep
  BY <1>2 DEF CallQueued, QueueStep
<1>3. ASSUME NEW r \in Requests, CallClose(r) PROVE QueueStep
  BY <1>3, Internal = {} DEF CallClose, QueueStep
<1>4. CASE Microtask
  <2>1. UNCHANGED queueVars \/ (Head(micro).do = "done" /\ Queue!Done(Head(micro).of))
    BY <1>4 DEF Microtask
  <2>2. Head(micro).do = "done" => Head(micro).of \in Queued
    <3>1. micro \in Seq(Tasks) /\ micro # <<>>
          /\ \A k \in 1..Len(micro) : micro[k].do = "done" => micro[k].of \in Queued
      BY <1>4, PlacesFacts DEF Microtask, TasksOK, Tasks
    <3>2. 1 \in 1..Len(micro) /\ Head(micro) = micro[1]
      BY <3>1
    <3> QED
      BY <3>1, <3>2
  <2> QED
    BY <2>1, <2>2 DEF QueueStep
<1> QED
  BY <1>1, <1>2, <1>3, <1>4
  DEF QueueStep, Next, vars, CallVersion, SetAutoCommitMode, ConnectDone, ConnectFailed, LoginTaken,
      Respond, SocketError, SocketEnd, SocketDies

\* A step that does not repeat a `done` calls the one of an item that runs.
LEMMA DoneIsOfRunning ==
    ASSUME Queue!TypeOK, ~Queue!RepeatedDone', NEW r \in Queued, QP!Done(r)
    PROVE  dones[r] < runs[r]
<1>1. runs' = runs /\ dones' = [dones EXCEPT ![r] = @ + 1]
  BY DEF QP!Done
<1>2. runs[r] \in Nat /\ dones[r] \in Nat /\ dones'[r] = dones[r] + 1 /\ ~(dones'[r] > runs'[r])
  BY <1>1 DEF Queue!TypeOK, Queue!RepeatedDone
<1> QED
  BY <1>1, <1>2

\* The pipeline drives the queue as the serial executor promises: its requests
\* run one at a time, each once, in order, and call their `done` while they run.
THEOREM SerialInTheirHands ==
    ASSUME CallDoneOnce, Internal = {} PROVE Spec => SerialisesRequests
<1>1. Init => Queue!Executor!Init
  <2>1. Init => QP!Init
    BY DEF Init, Queue!Init, QP!Init
  <2> QED
    BY <2>1, QueueAssumptions, QP!InitRefines, SameExecutor
<1>2. TypeOK /\ PlacesInv /\ QueueInv /\ DoneInv /\ DoneInv' /\ [Next]_vars
        => [Queue!Executor!Next]_(Queue!Executor!vars)
  <2> SUFFICES ASSUME TypeOK, PlacesInv, QueueInv, DoneInv, DoneInv', [Next]_vars
               PROVE  [Queue!Executor!Next]_(Queue!Executor!vars)
    OBVIOUS
  <2>1. [QP!Next]_(QP!vars)
    BY Internal = {}, StepIsQueueStep, QueueStepIsStep
  <2>2. QP!Inv
    <3>1. QP!DonesBounded
      BY DEF DoneInv, Queue!RepeatedDone, QP!DonesBounded, TypeOK, Queue!TypeOK
    <3> QED
      BY <3>1, SameQueue DEF TypeOK, QueueInv, QP!Inv
  <2>3. \A r \in Queued : QP!Done(r) => dones[r] < runs[r]
    BY DoneIsOfRunning DEF TypeOK, DoneInv
  <2>4. [QP!Executor!Next]_(QP!Executor!vars)
    BY <2>1, <2>2, <2>3, QueueAssumptions, QP!StepRefines
  <2> QED
    BY <2>4, SameExecutor
<1>3. Spec => []DoneInv
  BY CallDoneOnce, DoneHolds
<1> QED
  BY <1>1, <1>2, <1>3, PlacesHold, QueueInvHolds, PTL
  DEF Spec, SerialisesRequests, Queue!ImplementsExecutor, Queue!Executor!Spec

-----------------------------------------------------------------------------
(* Requests that keep to the queue are heard.                                *)

LEMMA NobodyAwaited ==
    ASSUME \A r \in Requests : stage'[r] \notin {"connecting", "sent"}, wire' = <<>>
    PROVE  AwaitInv'
  BY DEF AwaitInv, Awaited

LEMMA OneAwaited ==
    ASSUME NEW r \in Requests, \A q \in Requests : q # r => stage'[q] \notin {"connecting", "sent"},
           currentItem' = r, runs'[r] = 1, dones'[r] = 0, micro' = <<>>,
           \/ stage'[r] = "connecting" /\ connector' = r /\ wire' = <<>>
           \/ stage'[r] = "sent" /\ Heard(r)'
           \/ stage'[r] = "sent" /\ r \in cut' /\ link' = "closed" /\ wire' = <<>>
    PROVE  AwaitInv'
  BY DEF AwaitInv, Awaited, Heard

\* The item that runs is settled, and nothing is left on the wire.
LEMMA SettleKeepsAwait ==
    ASSUME KeepToTheQueue, TypeOK, NEW r \in Requests, NEW outcome \in {"ok", "error"},
           Settle(r, outcome), wire' = <<>>,
           \A q \in Requests : q # r => ~Awaited(q)
    PROVE  AwaitInv'
<1>1. \/ stage' = stage /\ stage[r] \in {"ok", "error"}
      \/ stage' = [stage EXCEPT ![r] = outcome]
  BY DEF Settle, Answered
<1>2. \A q \in Requests : stage'[q] \notin {"connecting", "sent"}
  BY <1>1 DEF TypeOK, Awaited
<1> QED
  BY <1>2, NobodyAwaited

\* It goes on with a socket of its own.
LEMMA ProceedKeepsAwait ==
    ASSUME KeepToTheQueue, TypeOK, NEW r \in Requests, NEW left, Proceed(r, <<>>, left), link' = "open",
           \A q \in Requests : q # r => ~Awaited(q),
           currentItem' = r, runs'[r] = 1, dones'[r] = 0, micro = <<>>
    PROVE  AwaitInv'
<1>1. CASE Send(r, <<>>, TRUE) /\ micro' = micro
  <2>1. stage' = [stage EXCEPT ![r] = "sent"]
        /\ wire' = <<r>> /\ listening' /\ slot' = r /\ eventCallback' = r
    BY <1>1 DEF Send
  <2>2. stage'[r] = "sent" /\ \A q \in Requests : q # r => stage'[q] \notin {"connecting", "sent"}
    BY <2>1 DEF TypeOK, Awaited
  <2>3. Heard(r)'
    BY <2>1 DEF Heard
  <2> QED
    BY <1>1, <2>2, <2>3, OneAwaited
<1>2. ASSUME NEW outcome \in {"ok", "error"}, Settle(r, outcome), wire' = <<>>
      PROVE  AwaitInv'
  BY <1>2, SettleKeepsAwait
<1>3. \/ Send(r, <<>>, TRUE) /\ micro' = micro
      \/ \E outcome \in {"ok", "error"} : Settle(r, outcome) /\ wire' = <<>>
  BY Zenon DEF Proceed
<1> QED
  BY <1>1, <1>2, <1>3

LEMMA CallQueuedKeepsAwait ==
    ASSUME TypeOK, PlacesInv, AwaitInv, NEW r \in Requests, CallQueued(r)
    PROVE  AwaitInv'
<1>1. /\ stage' = [stage EXCEPT ![r] = "called"] /\ stage[r] = "idle" /\ micro' = micro
      /\ UNCHANGED <<runs, dones, wire, listening, link, slot, eventCallback, cut,
                   connector>>
  BY DEF CallQueued, Queue!Push, Queue!Unshift, Queue!Accept, socketVars
<1>2. currentItem # NoRequest => currentItem' = currentItem
  BY DEF CallQueued, Queue!Push, Queue!Unshift, Queue!Process
<1>3. \A q \in Requests : Awaited(q) => currentItem' = q
  BY <1>2, KindFacts DEF AwaitInv
<1>4. \A q \in Requests : /\ stage'[q] = stage[q] \/ stage'[q] = "called"
                          /\ stage[q] = "sent" => stage'[q] = "sent"
  BY <1>1 DEF TypeOK
<1>5. \A q \in Requests :
         Awaited(q)' => Awaited(q) /\ currentItem' = q /\ runs'[q] = 1 /\ dones'[q] = 0 /\ micro' = <<>>
  BY <1>1, <1>3, <1>4 DEF AwaitInv, Awaited
<1>6. \A q \in Requests :
         stage'[q] = "sent" => Heard(q)' \/ (q \in cut' /\ link' = "closed" /\ wire' = <<>>)
  BY <1>1, <1>4 DEF AwaitInv, Heard
<1>7. wire' # <<>> => \E q \in Requests : stage'[q] = "sent" /\ wire' = <<q>>
  BY <1>1, <1>4 DEF AwaitInv
<1>8. \A q \in Requests : stage'[q] = "connecting" => connector' = q
  BY <1>1, <1>4 DEF AwaitInv
<1> QED
  BY <1>5, <1>6, <1>7, <1>8 DEF AwaitInv

LEMMA RunItemKeepsAwait ==
    ASSUME KeepToTheQueue, TypeOK, PlacesInv, QueueInv, SentInv, DoneInv, AwaitInv, RunItem
    PROVE  AwaitInv'
<1>1. /\ currentItem \in Requests /\ currentItem # NoRequest /\ micro = <<>>
      /\ currentItem \in Queued /\ currentItem' = currentItem
      /\ runs' = [runs EXCEPT ![currentItem] = @ + 1] /\ runs[currentItem] = 0
      /\ dones' = dones /\ dones[currentItem] = 0
      /\ \A r \in Queued : dones[r] >= runs[r]
  BY RunItemFacts DEF DoneInv, RunItem, Queue!RunImmediate
<1>2. runs'[currentItem] = 1 /\ dones'[currentItem] = 0
  BY <1>1 DEF TypeOK, Queue!TypeOK
<1>3. \A r \in Requests : ~Awaited(r)
  BY <1>1 DEF AwaitInv
<1>4. wire = <<>>
  BY <1>3 DEF AwaitInv, Awaited
<1>5. Connect(currentItem)
  BY <1>1 DEF RunItem, KeepToTheQueue
<1>6. CASE link = "open" /\ Proceed(currentItem, wire, eventCallback) /\ UNCHANGED <<link, connector>>
  BY <1>1, <1>2, <1>3, <1>4, <1>6, ProceedKeepsAwait
<1>7. CASE Settle(currentItem, "error") /\ wire' = wire
  BY <1>1, <1>3, <1>4, <1>7, SettleKeepsAwait
<1>8. CASE /\ stage' = [stage EXCEPT ![currentItem] = "connecting"] /\ connector' = currentItem
           /\ wire' = wire /\ micro' = micro
  <2>1. /\ stage'[currentItem] = "connecting"
        /\ \A q \in Requests : q # currentItem => stage'[q] \notin {"connecting", "sent"}
    BY <1>1, <1>3, <1>8 DEF TypeOK, Awaited
  <2> QED
    BY <1>1, <1>2, <1>4, <1>8, <2>1, OneAwaited
<1> QED
  BY <1>5, <1>6, <1>7, <1>8 DEF Connect, socketVars

LEMMA MicrotaskKeepsAwait ==
    ASSUME KeepToTheQueue, TypeOK, PlacesInv, AwaitInv, Microtask
    PROVE  AwaitInv'
<1>1. micro # <<>> /\ micro \in Seq(Tasks)
      /\ \A k \in 1..Len(micro) : micro[k].do # "done" => Kind[micro[k].of] = "close"
  BY PlacesFacts DEF Microtask, TasksOK, Tasks
<1>2. 1 \in 1..Len(micro) /\ Head(micro) = micro[1] /\ Head(micro) \in Tasks
  BY <1>1
<1>3. Head(micro).of \in Requests
  BY <1>2 DEF Tasks
<1>4. Head(micro).do = "done"
  BY <1>1, <1>2, <1>3 DEF KeepToTheQueue
<1>5. stage' = stage /\ wire' = wire
  BY <1>4 DEF Microtask
<1>6. \A r \in Requests : ~Awaited(r)
  BY <1>1 DEF AwaitInv
<1>7. wire = <<>>
  BY <1>6 DEF AwaitInv, Awaited
<1> QED
  BY <1>5, <1>6, <1>7, NobodyAwaited DEF Awaited

LEMMA ConnectorKeepsAwait ==
    ASSUME KeepToTheQueue, TypeOK, PlacesInv, SentInv, AwaitInv, ConnectDone \/ ConnectFailed
    PROVE  AwaitInv'
<1>1. connector \in Requests /\ stage[connector] = "connecting" /\ micro = <<>>
      /\ UNCHANGED <<currentItem, runs, dones>>
  BY SentFacts DEF ConnectDone, ConnectFailed, Quiet, queueVars
<1>2. /\ currentItem = connector /\ runs[connector] = 1 /\ dones[connector] = 0
      /\ \A q \in Requests : q # connector => ~Awaited(q)
  BY <1>1 DEF AwaitInv, Awaited
<1>3. wire = <<>>
  BY <1>1, <1>2 DEF AwaitInv, Awaited
<1>4. CASE ConnectDone
  BY <1>1, <1>2, <1>4, ProceedKeepsAwait DEF ConnectDone
<1>5. CASE ConnectFailed
  BY <1>1, <1>2, <1>3, <1>5, SettleKeepsAwait DEF ConnectFailed
<1> QED
  BY <1>4, <1>5

LEMMA RespondKeepsAwait ==
    ASSUME KeepToTheQueue, TypeOK, PlacesInv, AwaitInv, Respond
    PROVE  AwaitInv'
<1>1. PICK r \in Requests : stage[r] = "sent" /\ wire = <<r>>
  BY DEF Respond, AwaitInv
<1>2. link = "open"
  BY DEF Respond
<1>3. listening /\ slot = r /\ \A q \in Requests : q # r => ~Awaited(q)
  BY <1>1, <1>2 DEF AwaitInv, Heard, Awaited
<1>4. Kind[r] # "close" /\ Tail(wire) = <<>>
  BY <1>1 DEF KeepToTheQueue
<1>5. wire' = <<>> /\ \E outcome \in {"ok", "error"} : Settle(r, outcome)
  BY <1>3, <1>4 DEF Respond, Outcomes
<1> QED
  BY <1>3, <1>5, SettleKeepsAwait

LEMMA SocketDeathKeepsAwait ==
    ASSUME KeepToTheQueue, TypeOK, PlacesInv, SentInv, AwaitInv, SocketError \/ SocketEnd
    PROVE  AwaitInv'
<1>1. /\ link = "open" /\ link' = "closed" /\ wire' = <<>> /\ micro = <<>>
      /\ UNCHANGED <<currentItem, runs, dones>>
  BY DEF SocketError, SocketEnd, SocketDies, Quiet, queueVars
<1>2. \A r \in Requests : stage[r] = "sent" => eventCallback = r /\ \A q \in Requests : q # r => ~Awaited(q)
  BY <1>1 DEF AwaitInv, Heard, Awaited
<1>3. \A q \in Requests : stage[q] # "connecting"
  BY <1>1, KindFacts DEF AwaitInv, PlacesInv
<1>4. ASSUME NEW r \in Requests, NEW outcome \in {"ok", "error"}, Settle(r, outcome),
             \A q \in Requests : stage[q] = "sent" => q = r
      PROVE  AwaitInv'
  BY <1>1, <1>3, <1>4, SettleKeepsAwait DEF Awaited
<1>5. CASE SocketError
  <2>1. CASE eventCallback = "login" /\ UNCHANGED <<stage, micro>>
    BY <1>1, <1>2, <1>3, <2>1, KindFacts, NobodyAwaited
  <2>2. CASE eventCallback \in Requests /\ \E outcome \in {"ok", "error"} : Settle(eventCallback, outcome)
    BY <1>2, <1>4, <2>2
  <2> QED
    BY <1>5, <2>1, <2>2 DEF SocketError
<1>6. CASE SocketEnd
  <2>1. CASE /\ \A r \in Requests : Kind[r] = "closeQuery" => stage[r] # "sent"
             /\ UNCHANGED <<stage, micro>>
    <3>1. \A r \in Requests : stage[r] = "sent" => r \in cut'
      BY <1>6, <2>1 DEF SocketEnd
    <3>2. CASE \E r \in Requests : stage[r] = "sent"
      <4>1. PICK r \in Requests : stage[r] = "sent"
        BY <3>2
      <4>2. /\ currentItem' = r /\ runs'[r] = 1 /\ dones'[r] = 0 /\ micro' = <<>>
            /\ stage'[r] = "sent" /\ r \in cut'
        BY <1>1, <2>1, <3>1, <4>1 DEF AwaitInv, Awaited
      <4>3. \A q \in Requests : q # r => stage'[q] \notin {"connecting", "sent"}
        BY <1>2, <2>1, <4>1 DEF Awaited
      <4> QED
        BY <1>1, <4>2, <4>3, OneAwaited
    <3>3. CASE ~ \E r \in Requests : stage[r] = "sent"
      BY <1>1, <1>3, <2>1, <3>3, NobodyAwaited
    <3> QED
      BY <3>2, <3>3
  <2>2. ASSUME NEW r \in Requests, stage[r] = "sent", Settle(r, "ok")
        PROVE  AwaitInv'
    <3>1. \A q \in Requests : stage[q] = "sent" => q = r
      BY <1>2, <2>2
    <3> QED
      BY <1>4, <2>2, <3>1
  <2> QED
    BY <1>6, <2>1, <2>2 DEF SocketEnd
<1> QED
  BY <1>5, <1>6

LEMMA StepKeepsAwait ==
    ASSUME KeepToTheQueue, TypeOK, PlacesInv, QueueInv, SentInv, DoneInv, AwaitInv, [Next]_vars
    PROVE  AwaitInv'
<1>1. \A r \in Requests : ~CallVersion(r) /\ ~CallClose(r)
  BY DEF KeepToTheQueue, CallVersion, CallClose
<1>0. ~LoginTaken
  <2> SUFFICES ASSUME LoginTaken PROVE FALSE
    OBVIOUS
  <2>1. /\ connector \in Requests /\ stage[connector] = "connecting"
        /\ eventCallback \in Requests /\ stage[eventCallback] = "sent"
    BY SentFacts DEF LoginTaken
  <2>2. connector = eventCallback
    BY <2>1 DEF AwaitInv, Awaited
  <2> QED
    BY <2>1, <2>2
<1>2. ASSUME UNCHANGED <<currentItem, runs, dones, micro, stage, connector, link, wire, listening,
                         slot, eventCallback, cut>>
      PROVE  AwaitInv'
  BY <1>2 DEF AwaitInv, Awaited, Heard
<1>3. ASSUME NEW mode \in BOOLEAN, SetAutoCommitMode(mode) PROVE AwaitInv'
  BY <1>2, <1>3 DEF SetAutoCommitMode, queueVars, callVars, socketVars
<1>4. CASE UNCHANGED vars
  BY <1>2, <1>4 DEF vars, queueVars, callVars, socketVars
<1> QED
  BY <1>0, <1>1, <1>3, <1>4, CallQueuedKeepsAwait, RunItemKeepsAwait, MicrotaskKeepsAwait,
     ConnectorKeepsAwait, RespondKeepsAwait, SocketDeathKeepsAwait
  DEF Next

\* Whoever keeps to the queue is heard: an answer that is awaited, and was not cut
\* off by the server's end, is on the wire, for a listener and for both callbacks.
THEOREM AwaitedAreHeard == ASSUME KeepToTheQueue PROVE Spec => []AwaitedIsHeard
<1>1. Init => AwaitInv
  BY NobodyAwaited DEF Init, AwaitInv, Awaited
<1>2. TypeOK /\ PlacesInv /\ UntilRepeated /\ DoneInv /\ AwaitInv /\ [Next]_vars => AwaitInv'
  BY KeepToTheQueue, StepKeepsAwait DEF UntilRepeated, DoneInv
<1>3. AwaitInv => AwaitedIsHeard
  <2> SUFFICES ASSUME AwaitInv, NEW r \in Requests, stage[r] = "sent", r \notin cut
               PROVE  r \in ToSet(wire) /\ listening /\ slot = r /\ eventCallback = r
    BY DEF AwaitedIsHeard
  <2>1. Heard(r)
    BY DEF AwaitInv
  <2>2. r \in ToSet(<<r>>)
    BY DEF ToSet
  <2> QED
    BY <2>1, <2>2 DEF Heard
<1>4. Spec => []DoneInv
  BY KeepToTheQueue, DoneHolds DEF KeepToTheQueue
<1> QED
  BY <1>1, <1>2, <1>3, <1>4, PlacesHold, UntilRepeatedHolds, PTL DEF Spec

-----------------------------------------------------------------------------
(* Who is overtaken by requests that do not keep to the queue.               *)

\* A socket that is not open owes no answer; who waits for one has been sent.
WireInv ==
    /\ link # "open" => wire = <<>>
    /\ \A r \in Requests : stage[r] = "sent" => \E i \in 1..Len(sent) : sent[i] = r

\* Only the item that runs waits for connect() or an answer, and who calls `done`
\* has one.
ActiveInv ==
    /\ \A r \in Queued : Awaited(r) => currentItem = r /\ runs[r] = 1 /\ dones[r] = 0
    /\ \A k \in 1..Len(micro) : micro[k].do = "done" => Answered(micro[k].of)

Mine(r) == r \in ToSet(wire) /\ listening /\ slot = r /\ eventCallback = r

Overtaken(r) == \E s \in Requests \ Queued : Before(sent, r, s)

Adrift(r) == Kind[r] = "rollback" /\ link # "open"

HeardInv ==
    \A r \in Queued :
        stage[r] = "sent" /\ r \notin cut => Mine(r) \/ Overtaken(r) \/ Adrift(r)

LEMMA WireKept ==
    ASSUME TypeOK, WireInv, link' # "open" => wire' = <<>>,
           \/ /\ sent' = sent
              /\ \A r \in Requests : stage'[r] = "sent" => stage[r] = "sent"
           \/ \E q \in Requests :
                 /\ sent' = Append(sent, q)
                 /\ \A r \in Requests : r # q /\ stage'[r] = "sent" => stage[r] = "sent"
    PROVE  WireInv'
<1>1. sent \in Seq(Requests) /\ Len(sent) \in Nat
  BY DEF TypeOK
<1>2. CASE sent' = sent /\ \A r \in Requests : stage'[r] = "sent" => stage[r] = "sent"
  BY <1>2 DEF WireInv
<1>3. ASSUME NEW q \in Requests, sent' = Append(sent, q),
             \A r \in Requests : r # q /\ stage'[r] = "sent" => stage[r] = "sent"
      PROVE  WireInv'
  <2>1. /\ Len(sent) + 1 \in 1..Len(sent') /\ sent'[Len(sent) + 1] = q
        /\ \A i \in 1..Len(sent) : i \in 1..Len(sent') /\ sent'[i] = sent[i]
    BY <1>1, <1>3
  <2>2. ASSUME NEW r \in Requests, stage'[r] = "sent"
        PROVE  \E i \in 1..Len(sent') : sent'[i] = r
    <3>1. CASE r = q
      BY <2>1, <3>1
    <3>2. CASE r # q
      <4>1. PICK i \in 1..Len(sent) : sent[i] = r
        BY <1>3, <2>2, <3>2 DEF WireInv
      <4> QED
        BY <2>1, <4>1
    <3> QED
      BY <3>1, <3>2
  <2> QED
    BY <2>2 DEF WireInv
<1> QED
  BY <1>2, <1>3

LEMMA SettleKeepsWire ==
    ASSUME TypeOK, WireInv, NEW q, NEW outcome \in {"ok", "error"}, Settle(q, outcome),
           sent' = sent, link' # "open" => wire' = <<>>
    PROVE  WireInv'
<1>1. stage' = stage \/ stage' = [stage EXCEPT ![q] = outcome]
  BY DEF Settle
<1>2. \A r \in Requests : stage'[r] = "sent" => stage[r] = "sent"
  BY <1>1 DEF TypeOK
<1> QED
  BY <1>2, WireKept

LEMMA SendKeepsWire ==
    ASSUME TypeOK, WireInv, NEW q \in Requests, NEW line, NEW live, Send(q, line, live),
           link' # "open" => wire' = <<>>
    PROVE  WireInv'
<1>1. sent' = Append(sent, q) /\ stage' = [stage EXCEPT ![q] = "sent"]
  BY DEF Send
<1>2. \A r \in Requests : r # q /\ stage'[r] = "sent" => stage[r] = "sent"
  BY <1>1 DEF TypeOK
<1> QED
  BY <1>1, <1>2, WireKept

LEMMA ProceedKeepsWire ==
    ASSUME TypeOK, WireInv, NEW q \in Requests, NEW line, NEW left, Proceed(q, line, left),
           link' = "open"
    PROVE  WireInv'
<1>1. \/ Send(q, line, TRUE)
      \/ \E outcome \in {"ok", "error"} : Settle(q, outcome) /\ UNCHANGED sent
  BY Zenon DEF Proceed
<1> QED
  BY <1>1, SendKeepsWire, SettleKeepsWire

LEMMA ConnectKeepsWire ==
    ASSUME TypeOK, WireInv, NEW q \in Requests, Connect(q)
    PROVE  WireInv'
<1>1. CASE link = "open" /\ Proceed(q, wire, eventCallback) /\ UNCHANGED <<link, connector>>
  BY <1>1, ProceedKeepsWire
<1>2. CASE Settle(q, "error") /\ UNCHANGED <<socketVars, connector, slot, eventCallback, sent>>
  BY <1>2, SettleKeepsWire DEF socketVars, WireInv
<1>3. CASE /\ link # "open"
           /\ stage' = [stage EXCEPT ![q] = "connecting"]
           /\ UNCHANGED <<socketVars, slot, micro, sent>>
  <2>1. \A r \in Requests : stage'[r] = "sent" => stage[r] = "sent"
    BY <1>3 DEF TypeOK
  <2> QED
    BY <1>3, <2>1, WireKept DEF socketVars, WireInv
<1> QED
  BY <1>1, <1>2, <1>3 DEF Connect

LEMMA CallCloseKeepsWire ==
    ASSUME TypeOK, WireInv, NEW q \in Requests, CallClose(q)
    PROVE  WireInv'
<1>1. CASE link' = link /\ wire' = wire /\ sent' = sent
  <2>1. CASE stage' = [stage EXCEPT ![q] = "ok"]
    <3>1. \A r \in Requests : stage'[r] = "sent" => stage[r] = "sent"
      BY <2>1 DEF TypeOK
    <3> QED
      BY <1>1, <3>1, WireKept DEF WireInv
  <2>2. ASSUME NEW i \in Internal,
               stage' = [r \in Requests |-> IF r = q THEN "closing" ELSE IF r = i THEN "called"
                           ELSE IF r \in Queue!Waiting THEN "dropped" ELSE stage[r]]
        PROVE  WireInv'
    <3>1. \A r \in Requests : stage'[r] = "sent" => stage[r] = "sent"
      BY <2>2
    <3> QED
      BY <1>1, <3>1, WireKept DEF WireInv
  <2>3. sent # Append(sent, q)
    BY DEF TypeOK
  <2> QED
    BY <1>1, <2>1, <2>2, <2>3 DEF CallClose
<1>2. CASE /\ link' = link /\ link = "open" /\ sent' = Append(sent, q)
           /\ stage' = [r \in Requests |-> IF r = q THEN "sent"
                          ELSE IF r \in Queue!Waiting THEN "dropped" ELSE stage[r]]
  <2>1. \A r \in Requests : r # q /\ stage'[r] = "sent" => stage[r] = "sent"
    BY <1>2
  <2> QED
    BY <1>2, <2>1, WireKept
<1> QED
  BY <1>1, <1>2 DEF CallClose, socketVars

LEMMA StepKeepsWire ==
    ASSUME TypeOK, PlacesInv, WireInv, [Next]_vars
    PROVE  WireInv'
<1>1. ASSUME UNCHANGED <<link, wire, sent, stage>> PROVE WireInv'
  BY <1>1 DEF WireInv
<1>2. ASSUME NEW r \in Requests, CallQueued(r) PROVE WireInv'
  <2>1. stage' = [stage EXCEPT ![r] = "called"] /\ UNCHANGED <<link, wire, sent>>
    BY <1>2 DEF CallQueued, socketVars
  <2>2. \A q \in Requests : stage'[q] = "sent" => stage[q] = "sent"
    BY <2>1 DEF TypeOK
  <2> QED
    BY <2>1, <2>2, WireKept DEF WireInv
<1>3. ASSUME NEW r \in Requests, CallVersion(r) PROVE WireInv'
  BY <1>3, ConnectKeepsWire DEF CallVersion
<1>4. CASE RunItem
  <2>1. currentItem # NoRequest => currentItem \in Requests
    BY KindFacts DEF TypeOK, Queue!TypeOK
  <2>2. ASSUME currentItem \in Requests, EndTransaction(currentItem), UNCHANGED link
        PROVE  WireInv'
    <3>1. CASE Settle(currentItem, "error") /\ UNCHANGED <<wire, sent>>
      BY <2>2, <3>1, SettleKeepsWire DEF WireInv
    <3>2. CASE Send(currentItem, wire, link = "open")
      <4>1. link' # "open" => wire' = <<>>
        BY <2>2, <3>2 DEF Send, WireInv
      <4>2. PICK live : Send(currentItem, wire, live)
        BY <3>2
      <4> QED
        BY <2>2, <4>1, <4>2, SendKeepsWire
    <3> QED
      BY <2>2, <3>1, <3>2 DEF EndTransaction
  <2> QED
    BY <1>1, <1>4, <2>1, <2>2, ConnectKeepsWire DEF RunItem, socketVars
<1>5. CASE Microtask
  <2>1. Head(micro).of \in Requests
    <3>1. micro \in Seq(Tasks) /\ micro # <<>>
      BY <1>5 DEF Microtask, TypeOK, Tasks
    <3>2. Head(micro) \in Tasks
      BY <3>1
    <3> QED
      BY <3>2 DEF Tasks
  <2>2. CASE Send(Head(micro).of, wire, link = "open") /\ UNCHANGED link
    <3>1. link' # "open" => wire' = <<>>
      BY <2>2 DEF Send, WireInv
    <3>2. PICK live : Send(Head(micro).of, wire, live)
      BY <2>2
    <3> QED
      BY <2>1, <3>1, <3>2, SendKeepsWire
  <2>3. CASE /\ stage' = [stage EXCEPT ![Head(micro).of] = "error"]
             /\ UNCHANGED <<link, wire, sent>>
    <3>1. \A q \in Requests : stage'[q] = "sent" => stage[q] = "sent"
      BY <2>3 DEF TypeOK
    <3> QED
      BY <2>3, <3>1, WireKept DEF WireInv
  <2> QED
    BY <1>1, <1>5, <2>2, <2>3 DEF Microtask
<1>6. CASE ConnectDone
  BY <1>6, ProceedKeepsWire DEF ConnectDone, TypeOK
<1>7. CASE ConnectFailed \/ LoginTaken
  <2>1. link # "open" /\ wire' = wire /\ sent' = sent
        /\ \E q, outcome : outcome \in {"ok", "error"} /\ Settle(q, outcome)
    BY <1>7 DEF ConnectFailed, LoginTaken, PlacesInv
  <2> QED
    BY <2>1, SettleKeepsWire DEF WireInv
<1>8. CASE Respond
  <2>1. link' # "open" => wire' = <<>>
    BY <1>8 DEF Respond
  <2> QED
    BY <1>8, <2>1, SettleKeepsWire, WireKept DEF Respond, Outcomes
<1>9. CASE SocketError \/ SocketEnd
  <2>1. /\ wire' = <<>> /\ sent' = sent
        /\ UNCHANGED stage \/ \E q, outcome : outcome \in {"ok", "error"} /\ Settle(q, outcome)
    BY <1>9 DEF SocketError, SocketEnd, SocketDies
  <2> QED
    BY <2>1, SettleKeepsWire, WireKept
<1>10. CASE UNCHANGED vars \/ \E mode \in BOOLEAN : SetAutoCommitMode(mode)
  BY <1>1, <1>10 DEF SetAutoCommitMode, vars, socketVars, callVars
<1> QED
  BY <1>2, <1>3, <1>4, <1>5, <1>6, <1>7, <1>8, <1>9, <1>10, CallCloseKeepsWire DEF Next

\* Whoever is told a result has one, and only its own `done` is called for it.
LEMMA SettleTasks ==
    ASSUME TypeOK, NEW q \in Requests, NEW outcome \in {"ok", "error"}, Settle(q, outcome)
    PROVE  /\ \A p \in Requests : p # q => stage'[p] = stage[p]
           /\ stage'[q] \in {"ok", "error"}
           /\ \A k \in 1..Len(micro') : micro'[k].do = "done" => micro'[k].of = q
<1>1. Done(q).do = "done" /\ Done(q).of = q
  BY DEF Done
<1>2. CASE Answered(q)
  <2>1. stage' = stage /\ (micro' = <<Done(q)>> \/ micro' = <<>>)
    BY <1>2 DEF Settle
  <2>2. \A k \in 1..Len(micro') : micro'[k] = Done(q)
    BY <2>1
  <2> QED
    BY <1>1, <1>2, <2>1, <2>2 DEF Answered
<1>3. CASE ~Answered(q)
  <2>1. stage' = [stage EXCEPT ![q] = outcome] /\ micro' = Followers(q, outcome)
    BY <1>3 DEF Settle
  <2>2. \A k \in 1..Len(micro') : micro'[k].do = "done" => micro'[k].of = q
    <3>1. CASE q \in Internal
      <4> DEFINE second == [do |-> IF outcome = "ok" THEN "closeDatabase" ELSE "rejectClose",
                            of |-> closer[q]]
      <4>1. micro' = <<Done(q), second>> /\ second.do # "done"
        BY <2>1, <3>1, KindFacts DEF Followers
      <4> HIDE DEF second
      <4>2. Len(micro') = 2 /\ micro'[1] = Done(q) /\ micro'[2] = second
        BY <4>1
      <4> QED
        BY <1>1, <4>1, <4>2
    <3>2. CASE q \notin Internal
      <4>1. micro' \in {<<Done(q), Done(q)>>, <<Done(q)>>, <<>>}
        BY <2>1, <3>2 DEF Followers
      <4>2. \A k \in 1..Len(micro') : micro'[k] = Done(q)
        BY <4>1
      <4> QED
        BY <1>1, <4>2
    <3> QED
      BY <3>1, <3>2
  <2> QED
    BY <2>1, <2>2 DEF TypeOK
<1> QED
  BY <1>2, <1>3

\* What a step that changes the stage of q alone has to leave as it is.
LEMMA MoveKeepsActive ==
    ASSUME TypeOK, ActiveInv, NEW q \in Requests,
           \A p \in Requests : p # q => stage'[p] = stage[p],
           Answered(q) => Answered(q)',
           \A k \in 1..Len(micro') : micro'[k].do = "done" =>
              \/ micro'[k].of = q /\ Answered(q)'
              \/ \E l \in 1..Len(micro) : micro[l].do = "done" /\ micro'[k].of = micro[l].of,
           q \in Queued /\ Awaited(q)' => currentItem' = q /\ runs'[q] = 1 /\ dones'[q] = 0,
           \A p \in Queued : p # q /\ Awaited(p) =>
              currentItem' = p /\ runs'[p] = 1 /\ dones'[p] = 0
    PROVE  ActiveInv'
<1>1. ASSUME NEW p \in Queued, Awaited(p)'
      PROVE  currentItem' = p /\ runs'[p] = 1 /\ dones'[p] = 0
  BY <1>1, KindFacts DEF Awaited
<1>2. ASSUME NEW k \in 1..Len(micro'), micro'[k].do = "done"
      PROVE  stage'[micro'[k].of] \in {"ok", "error"}
  <2>1. CASE micro'[k].of = q /\ Answered(q)'
    BY <2>1 DEF Answered
  <2>2. ASSUME NEW l \in 1..Len(micro), micro[l].do = "done", micro'[k].of = micro[l].of
        PROVE  stage'[micro'[k].of] \in {"ok", "error"}
    <3>1. stage[micro[l].of] \in {"ok", "error"} /\ micro[l].of \in Requests
      <4>1. micro \in Seq(Tasks)
        BY DEF TypeOK, Tasks
      <4>2. micro[l] \in Tasks
        BY <4>1
      <4> QED
        BY <2>2, <4>2 DEF Tasks, ActiveInv, Answered
    <3>2. stage'[micro[l].of] \in {"ok", "error"}
      BY <3>1 DEF Answered
    <3> QED
      BY <2>2, <3>2
  <2> QED
    BY <1>2, <2>1, <2>2
<1> QED
  BY <1>1, <1>2 DEF ActiveInv, Answered

LEMMA SettleKeepsActive ==
    ASSUME TypeOK, ActiveInv, NEW q \in Requests, NEW outcome \in {"ok", "error"},
           Settle(q, outcome),
           \A p \in Queued : p # q /\ Awaited(p) =>
              currentItem' = p /\ runs'[p] = 1 /\ dones'[p] = 0
    PROVE  ActiveInv'
<1>1. Answered(q)' /\ ~Awaited(q)'
  BY SettleTasks DEF Answered, Awaited
<1> QED
  BY <1>1, SettleTasks, MoveKeepsActive

LEMMA SendKeepsActive ==
    ASSUME TypeOK, ActiveInv, NEW q \in Requests, NEW line, NEW live, Send(q, line, live),
           stage[q] \notin {"ok", "error"}, micro' = <<>>,
           q \in Queued => currentItem' = q /\ runs'[q] = 1 /\ dones'[q] = 0,
           \A p \in Queued : p # q /\ Awaited(p) =>
              currentItem' = p /\ runs'[p] = 1 /\ dones'[p] = 0
    PROVE  ActiveInv'
<1>1. stage' = [stage EXCEPT ![q] = "sent"]
  BY DEF Send
<1>2. \A p \in Requests : p # q => stage'[p] = stage[p]
  BY <1>1 DEF TypeOK
<1> QED
  BY <1>2, MoveKeepsActive DEF Answered

LEMMA ProceedKeepsActive ==
    ASSUME TypeOK, ActiveInv, NEW q \in Requests, NEW line, NEW left, Proceed(q, line, left),
           stage[q] \notin {"ok", "error"}, micro = <<>>,
           q \in Queued => currentItem' = q /\ runs'[q] = 1 /\ dones'[q] = 0,
           \A p \in Queued : p # q /\ Awaited(p) =>
              currentItem' = p /\ runs'[p] = 1 /\ dones'[p] = 0
    PROVE  ActiveInv'
<1>1. \/ Send(q, line, TRUE) /\ UNCHANGED micro
      \/ \E outcome \in {"ok", "error"} : Settle(q, outcome)
  BY Zenon DEF Proceed
<1> QED
  BY <1>1, SendKeepsActive, SettleKeepsActive

LEMMA ConnectKeepsActive ==
    ASSUME TypeOK, ActiveInv, NEW q \in Requests, Connect(q),
           stage[q] \notin {"ok", "error"}, micro = <<>>,
           q \in Queued => currentItem' = q /\ runs'[q] = 1 /\ dones'[q] = 0,
           \A p \in Queued : p # q /\ Awaited(p) =>
              currentItem' = p /\ runs'[p] = 1 /\ dones'[p] = 0
    PROVE  ActiveInv'
<1>1. \/ Proceed(q, wire, eventCallback)
      \/ Settle(q, "error")
      \/ stage' = [stage EXCEPT ![q] = "connecting"] /\ micro' = micro
  BY DEF Connect
<1>2. CASE stage' = [stage EXCEPT ![q] = "connecting"] /\ micro' = micro
  <2>1. \A p \in Requests : p # q => stage'[p] = stage[p]
    BY <1>2 DEF TypeOK
  <2> QED
    BY <1>2, <2>1, MoveKeepsActive DEF Answered
<1> QED
  BY <1>1, <1>2, ProceedKeepsActive, SettleKeepsActive

LEMMA CallKeepsActive ==
    ASSUME TypeOK, PlacesInv, QueueInv, SentInv, ActiveInv, NEW r \in Requests,
           CallQueued(r) \/ CallVersion(r) \/ CallClose(r)
    PROVE  ActiveInv'
<1>1. micro = <<>> /\ stage[r] = "idle"
  BY DEF CallQueued, CallVersion, CallClose, Quiet
<1>2. ASSUME currentItem' = currentItem \/ currentItem = NoRequest, runs' = runs, dones' = dones
      PROVE  \A p \in Queued : Awaited(p) => currentItem' = p /\ runs'[p] = 1 /\ dones'[p] = 0
  BY <1>2, KindFacts DEF ActiveInv
<1>3. CASE CallQueued(r)
  <2>1. /\ r \in Queued /\ stage' = [stage EXCEPT ![r] = "called"] /\ micro' = micro
        /\ Queue!Push(r) \/ Queue!Unshift(r)
    BY <1>3 DEF CallQueued
  <2>2. runs' = runs /\ dones' = dones
    BY <2>1 DEF Queue!Push, Queue!Unshift, Queue!Accept
  <2>3. currentItem' = currentItem \/ currentItem = NoRequest
    <3>1. PICK line \in Seq(Queued) : Queue!Process(line, currentItem)
      BY <2>1, QueuedLine DEF TypeOK
    <3> QED
      BY <3>1 DEF Queue!Process
  <2>4. \A p \in Requests : p # r => stage'[p] = stage[p]
    BY <2>1 DEF TypeOK
  <2>5. stage'[r] = "called"
    BY <2>1 DEF TypeOK
  <2> QED
    BY <1>1, <1>2, <2>1, <2>2, <2>3, <2>4, <2>5, MoveKeepsActive DEF Answered, Awaited
<1>4. CASE CallVersion(r)
  <2>1. Connect(r) /\ r \notin Queued /\ UNCHANGED queueVars
    BY <1>4 DEF CallVersion, Queued
  <2> QED
    BY <1>1, <1>2, <2>1, ConnectKeepsActive DEF queueVars
<1>5. CASE CallClose(r)
  <2>1. r \notin Queued
    BY <1>5 DEF CallClose, Queued
  <2>2. micro' = <<>>
    BY <1>1, <1>5 DEF CallClose
  <2>3. /\ runs' = runs /\ dones' = dones
        /\ currentItem' = currentItem \/ currentItem = NoRequest
    BY <1>5 DEF CallClose, Queue!Empty, Queue!Process, queueVars
  <2>4. \A p \in Queued : Awaited(p)' => Awaited(p)
    BY <1>5, <2>1, KindFacts DEF CallClose, Awaited, TypeOK
  <2> QED
    BY <1>2, <2>2, <2>3, <2>4 DEF ActiveInv
<1> QED
  BY <1>3, <1>4, <1>5

LEMMA RunItemKeepsActive ==
    ASSUME TypeOK, PlacesInv, QueueInv, ~Queue!RepeatedDone, SentInv, ActiveInv, RunItem
    PROVE  ActiveInv' /\ \A r \in Queued : ~Awaited(r)
<1>1. /\ currentItem \in Queued /\ currentItem \in Requests /\ currentItem # NoRequest
      /\ runs[currentItem] = 0 /\ dones[currentItem] = 0 /\ micro = <<>>
      /\ stage[currentItem] \in {"called", "dropped"}
      /\ runs' = [runs EXCEPT ![currentItem] = @ + 1]
      /\ dones' = dones
      /\ \A r \in Queued : dones[r] >= runs[r]
  BY RunItemFacts
<1>2. currentItem' = currentItem /\ runs'[currentItem] = 1 /\ dones'[currentItem] = 0
  BY <1>1 DEF RunItem, Queue!RunImmediate, TypeOK, Queue!TypeOK
<1>3. \A r \in Queued : ~Awaited(r)
  BY <1>1 DEF ActiveInv
<1>4. CASE Connect(currentItem)
  BY <1>1, <1>2, <1>3, <1>4, ConnectKeepsActive
<1>5. CASE EndTransaction(currentItem)
  <2>1. \/ Settle(currentItem, "error")
        \/ \E live : Send(currentItem, wire, live) /\ UNCHANGED micro
    BY <1>5 DEF EndTransaction
  <2> QED
    BY <1>1, <1>2, <1>3, <2>1, SettleKeepsActive, SendKeepsActive
<1> QED
  BY <1>1, <1>3, <1>4, <1>5 DEF RunItem

LEMMA MicrotaskKeepsActive ==
    ASSUME TypeOK, PlacesInv, QueueInv, ~Queue!RepeatedDone', ~Queue!RepeatedDone, SentInv,
           ActiveInv, Microtask
    PROVE  ActiveInv'
<1>1. /\ micro # <<>> /\ micro' = Tail(micro)
  BY DEF Microtask
<1> DEFINE task == Head(micro)
<1>2. /\ micro \in Seq(Tasks)
      /\ \A k \in 1..Len(micro) :
           IF micro[k].do = "done" THEN micro[k].of \in Queued ELSE Kind[micro[k].of] = "close"
  BY PlacesFacts DEF TasksOK, Tasks
<1>3. 1 \in 1..Len(micro) /\ task = micro[1] /\ task \in Tasks
  BY <1>1, <1>2
<1>4. /\ Len(micro) \in Nat
      /\ \A k \in 1..Len(micro') : micro'[k] = micro[k + 1] /\ k + 1 \in 1..Len(micro)
  BY <1>1, <1>2, HeadTailProperties
<1> HIDE DEF task
<1>5. CASE task.do = "done" /\ Queue!Done(task.of) /\ stage' = stage
  <2>1. task.of \in Queued /\ Answered(task.of)
    BY <1>2, <1>3, <1>5 DEF ActiveInv
  <2>2. dones[task.of] < runs[task.of]
    <3>1. QP!Done(task.of)
      BY <1>5, <2>1, SameQueue
    <3> QED
      BY <2>1, <3>1, DoneIsOfRunning DEF TypeOK
  <2>3. task.of = currentItem
    BY <2>1, <2>2, SameQueue DEF QueueInv, QP!IInv, QP!SerialInv, QP!Running
  <2>4. \A p \in Queued : ~Awaited(p)
    BY <2>1, <2>3 DEF ActiveInv, Answered, Awaited
  <2>5. \A k \in 1..Len(micro') : micro'[k].do = "done" => stage'[micro'[k].of] \in {"ok", "error"}
    BY <1>4, <1>5 DEF ActiveInv, Answered
  <2> QED
    BY <1>5, <2>4, <2>5 DEF ActiveInv, Answered, Awaited
<1>6. CASE task.do # "done" /\ UNCHANGED queueVars
           /\ \E new \in Stages : stage' = [stage EXCEPT ![task.of] = new]
  <2>1. task.of \notin Queued
    BY <1>2, <1>3, <1>6, KindFacts
  <2>2. stage[task.of] = "closing"
    BY <1>3, <1>6 DEF SentInv, TasksInv
  <2>3. /\ task.of \in Requests
        /\ \A p \in Requests : p # task.of => stage'[p] = stage[p]
    BY <1>3, <1>6 DEF TypeOK, Tasks
  <2>4. \A k \in 1..Len(micro') : micro'[k].do = "done" =>
           \E l \in 1..Len(micro) : micro[l].do = "done" /\ micro'[k].of = micro[l].of
    BY <1>4
  <2> QED
    BY <1>6, <2>1, <2>2, <2>3, <2>4, MoveKeepsActive DEF ActiveInv, Answered, queueVars
<1> QED
  BY <1>5, <1>6 DEF Microtask, task, Send, Stages

LEMMA EventKeepsActive ==
    ASSUME TypeOK, PlacesInv, SentInv, ActiveInv,
           ConnectDone \/ ConnectFailed \/ LoginTaken \/ Respond \/ SocketError \/ SocketEnd
    PROVE  ActiveInv'
<1>1. micro = <<>> /\ UNCHANGED <<currentItem, runs, dones>>
  BY DEF ConnectDone, ConnectFailed, LoginTaken, Respond, SocketError, SocketEnd, SocketDies,
         Quiet, queueVars
<1>2. \A p \in Queued : Awaited(p) => currentItem' = p /\ runs'[p] = 1 /\ dones'[p] = 0
  BY <1>1 DEF ActiveInv
<1>3. ASSUME NEW q \in Requests, NEW outcome \in {"ok", "error"}, Settle(q, outcome)
      PROVE  ActiveInv'
  BY <1>2, <1>3, SettleKeepsActive
<1>4. CASE UNCHANGED <<stage, micro>>
  BY <1>1, <1>4 DEF ActiveInv, Awaited, Answered
<1>5. CASE ConnectDone \/ ConnectFailed
  <2>1. connector \in Requests /\ stage[connector] = "connecting"
    BY <1>5, SentFacts DEF ConnectDone, ConnectFailed
  <2>2. connector \in Queued => currentItem' = connector /\ runs'[connector] = 1 /\ dones'[connector] = 0
    BY <1>2, <2>1 DEF Awaited
  <2> QED
    BY <1>1, <1>2, <1>3, <1>5, <2>1, <2>2, ProceedKeepsActive DEF ConnectDone, ConnectFailed
<1>6. CASE Respond
  <2>1. \/ UNCHANGED <<stage, micro>>
        \/ slot \in Requests /\ \E outcome \in {"ok", "error"} : Settle(slot, outcome)
    BY <1>6 DEF Respond, Outcomes, PlacesInv
  <2> QED
    BY <1>3, <1>4, <2>1
<1>7. CASE LoginTaken \/ SocketError
  <2>1. \/ UNCHANGED <<stage, micro>>
        \/ eventCallback \in Requests /\ \E outcome \in {"ok", "error"} : Settle(eventCallback, outcome)
    BY <1>7 DEF LoginTaken, SocketError
  <2> QED
    BY <1>3, <1>4, <2>1
<1>8. CASE SocketEnd
  <2>1. UNCHANGED <<stage, micro>> \/ \E r \in Requests : Settle(r, "ok")
    BY <1>8 DEF SocketEnd
  <2> QED
    BY <1>3, <1>4, <2>1
<1> QED
  BY <1>5, <1>6, <1>7, <1>8

LEMMA StepKeepsActive ==
    ASSUME TypeOK, PlacesInv, QueueInv, ~Queue!RepeatedDone', ~Queue!RepeatedDone, SentInv,
           ActiveInv, [Next]_vars
    PROVE  ActiveInv'
<1>1. CASE UNCHANGED vars \/ \E mode \in BOOLEAN : SetAutoCommitMode(mode)
  <2>1. UNCHANGED <<stage, micro, currentItem, runs, dones>>
    BY <1>1 DEF SetAutoCommitMode, vars, queueVars, callVars
  <2> QED
    BY <2>1 DEF ActiveInv, Awaited, Answered
<1> QED
  BY <1>1, CallKeepsActive, RunItemKeepsActive, MicrotaskKeepsActive, EventKeepsActive DEF Next

-----------------------------------------------------------------------------
\* A request that does not keep to the queue overtakes all that were sent before.
LEMMA OvertakenBy ==
    ASSUME TypeOK, WireInv, NEW q \in Requests \ Queued, sent' = Append(sent, q),
           \A r \in Queued : stage'[r] = "sent" => stage[r] = "sent"
    PROVE  HeardInv'
<1> SUFFICES ASSUME NEW r \in Queued, stage'[r] = "sent" PROVE Overtaken(r)'
  BY DEF HeardInv
<1>1. sent \in Seq(Requests) /\ r \in Requests
  BY KindFacts DEF TypeOK
<1>2. PICK i \in 1..Len(sent) : sent[i] = r
  BY <1>1 DEF WireInv
<1>3. Before(Append(sent, q), r, q)
  BY <1>1, <1>2, BeforeGrows
<1> QED
  BY <1>3 DEF Overtaken

LEMMA OnlyOneSent ==
    ASSUME NEW q, \A r \in Queued : r # q => stage'[r] # "sent",
           q \in Queued /\ stage'[q] = "sent" => Mine(q)' \/ Adrift(q)'
    PROVE  HeardInv'
  BY DEF HeardInv

LEMMA HeardKept ==
    ASSUME TypeOK, HeardInv, link' # "open" \/ link = "open",
           sent' = sent \/ \E q \in Requests : sent' = Append(sent, q),
           \A r \in Queued : stage'[r] = "sent" /\ r \notin cut' =>
              stage[r] = "sent" /\ r \notin cut /\ (Mine(r) => Mine(r)')
    PROVE  HeardInv'
<1> SUFFICES ASSUME NEW r \in Queued, stage'[r] = "sent", r \notin cut'
             PROVE  Mine(r)' \/ Overtaken(r)' \/ Adrift(r)'
  BY DEF HeardInv
<1>1. \/ Mine(r)'
      \/ \E s \in Requests \ Queued : Before(sent, r, s)
      \/ Adrift(r)
  BY DEF HeardInv, Overtaken
<1>2. ASSUME NEW s \in Requests \ Queued, Before(sent, r, s) PROVE Overtaken(r)'
  <2>1. CASE sent' = sent
    BY <1>2, <2>1 DEF Overtaken
  <2>2. ASSUME NEW q \in Requests, sent' = Append(sent, q) PROVE Overtaken(r)'
    <3>1. Before(Append(sent, q), r, s)
      BY <1>2, BeforeGrows DEF TypeOK
    <3> QED
      BY <2>2, <3>1 DEF Overtaken
  <2> QED
    BY <2>1, <2>2
<1>3. Adrift(r) => Adrift(r)'
  BY DEF Adrift
<1> QED
  BY <1>1, <1>2, <1>3

LEMMA NotMine ==
    ASSUME WireInv, link # "open", NEW r PROVE ~Mine(r)
<1>1. wire = <<>>
  BY DEF WireInv
<1>2. r \notin ToSet(<<>>)
  BY DEF ToSet
<1> QED
  BY <1>1, <1>2 DEF Mine

LEMMA SendIsMine ==
    ASSUME NEW q \in Requests, NEW line \in Seq(Requests), Send(q, line, TRUE)
    PROVE  Mine(q)'
<1>1. wire' = Append(line, q) /\ listening' /\ slot' = q /\ eventCallback' = q
  BY DEF Send
<1>2. Len(line) + 1 \in 1..Len(wire') /\ wire'[Len(line) + 1] = q
  BY <1>1
<1>3. q \in ToSet(wire')
  BY <1>2 DEF ToSet
<1> QED
  BY <1>1, <1>3 DEF Mine

\* What getEngineVersion() does once it is connected: it sends.
LEMMA VersionSends ==
    ASSUME NEW q \in Requests, Kind[q] = "version", NEW line, NEW left, Proceed(q, line, left)
    PROVE  Send(q, line, TRUE)
  BY DEF Proceed

LEMMA CallKeepsHeard ==
    ASSUME TypeOK, PlacesInv, SentInv, QueueInv, WireInv, HeardInv, NEW r \in Requests,
           CallQueued(r) \/ CallVersion(r) \/ CallClose(r)
    PROVE  HeardInv'
<1>1. UNCHANGED <<link, cut>> /\ stage[r] = "idle"
  BY DEF CallQueued, CallVersion, CallClose, Connect, socketVars
<1>2. CASE CallQueued(r)
  <2>1. /\ stage' = [stage EXCEPT ![r] = "called"]
        /\ UNCHANGED <<wire, listening, slot, eventCallback, sent>>
    BY <1>2 DEF CallQueued, socketVars
  <2>2. \A q \in Queued : stage'[q] = "sent" => stage[q] = "sent"
    BY <2>1, KindFacts DEF TypeOK
  <2> QED
    BY <1>1, <2>1, <2>2, HeardKept DEF Mine
<1>3. CASE CallVersion(r)
  <2>1. Kind[r] = "version" /\ r \in Requests \ Queued /\ Connect(r)
    BY <1>3 DEF CallVersion, Queued
  <2>2. CASE link = "open" /\ Proceed(r, wire, eventCallback)
    <3>1. Send(r, wire, TRUE)
      BY <2>1, <2>2, VersionSends
    <3>2. sent' = Append(sent, r) /\ stage' = [stage EXCEPT ![r] = "sent"]
      BY <3>1 DEF Send
    <3>3. \A q \in Queued : stage'[q] = "sent" => stage[q] = "sent"
      BY <2>1, <3>2, KindFacts DEF TypeOK
    <3> QED
      BY <2>1, <3>2, <3>3, OvertakenBy
  <2>3. CASE link # "open" /\ sent' = sent /\ \E new \in Stages : stage' = [stage EXCEPT ![r] = new]
    <3>1. \A q \in Queued : stage'[q] = "sent" => stage[q] = "sent"
      BY <2>1, <2>3, KindFacts DEF TypeOK
    <3> QED
      BY <1>1, <2>3, <3>1, NotMine, HeardKept
  <2>4. Settle(r, "error") => \E new \in Stages : stage' = [stage EXCEPT ![r] = new]
    BY <1>1 DEF Settle, Answered, Stages
  <2> QED
    BY <2>1, <2>2, <2>3, <2>4 DEF Connect, Stages
<1>4. CASE CallClose(r)
  <2>1. r \in Requests \ Queued
    BY <1>4 DEF CallClose, Queued
  <2>2. \A q \in Queued : stage'[q] = "sent" => stage[q] = "sent"
    BY <1>4, <2>1, KindFacts DEF CallClose, TypeOK
  <2>3. CASE sent' = Append(sent, r)
    BY <2>1, <2>2, <2>3, OvertakenBy
  <2>4. CASE UNCHANGED <<wire, listening, slot, eventCallback, sent>>
    BY <1>1, <2>2, <2>4, HeardKept DEF Mine
  <2> QED
    BY <1>4, <2>3, <2>4 DEF CallClose, socketVars
<1> QED
  BY <1>2, <1>3, <1>4

LEMMA RunItemKeepsHeard ==
    ASSUME TypeOK, PlacesInv, QueueInv, ~Queue!RepeatedDone, SentInv, ActiveInv, RunItem
    PROVE  HeardInv'
<1>1. /\ currentItem \in Queued /\ currentItem \in Requests /\ currentItem # NoRequest
      /\ stage[currentItem] \in {"called", "dropped"}
      /\ \A r \in Queued : ~Awaited(r)
  BY RunItemFacts, RunItemKeepsActive
<1>2. ASSUME \A r \in Requests : r # currentItem => stage'[r] = stage[r]
      PROVE  \A r \in Queued : r # currentItem => stage'[r] # "sent"
  BY <1>1, <1>2, KindFacts DEF Awaited
<1>3. ASSUME NEW outcome \in {"ok", "error"}, Settle(currentItem, outcome) PROVE HeardInv'
  BY <1>1, <1>2, <1>3, SettleTasks, OnlyOneSent
<1>4. ASSUME Send(currentItem, wire, TRUE) PROVE HeardInv'
  <2>1. stage' = [stage EXCEPT ![currentItem] = "sent"]
    BY <1>4 DEF Send
  <2>2. \A r \in Requests : r # currentItem => stage'[r] = stage[r]
    BY <2>1 DEF TypeOK
  <2> QED
    BY <1>1, <1>2, <1>4, <2>2, SendIsMine, OnlyOneSent DEF TypeOK
<1>5. CASE Connect(currentItem)
  <2>1. Proceed(currentItem, wire, eventCallback) =>
           \/ Send(currentItem, wire, TRUE)
           \/ \E outcome \in {"ok", "error"} : Settle(currentItem, outcome)
    BY Zenon DEF Proceed
  <2>2. CASE stage' = [stage EXCEPT ![currentItem] = "connecting"]
    BY <1>1, <2>2, KindFacts, OnlyOneSent DEF TypeOK, Awaited
  <2> QED
    BY <1>3, <1>4, <1>5, <2>1, <2>2 DEF Connect
<1>6. CASE EndTransaction(currentItem) /\ UNCHANGED <<link, connector>>
  <2>1. CASE Send(currentItem, wire, link = "open") /\ HasSocket(currentItem)
    <3>1. CASE link = "open"
      <4>1. Send(currentItem, wire, TRUE)
        BY <2>1, <3>1 DEF Send
      <4> QED
        BY <1>4, <4>1
    <3>2. CASE link # "open"
      <4>1. Kind[currentItem] = "rollback" /\ link' # "open"
        BY <1>6, <2>1, <3>2 DEF HasSocket
      <4>2. stage' = [stage EXCEPT ![currentItem] = "sent"]
        BY <2>1 DEF Send
      <4>3. \A r \in Requests : r # currentItem => stage'[r] = stage[r]
        BY <4>2 DEF TypeOK
      <4> QED
        BY <1>2, <4>1, <4>3 DEF HeardInv, Adrift
    <3> QED
      BY <3>1, <3>2
  <2> QED
    BY <1>3, <1>6, <2>1 DEF EndTransaction
<1> QED
  BY <1>1, <1>5, <1>6 DEF RunItem

LEMMA MicrotaskKeepsHeard ==
    ASSUME TypeOK, PlacesInv, SentInv, WireInv, HeardInv, Microtask
    PROVE  HeardInv'
<1>1. UNCHANGED <<link, cut>> /\ micro # <<>>
  BY DEF Microtask
<1> DEFINE task == Head(micro)
<1>2. /\ micro \in Seq(Tasks)
      /\ \A k \in 1..Len(micro) :
           IF micro[k].do = "done" THEN micro[k].of \in Queued ELSE Kind[micro[k].of] = "close"
  BY PlacesFacts DEF TasksOK, Tasks
<1>0. 1 \in 1..Len(micro) /\ task = micro[1] /\ task \in Tasks
  BY <1>1, <1>2
<1>3. task = micro[1] /\ 1 \in 1..Len(micro) /\ task.of \in Requests
  BY <1>0 DEF Tasks
<1>4. task.do # "done" => task.of \in Requests \ Queued
  BY <1>2, <1>3, KindFacts
<1> HIDE DEF task
<1>5. CASE task.do = "closeDatabase" /\ Send(task.of, wire, link = "open")
  <2>1. sent' = Append(sent, task.of) /\ stage' = [stage EXCEPT ![task.of] = "sent"]
    BY <1>5 DEF Send
  <2>2. \A q \in Queued : stage'[q] = "sent" => stage[q] = "sent"
    BY <1>4, <1>5, <2>1, KindFacts DEF TypeOK
  <2> QED
    BY <1>4, <1>5, <2>1, <2>2, OvertakenBy
<1>6. CASE /\ UNCHANGED <<wire, listening, slot, eventCallback, sent>>
           /\ stage' = stage \/ stage' = [stage EXCEPT ![task.of] = "error"]
  <2>1. \A q \in Queued : stage'[q] = "sent" => stage[q] = "sent"
    BY <1>3, <1>6, KindFacts DEF TypeOK
  <2> QED
    BY <1>1, <1>6, <2>1, HeardKept DEF Mine
<1> QED
  BY <1>5, <1>6 DEF Microtask, task

LEMMA ConnectorKeepsHeard ==
    ASSUME TypeOK, PlacesInv, SentInv, WireInv, ActiveInv, HeardInv,
           ConnectDone \/ ConnectFailed \/ LoginTaken
    PROVE  HeardInv'
<1>1. /\ link # "open" /\ connector \in Requests /\ stage[connector] = "connecting"
      /\ sent' = sent \/ sent' = Append(sent, connector)
      /\ cut' = cut
  BY PlacesFacts, SentFacts, Zenon
  DEF ConnectDone, ConnectFailed, LoginTaken, Proceed, Send
<1>2. \A r \in Queued : ~Mine(r)
  BY <1>1, NotMine
<1>3. CASE link' # "open" /\ \E q \in Requests, outcome \in {"ok", "error"} : Settle(q, outcome)
  <2>1. PICK q \in Requests, outcome \in {"ok", "error"} : Settle(q, outcome)
    BY <1>3
  <2>2. \A r \in Queued : stage'[r] = "sent" => stage[r] = "sent"
    BY <2>1, SettleTasks, KindFacts
  <2> QED
    BY <1>1, <1>2, <1>3, <2>2, HeardKept
<1>4. CASE ConnectDone
  <2>1. CASE connector \in Queued
    <3>1. \A r \in Queued : r # connector => stage[r] # "sent"
      BY <1>1, <2>1 DEF ActiveInv, Awaited
    <3>2. \/ Send(connector, <<>>, TRUE)
          \/ \E outcome \in {"ok", "error"} : Settle(connector, outcome)
      BY <1>4, Zenon DEF ConnectDone, Proceed
    <3>3. \A r \in Requests : r # connector => stage'[r] = stage[r]
      BY <1>1, <3>2, SettleTasks DEF Send, TypeOK
    <3>4. \A r \in Queued : r # connector => stage'[r] # "sent"
      BY <3>1, <3>3, KindFacts
    <3>5. CASE Send(connector, <<>>, TRUE)
      <4>1. <<>> \in Seq(Requests)
        OBVIOUS
      <4> QED
        BY <1>1, <3>4, <3>5, <4>1, SendIsMine, OnlyOneSent
    <3>6. ASSUME NEW outcome \in {"ok", "error"}, Settle(connector, outcome) PROVE HeardInv'
      BY <1>1, <3>4, <3>6, SettleTasks, OnlyOneSent
    <3> QED
      BY <3>2, <3>5, <3>6
  <2>2. CASE connector \notin Queued
    <3>1. Kind[connector] = "version"
      BY <1>1, <1>4, <2>2, KindFacts DEF ConnectDone, PlacesInv
    <3>2. Send(connector, <<>>, TRUE)
      BY <1>1, <1>4, <3>1, VersionSends DEF ConnectDone
    <3>3. sent' = Append(sent, connector) /\ stage' = [stage EXCEPT ![connector] = "sent"]
      BY <3>2 DEF Send
    <3>4. \A r \in Queued : stage'[r] = "sent" => stage[r] = "sent"
      BY <2>2, <3>3, KindFacts DEF TypeOK
    <3> QED
      BY <1>1, <2>2, <3>3, <3>4, OvertakenBy
  <2> QED
    BY <2>1, <2>2
<1>5. CASE ConnectFailed \/ LoginTaken
  <2>1. link' # "open" /\ \E q \in Requests, outcome \in {"ok", "error"} : Settle(q, outcome)
    BY <1>1, <1>5 DEF ConnectFailed, LoginTaken
  <2> QED
    BY <1>3, <2>1
<1> QED
  BY <1>4, <1>5

LEMMA AnswerKeepsHeard ==
    ASSUME TypeOK, PlacesInv, SentInv, ActiveInv, HeardInv, Respond \/ SocketError \/ SocketEnd
    PROVE  HeardInv'
<1>1. link = "open" /\ sent' = sent
  BY DEF Respond, SocketError, SocketEnd, SocketDies
<1>2. ASSUME NEW q \in Requests, NEW outcome \in {"ok", "error"}, Settle(q, outcome),
             \A r \in Queued : Mine(r) => r = q, cut' = cut
      PROVE  HeardInv'
  <2>1. stage'[q] # "sent" /\ \A r \in Requests : r # q => stage'[r] = stage[r]
    BY <1>2, SettleTasks
  <2>2. \A r \in Queued : stage'[r] = "sent" => stage[r] = "sent" /\ r # q
    BY <2>1, KindFacts
  <2> QED
    BY <1>1, <1>2, <2>2, HeardKept
<1>3. CASE Respond
  <2>1. cut' = cut
    BY <1>3 DEF Respond
  <2>2. CASE ~listening /\ stage' = stage
    BY <1>1, <2>1, <2>2, HeardKept DEF Mine
  <2>3. CASE slot \in Requests /\ \E outcome \in {"ok", "error"} : Settle(slot, outcome)
    BY <1>2, <2>1, <2>3 DEF Mine
  <2> QED
    BY <1>3, <2>2, <2>3 DEF Respond, Outcomes, PlacesInv
<1>4. CASE SocketError
  <2>1. cut' = cut
    BY <1>4 DEF SocketError
  <2>2. CASE eventCallback = "login" /\ stage' = stage
    BY <1>1, <2>1, <2>2, KindFacts, HeardKept DEF Mine
  <2>3. CASE eventCallback \in Requests /\ \E outcome \in {"ok", "error"} : Settle(eventCallback, outcome)
    BY <1>2, <2>1, <2>3 DEF Mine
  <2> QED
    BY <1>4, <2>2, <2>3 DEF SocketError
<1>5. CASE SocketEnd
  <2>1. cut' = cut \cup {r \in Requests : stage[r] = "sent" /\ Kind[r] # "closeQuery"}
    BY <1>5 DEF SocketEnd
  <2>2. CASE stage' = stage /\ \A r \in Requests : Kind[r] = "closeQuery" => stage[r] # "sent"
    BY <2>1, <2>2, KindFacts DEF HeardInv
  <2>3. ASSUME NEW q \in Requests, Kind[q] = "closeQuery", stage[q] = "sent", Settle(q, "ok")
        PROVE  HeardInv'
    <3>1. q \in Queued /\ currentItem = q
      BY <2>3, KindFacts DEF ActiveInv, Awaited
    <3>2. stage'[q] # "sent" /\ \A r \in Requests : r # q => stage'[r] = stage[r]
      BY <2>3, SettleTasks
    <3>3. \A r \in Queued : r # q => stage[r] # "sent"
      BY <3>1 DEF ActiveInv, Awaited
    <3> QED
      BY <3>2, <3>3, KindFacts DEF HeardInv
  <2> QED
    BY <1>5, <2>2, <2>3 DEF SocketEnd
<1> QED
  BY <1>3, <1>4, <1>5

LEMMA StepKeepsHeard ==
    ASSUME TypeOK, PlacesInv, QueueInv, ~Queue!RepeatedDone, SentInv, WireInv, ActiveInv,
           HeardInv, [Next]_vars
    PROVE  HeardInv'
<1>1. CASE UNCHANGED vars \/ \E mode \in BOOLEAN : SetAutoCommitMode(mode)
  <2>1. UNCHANGED <<stage, cut, sent, link, wire, listening, slot, eventCallback>>
    BY <1>1 DEF SetAutoCommitMode, vars, callVars, socketVars
  <2> QED
    BY <2>1 DEF HeardInv, Mine, Overtaken, Adrift
<1> QED
  BY <1>1, CallKeepsHeard, RunItemKeepsHeard, MicrotaskKeepsHeard, ConnectorKeepsHeard,
     AnswerKeepsHeard DEF Next

\* Only a getEngineVersion() or a close(), which ask no queue, take the answer of a
\* queued request: one that is not heard was sent before one of them, or is a
\* rollback() that had no open connection, or the server's end cut it off, or some
\* caller's repeated `done` broke the queue.
THEOREM OnlyOvertakenAreUnheard == Spec => []HeardUnlessOvertaken
<1> DEFINE Inv == WireInv /\ (Queue!RepeatedDone \/ (ActiveInv /\ HeardInv))
<1>1. Init => Inv
  <2> SUFFICES ASSUME Init PROVE WireInv /\ ActiveInv /\ HeardInv
    OBVIOUS
  <2>1. wire = <<>> /\ micro = <<>> /\ \A r \in Requests : stage[r] = "idle"
    BY DEF Init
  <2> QED
    BY <2>1, KindFacts DEF WireInv, ActiveInv, HeardInv, Awaited
<1>2. /\ TypeOK /\ PlacesInv /\ UntilRepeated /\ Inv /\ [Next]_vars /\ UntilRepeated'
      => Inv'
  <2> SUFFICES ASSUME TypeOK, PlacesInv, UntilRepeated, Inv, [Next]_vars, UntilRepeated'
               PROVE  Inv'
    OBVIOUS
  <2>1. WireInv'
    BY StepKeepsWire
  <2>2. Queue!RepeatedDone => Queue!RepeatedDone'
    BY StepKeepsQueueInv DEF UntilRepeated
  <2>3. ~Queue!RepeatedDone' => ActiveInv' /\ HeardInv'
    BY <2>2, StepKeepsActive, StepKeepsHeard DEF UntilRepeated
  <2> QED
    BY <2>1, <2>3
<1>3. Inv => HeardUnlessOvertaken
  BY Zenon DEF HeardUnlessOvertaken, HeardInv, Mine, Overtaken, Adrift
<1> QED
  BY <1>1, <1>2, <1>3, PlacesHold, UntilRepeatedHolds, PTL DEF Spec
=============================================================================

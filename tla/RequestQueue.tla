---------------------------- MODULE RequestQueue ----------------------------
(***************************************************************************)
(* src/query/Queue.js: the queue that serialises the requests of one        *)
(* connection.  An item is a function; the queue calls it from a            *)
(* setImmediate callback and hands it `done`, which the item calls when its *)
(* request is over.  The callback does not capture the item: it reads       *)
(* `this.currentItem` when it fires, which is why immediates are counted    *)
(* here and not paired with a request.                                      *)
(***************************************************************************)
EXTENDS Naturals, Sequences

CONSTANTS
    Request,    \* the items, each a closure made for one request
    Urgent,     \* those given to unshift(): fetch, close query, commit, rollback
    NoRequest,  \* `currentItem` when no item is being processed
    DoneLimit   \* how often one run of an item may call the `done` it got

ASSUME RequestAssumption == NoRequest \notin Request /\ Urgent \subseteq Request
ASSUME DoneLimitAssumption == DoneLimit \in Nat \ {0}

VARIABLES
    items,        \* this.items
    currentItem,  \* this.currentItem
    immediates,   \* setImmediate callbacks scheduled and not yet fired
    runs,         \* how often each item has been called
    dones,        \* how often each item has called `done`
    accepted,     \* the items that were ever given to the queue
    dropped,      \* the items that empty() threw away
    node          \* "crashed" once an immediate called a currentItem that was null

queueVars == <<items, currentItem, immediates>>
historyVars == <<runs, dones, accepted, dropped>>
vars == <<queueVars, historyVars, node>>

Waiting == {items[i] : i \in 1..Len(items)}

\* An item that was called and has not called `done` yet.
Running(r) == dones[r] < runs[r]

TypeOK ==
    /\ items \in Seq(Request)
    /\ currentItem \in Request \cup {NoRequest}
    /\ immediates \in Nat
    /\ runs \in [Request -> Nat]
    /\ dones \in [Request -> Nat]
    /\ accepted \subseteq Request
    /\ dropped \subseteq Request
    /\ node \in {"up", "crashed"}

Init ==
    /\ items = <<>>
    /\ currentItem = NoRequest
    /\ immediates = 0
    /\ runs = [r \in Request |-> 0]
    /\ dones = [r \in Request |-> 0]
    /\ accepted = {}
    /\ dropped = {}
    /\ node = "up"

-----------------------------------------------------------------------------
(* Operators named after a fault (ProcessClaimsAlways, ...) are mutants of   *)
(* the definition that follows them; Next uses none of them.                 *)

ProcessClaimsAlways(line, current) ==
    \/ /\ line # <<>>
       /\ items' = Tail(line)
       /\ currentItem' = Head(line)
       /\ immediates' = immediates + 1
    \/ /\ line = <<>>
       /\ items' = line
       /\ currentItem' = current
       /\ UNCHANGED immediates

\* process() entered with the given items and currentItem: it claims the front
\* item if none is claimed.
Process(line, current) ==
    \/ /\ current = NoRequest
       /\ line # <<>>
       /\ items' = Tail(line)
       /\ currentItem' = Head(line)
       /\ immediates' = immediates + 1
    \/ /\ current # NoRequest \/ line = <<>>
       /\ items' = line
       /\ currentItem' = current
       /\ UNCHANGED immediates

Accept(r) ==
    /\ node = "up"
    /\ r \notin accepted
    /\ accepted' = accepted \cup {r}
    /\ UNCHANGED <<runs, dones, dropped, node>>

PushInFront(r) ==
    /\ r \notin Urgent
    /\ Accept(r)
    /\ Process(<<r>> \o items, currentItem)

Push(r) ==
    /\ r \notin Urgent
    /\ Accept(r)
    /\ Process(Append(items, r), currentItem)

UnshiftPreempts(r) ==
    /\ r \in Urgent
    /\ Accept(r)
    /\ Process(<<r, currentItem>> \o items, NoRequest)

Unshift(r) ==
    /\ r \in Urgent
    /\ Accept(r)
    /\ Process(<<r>> \o items, currentItem)

\* The setImmediate callback: it calls whatever currentItem is by now.
RunImmediate ==
    /\ node = "up"
    /\ immediates > 0
    /\ immediates' = immediates - 1
    /\ \/ /\ currentItem \in Request
          /\ runs' = [runs EXCEPT ![currentItem] = @ + 1]
          /\ UNCHANGED node
       \/ /\ currentItem = NoRequest
          /\ node' = "crashed"
          /\ UNCHANGED runs
    /\ UNCHANGED <<items, currentItem, dones, accepted, dropped>>

DoneForgetsProcess(r) ==
    /\ node = "up"
    /\ dones[r] < DoneLimit * runs[r]
    /\ dones' = [dones EXCEPT ![r] = @ + 1]
    /\ currentItem' = NoRequest
    /\ UNCHANGED <<items, immediates, runs, accepted, dropped, node>>

\* `done`, as a run of item r calls it.  It does not look at which item is
\* current.
Done(r) ==
    /\ node = "up"
    /\ dones[r] < DoneLimit * runs[r]
    /\ dones' = [dones EXCEPT ![r] = @ + 1]
    /\ Process(items, NoRequest)
    /\ UNCHANGED <<runs, accepted, dropped, node>>

EmptyDropsCurrent ==
    /\ node = "up"
    /\ items' = <<>>
    /\ currentItem' = NoRequest
    /\ dropped' = dropped \cup Waiting
    /\ UNCHANGED <<immediates, runs, dones, accepted, node>>

Empty ==
    /\ node = "up"
    /\ items' = <<>>
    /\ dropped' = dropped \cup Waiting
    /\ UNCHANGED <<currentItem, immediates, runs, dones, accepted, node>>

GetDepth == Len(items) + (IF currentItem # NoRequest THEN 1 ELSE 0)

IsEmpty == Len(items) = 0 /\ currentItem = NoRequest

Next ==
    \/ \E r \in Request : Push(r) \/ Unshift(r) \/ Done(r)
    \/ RunImmediate
    \/ Empty

Spec == Init /\ [][Next]_vars

\* Node fires every immediate it was given; an item that was called calls
\* `done` sooner or later.  The second is the queue's demand on its items.
Fairness ==
    /\ WF_vars(RunImmediate)
    /\ \A r \in Request : WF_vars(Done(r))

FairSpec == Spec /\ Fairness

-----------------------------------------------------------------------------
\* One active request: two items are never between their call and their
\* `done` together (README "Request flow": the response has one owner).
OneAtATime == \A r, s \in Request : Running(r) /\ Running(s) => r = s

\* No item is ever called twice, whatever interleaving of process(),
\* immediates and `done` callbacks: an execute() is sent once.
RunAtMostOnce == \A r \in Request : runs[r] <= 1

\* An accepted item is in the line, claimed, already called, or was dropped by
\* empty(): process() and `done` lose none.
NothingLost ==
    \A r \in accepted :
        \/ r \in Waiting \cup dropped
        \/ r = currentItem
        \/ runs[r] > 0

\* No immediate finds currentItem null, which would be an uncaught TypeError.
NeverCrashes == node = "up"

\* The queue breaks only if an item calls one `done` again: as long as no item
\* did, nothing is lost, called twice or called together with another.
RepeatedDone == \E r \in Request : dones[r] > runs[r]

OnlyRepeatedDoneBreaks ==
    RepeatedDone \/ (OneAtATime /\ RunAtMostOnce /\ NothingLost /\ NeverCrashes)

\* isQueueEmpty() and getQueueDepth() tell the truth: they count an item from
\* the moment it is accepted until it calls `done`, not only while it waits.
DepthIsTruthful ==
    /\ IsEmpty <=> GetDepth = 0
    /\ \A r \in Request : Running(r) => ~IsEmpty
    /\ GetDepth = 0 => \A r \in accepted : r \in dropped \/ dones[r] > 0

\* Every accepted item runs to its `done` unless empty() drops it.
EveryRequestSettles ==
    \A r \in Request :
        (r \in accepted) ~> (r \in dropped \/ dones[r] > 0)

\* The queue implements the serial executor.  A claimed item that was not
\* called yet is still the head of the line there.
Claimed == currentItem # NoRequest /\ runs[currentItem] = 0

Executor == INSTANCE SerialExecutor WITH
    waiting <- IF Claimed THEN <<currentItem>> \o items ELSE items,
    active <- {r \in Request : Running(r)},
    finished <- {r \in Request : runs[r] > 0 /\ ~Running(r)},
    discarded <- dropped

\* Ordinary requests are executed in the order of their calls, urgent ones
\* next, one at a time, each at most once (the abstract specification).
ImplementsExecutor == Executor!Spec
=============================================================================

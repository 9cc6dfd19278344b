--------------------------- MODULE SerialExecutor ---------------------------
(***************************************************************************)
(* What the driver promises of its request queue, with nothing of how the   *)
(* queue is built: requests are executed one at a time, each at most once,  *)
(* in the order they were submitted, except that an urgent request jumps    *)
(* the line (behind the head at most: the head may already be on its way    *)
(* to execution) and that the line may be thrown away, head excepted.       *)
(***************************************************************************)
EXTENDS Naturals, Sequences

CONSTANTS
    Request,    \* what is to be executed
    Urgent      \* the requests that jump the line

VARIABLES
    waiting,    \* the line, a sequence of requests
    active,     \* the set of requests being executed (a singleton or empty)
    finished,   \* the requests whose execution has ended
    discarded   \* the requests thrown away before they were executed

vars == <<waiting, active, finished, discarded>>

Fresh(r) ==
    /\ \A i \in 1..Len(waiting) : waiting[i] # r
    /\ r \notin active \cup finished \cup discarded

Init ==
    /\ waiting = <<>>
    /\ active = {}
    /\ finished = {}
    /\ discarded = {}

Submit(r) ==
    /\ r \notin Urgent
    /\ Fresh(r)
    /\ waiting' = Append(waiting, r)
    /\ UNCHANGED <<active, finished, discarded>>

SubmitUrgent(r) ==
    /\ r \in Urgent
    /\ Fresh(r)
    /\ \/ waiting' = <<r>> \o waiting
       \/ /\ waiting # <<>>
          /\ waiting' = <<Head(waiting)>> \o (<<r>> \o Tail(waiting))
    /\ UNCHANGED <<active, finished, discarded>>

Start ==
    /\ active = {}
    /\ waiting # <<>>
    /\ active' = {Head(waiting)}
    /\ waiting' = Tail(waiting)
    /\ UNCHANGED <<finished, discarded>>

Finish ==
    /\ active # {}
    /\ active' = {}
    /\ finished' = finished \cup active
    /\ UNCHANGED <<waiting, discarded>>

Discard ==
    /\ \/ /\ waiting' = <<>>
          /\ discarded' = discarded \cup {waiting[i] : i \in 1..Len(waiting)}
       \/ /\ waiting # <<>>
          /\ waiting' = <<Head(waiting)>>
          /\ discarded' = discarded \cup {waiting[i] : i \in 2..Len(waiting)}
    /\ UNCHANGED <<active, finished>>

Next ==
    \/ \E r \in Request : Submit(r) \/ SubmitUrgent(r)
    \/ Start
    \/ Finish
    \/ Discard

Spec == Init /\ [][Next]_vars
=============================================================================

------------------------- MODULE RequestQueueProofs -------------------------
(***************************************************************************)
(* Proofs about src/query/Queue.js for any set of requests and any          *)
(* DoneLimit.  LineInv holds however often the items call `done`; SerialInv *)
(* holds until one of them calls it again, and every promise of the queue   *)
(* follows from it; so does, in the second half, that the queue implements  *)
(* SerialExecutor.                                                          *)
(***************************************************************************)
EXTENDS RequestQueue, TLAPS

\* What a repeated `done` cannot break: a waiting item was never called, was
\* accepted once and is not claimed; a claimed item has not called `done`.
LineInv ==
    /\ \A i, j \in 1..Len(items) : items[i] = items[j] => i = j
    /\ \A i \in 1..Len(items) :
          items[i] \in accepted /\ items[i] # currentItem /\ runs[items[i]] = 0
    /\ currentItem \in Request => currentItem \in accepted /\ dones[currentItem] = 0
    /\ \A r \in Request : runs[r] > 0 => r \in accepted
    /\ \A r \in Request : runs[r] = 0 => dones[r] = 0
    /\ dropped \subseteq accepted

\* What serialises: exactly one immediate is pending when an item is claimed
\* and not called, none otherwise; the line is empty when nothing is claimed;
\* only the claimed item can be running.
SerialInv ==
    /\ node = "up"
    /\ Claimed => immediates = 1
    /\ ~Claimed => immediates = 0
    /\ currentItem = NoRequest => items = <<>>
    /\ \A r \in Request : runs[r] <= 1
    /\ \A r \in Request : Running(r) => r = currentItem
    /\ NothingLost

IInv == LineInv /\ (RepeatedDone \/ SerialInv)

-----------------------------------------------------------------------------
\* process() either takes the front item of the line it is given or leaves
\* everything as it is given.
LEMMA ProcessCases ==
    ASSUME NEW line \in Seq(Request), NEW current \in Request \cup {NoRequest},
           immediates \in Nat, Process(line, current)
    PROVE  \/ /\ current = NoRequest
              /\ line # <<>>
              /\ currentItem' = line[1]
              /\ currentItem' \in Request
              /\ items' \in Seq(Request)
              /\ Len(items') = Len(line) - 1
              /\ \A i \in 1..Len(items') : items'[i] = line[i + 1]
              /\ immediates' = immediates + 1
           \/ /\ current # NoRequest \/ line = <<>>
              /\ items' = line
              /\ currentItem' = current
              /\ immediates' = immediates
  BY RequestAssumption DEF Process

\* Every operation of the queue leaves its state well typed.
LEMMA StepKeepsType == TypeOK /\ [Next]_vars => TypeOK'
<1> SUFFICES ASSUME TypeOK, [Next]_vars PROVE TypeOK'
  OBVIOUS
<1> USE DEF TypeOK
<1>1. ASSUME NEW r \in Request, Push(r) PROVE TypeOK'
  <2>1. PICK line \in Seq(Request) : line = Append(items, r)
    <3>1. Append(items, r) \in Seq(Request)
      OBVIOUS
    <3> QED
      BY <3>1, Zenon
  <2>2. Process(line, currentItem)
    BY <1>1, <2>1 DEF Push
  <2>3. items' \in Seq(Request) /\ currentItem' \in Request \cup {NoRequest} /\ immediates' \in Nat
    BY <2>2, ProcessCases
  <2> QED
    BY <1>1, <2>3 DEF Push, Accept
<1>2. ASSUME NEW r \in Request, Unshift(r) PROVE TypeOK'
  <2>1. PICK line \in Seq(Request) : line = <<r>> \o items
    <3>1. <<r>> \o items \in Seq(Request)
      OBVIOUS
    <3> QED
      BY <3>1, Zenon
  <2>2. Process(line, currentItem)
    BY <1>2, <2>1 DEF Unshift
  <2>3. items' \in Seq(Request) /\ currentItem' \in Request \cup {NoRequest} /\ immediates' \in Nat
    BY <2>2, ProcessCases
  <2> QED
    BY <1>2, <2>3 DEF Unshift, Accept
<1>3. ASSUME NEW r \in Request, Done(r) PROVE TypeOK'
  <2>1. Process(items, NoRequest) /\ items \in Seq(Request) /\ NoRequest \in Request \cup {NoRequest}
    BY <1>3 DEF Done
  <2>2. items' \in Seq(Request) /\ currentItem' \in Request \cup {NoRequest} /\ immediates' \in Nat
    BY <2>1, ProcessCases
  <2>3. dones' \in [Request -> Nat]
    BY <1>3 DEF Done
  <2> QED
    BY <1>3, <2>2, <2>3 DEF Done
<1>4. CASE RunImmediate
  BY <1>4 DEF RunImmediate
<1>5. CASE Empty
  BY <1>5 DEF Empty, Waiting
<1>6. CASE UNCHANGED vars
  BY <1>6 DEF vars, queueVars, historyVars
<1> QED
  BY <1>1, <1>2, <1>3, <1>4, <1>5, <1>6 DEF Next

\* The variables keep their types, whatever order the calls come in.
THEOREM TypeCorrect == Spec => []TypeOK
<1>1. Init => TypeOK
  BY DEF Init, TypeOK
<1> QED
  BY <1>1, StepKeepsType, PTL DEF Spec

-----------------------------------------------------------------------------
\* process() keeps a duplicate-free line duplicate-free and apart from the
\* claimed item, invents no item and loses none.
LEMMA ProcessKeepsLine ==
    ASSUME TypeOK,
           NEW line \in Seq(Request), NEW current \in Request \cup {NoRequest},
           Process(line, current),
           \A i, j \in 1..Len(line) : line[i] = line[j] => i = j,
           \A i \in 1..Len(line) : line[i] # current
    PROVE  /\ \A i, j \in 1..Len(items') : items'[i] = items'[j] => i = j
           /\ \A i \in 1..Len(items') : items'[i] # currentItem'
           /\ \A i \in 1..Len(items') : \E j \in 1..Len(line) : items'[i] = line[j]
           /\ \A j \in 1..Len(line) :
                 \/ line[j] = currentItem'
                 \/ \E i \in 1..Len(items') : items'[i] = line[j]
           /\ currentItem' = current \/ \E j \in 1..Len(line) : currentItem' = line[j]
<1>1. CASE /\ current = NoRequest
           /\ line # <<>>
           /\ currentItem' = line[1]
           /\ items' \in Seq(Request)
           /\ Len(items') = Len(line) - 1
           /\ \A i \in 1..Len(items') : items'[i] = line[i + 1]
  <2>1. Len(line) \in Nat /\ Len(line) > 0
    BY <1>1
  <2>2. \A j \in 1..Len(line) : j # 1 => j - 1 \in 1..Len(items') /\ items'[j - 1] = line[j]
    BY <1>1, <2>1
  <2>3. \A i \in 1..Len(items') : i + 1 \in 1..Len(line) /\ i + 1 # 1
    BY <1>1, <2>1
  <2> QED
    BY <1>1, <2>1, <2>2, <2>3
<1>2. CASE items' = line /\ currentItem' = current
  BY <1>2
<1> QED
  BY <1>1, <1>2, ProcessCases DEF TypeOK

\* A repeated `done` stays repeated: the item is neither waiting nor claimed,
\* so it is not called again.
LEMMA RepeatedDoneStable ==
    ASSUME TypeOK, LineInv, RepeatedDone, Next
    PROVE  RepeatedDone'
<1>1. PICK r \in Request : dones[r] > runs[r]
  BY DEF RepeatedDone
<1>2. dones[r] > 0 /\ r # currentItem
  BY <1>1 DEF TypeOK, LineInv
<1>3. runs'[r] = runs[r]
  <2>1. ASSUME NEW s \in Request, Push(s) \/ Unshift(s) \/ Done(s) PROVE runs' = runs
    BY <2>1 DEF Push, Unshift, Done, Accept
  <2>2. CASE RunImmediate
    BY <1>2, <2>2 DEF RunImmediate, TypeOK
  <2>3. CASE Empty
    BY <2>3 DEF Empty
  <2> QED
    BY <2>1, <2>2, <2>3 DEF Next
<1>4. dones'[r] \in Nat /\ dones'[r] >= dones[r]
  <2>1. ASSUME NEW s \in Request, Push(s) \/ Unshift(s) PROVE dones' = dones
    BY <2>1 DEF Push, Unshift, Accept
  <2>2. ASSUME NEW s \in Request, Done(s) PROVE dones' = [dones EXCEPT ![s] = @ + 1]
    BY <2>2 DEF Done
  <2>3. ASSUME RunImmediate \/ Empty PROVE dones' = dones
    BY <2>3 DEF RunImmediate, Empty
  <2>4. dones' = dones \/ \E s \in Request : dones' = [dones EXCEPT ![s] = @ + 1]
    BY <2>1, <2>2, <2>3 DEF Next
  <2>5. dones \in [Request -> Nat]
    BY DEF TypeOK
  <2>6. ASSUME NEW s \in Request, dones' = [dones EXCEPT ![s] = @ + 1]
        PROVE  dones'[r] = dones[r] \/ dones'[r] = dones[r] + 1
    BY <2>5, <2>6
  <2> QED
    BY <2>4, <2>5, <2>6
<1> QED
  BY <1>1, <1>3, <1>4 DEF RepeatedDone, TypeOK

\* Pushing and unshifting differ only in where the new item enters the line.
LEMMA InsertKeepsInv ==
    ASSUME TypeOK, TypeOK', IInv,
           NEW r \in Request, Accept(r),
           NEW line \in Seq(Request),
           Len(line) = Len(items) + 1,
           \A i, j \in 1..Len(line) : line[i] = line[j] => i = j,
           \A i \in 1..Len(line) :
              line[i] = r \/ \E j \in 1..Len(items) : line[i] = items[j],
           \A j \in 1..Len(items) : \E i \in 1..Len(line) : line[i] = items[j],
           \E i \in 1..Len(line) : line[i] = r,
           Process(line, currentItem)
    PROVE  IInv'
<1>1. /\ accepted' = accepted \cup {r} /\ r \notin accepted
      /\ runs' = runs /\ dones' = dones /\ dropped' = dropped /\ node' = node
  BY DEF Accept
<1>2. runs[r] = 0 /\ dones[r] = 0 /\ r # currentItem
  <2>1. runs[r] \in Nat
    BY DEF TypeOK
  <2> QED
    BY <1>1, <2>1 DEF IInv, LineInv
<1>3. \A i \in 1..Len(line) :
         line[i] # currentItem /\ runs[line[i]] = 0 /\ dones[line[i]] = 0 /\ line[i] \in accepted'
  <2>1. \A j \in 1..Len(items) :
           /\ items[j] \in Request /\ items[j] # currentItem /\ runs[items[j]] = 0
           /\ items[j] \in accepted
    BY DEF TypeOK, IInv, LineInv
  <2>2. \A j \in 1..Len(items) : dones[items[j]] = 0
    BY <2>1 DEF IInv, LineInv
  <2> QED
    BY <1>1, <1>2, <2>1, <2>2
<1>4. /\ \A i, j \in 1..Len(items') : items'[i] = items'[j] => i = j
      /\ \A i \in 1..Len(items') : items'[i] # currentItem'
      /\ \A i \in 1..Len(items') : \E j \in 1..Len(line) : items'[i] = line[j]
      /\ \A j \in 1..Len(line) :
            \/ line[j] = currentItem'
            \/ \E i \in 1..Len(items') : items'[i] = line[j]
      /\ currentItem' = currentItem \/ \E j \in 1..Len(line) : currentItem' = line[j]
  <2>1. currentItem \in Request \cup {NoRequest}
    BY DEF TypeOK
  <2> QED
    BY <1>3, <2>1, ProcessKeepsLine
<1>5. LineInv'
  <2>1. ASSUME NEW i \in 1..Len(items') PROVE items'[i] \in accepted' /\ runs'[items'[i]] = 0
    <3>1. PICK j \in 1..Len(line) : items'[i] = line[j]
      BY <1>4
    <3> QED
      BY <1>1, <1>3, <3>1
  <2>2. currentItem' \in Request => currentItem' \in accepted' /\ dones'[currentItem'] = 0
    BY <1>1, <1>3, <1>4 DEF IInv, LineInv
  <2>3. \A s \in Request : /\ runs'[s] > 0 => s \in accepted'
                           /\ runs'[s] = 0 => dones'[s] = 0
    BY <1>1 DEF IInv, LineInv
  <2>4. dropped' \subseteq accepted'
    BY <1>1 DEF IInv, LineInv
  <2> QED
    BY <1>4, <2>1, <2>2, <2>3, <2>4 DEF LineInv
<1>6. RepeatedDone => RepeatedDone'
  BY <1>1 DEF RepeatedDone
<1>7. SerialInv => SerialInv'
  <2> SUFFICES ASSUME SerialInv PROVE SerialInv'
    OBVIOUS
  <2>1. node' = "up"
    BY <1>1 DEF SerialInv
  <2>2. \A s \in Request : runs'[s] <= 1
    BY <1>1 DEF SerialInv
  <2>3. /\ Claimed' => immediates' = 1
        /\ ~Claimed' => immediates' = 0
        /\ currentItem' = NoRequest => items' = <<>>
        /\ currentItem # NoRequest => currentItem' = currentItem
    <3>1. CASE currentItem = NoRequest
      <4>1. currentItem' = line[1] /\ currentItem' \in Request /\ immediates' = immediates + 1
        BY <3>1, ProcessCases DEF TypeOK
      <4>2. runs'[currentItem'] = 0
        BY <1>1, <1>3, <4>1
      <4> QED
        BY <3>1, <4>1, <4>2, RequestAssumption DEF SerialInv, Claimed
    <3>2. CASE currentItem # NoRequest
      <4>1. currentItem' = currentItem /\ immediates' = immediates
        BY <3>2, ProcessCases DEF TypeOK
      <4> QED
        BY <3>2, <4>1, <1>1 DEF SerialInv, Claimed
    <3> QED
      BY <3>1, <3>2
  <2>4. \A s \in Request : Running(s)' => s = currentItem'
    BY <1>1, <2>3, RequestAssumption DEF SerialInv, Running
  <2>5. NothingLost'
    <3>1. ASSUME NEW s \in accepted', ~(runs'[s] > 0), s \notin dropped', s # currentItem'
          PROVE  s \in Waiting'
      <4>1. s # currentItem
        BY <2>3, <3>1, RequestAssumption DEF TypeOK
      <4>2. \E j \in 1..Len(line) : line[j] = s
        BY <1>1, <3>1, <4>1 DEF SerialInv, NothingLost, Waiting
      <4> QED
        BY <1>4, <3>1, <4>2 DEF Waiting
    <3> QED
      BY <3>1 DEF NothingLost
  <2> QED
    BY <2>1, <2>2, <2>3, <2>4, <2>5 DEF SerialInv
<1> QED
  BY <1>5, <1>6, <1>7 DEF IInv

LEMMA PushKeepsInv ==
    ASSUME TypeOK, TypeOK', IInv, NEW r \in Request, Push(r) PROVE IInv'
<1>1. PICK line \in Seq(Request) : line = Append(items, r)
  <2>1. Append(items, r) \in Seq(Request)
    BY DEF TypeOK
  <2> QED
    BY <2>1, Zenon
<1>2. /\ Len(line) = Len(items) + 1
      /\ \A i \in 1..Len(items) : line[i] = items[i]
      /\ line[Len(items) + 1] = r
  BY <1>1 DEF TypeOK
<1>3. Len(items) \in Nat
  BY DEF TypeOK
<1>4. Accept(r) /\ Process(line, currentItem)
  BY <1>1 DEF Push
<1>5. \A i \in 1..Len(items) : items[i] # r
  BY <1>4 DEF Accept, IInv, LineInv
<1>6. \A i \in 1..Len(line) : i \in 1..Len(items) \/ i = Len(items) + 1
  BY <1>2, <1>3
<1>7. \A i, j \in 1..Len(line) : line[i] = line[j] => i = j
  BY <1>2, <1>5, <1>6 DEF IInv, LineInv
<1>8. /\ \A i \in 1..Len(line) :
            line[i] = r \/ \E j \in 1..Len(items) : line[i] = items[j]
      /\ \A j \in 1..Len(items) : \E i \in 1..Len(line) : line[i] = items[j]
      /\ \E i \in 1..Len(line) : line[i] = r
  BY <1>2, <1>3, <1>6
<1> QED
  BY <1>2, <1>4, <1>7, <1>8, InsertKeepsInv

LEMMA UnshiftKeepsInv ==
    ASSUME TypeOK, TypeOK', IInv, NEW r \in Request, Unshift(r) PROVE IInv'
<1>1. PICK line \in Seq(Request) : line = <<r>> \o items
  <2>1. <<r>> \o items \in Seq(Request)
    BY DEF TypeOK
  <2> QED
    BY <2>1, Zenon
<1>2. /\ Len(line) = Len(items) + 1
      /\ \A i \in 1..Len(items) : line[i + 1] = items[i]
      /\ line[1] = r
  BY <1>1 DEF TypeOK
<1>3. Len(items) \in Nat
  BY DEF TypeOK
<1>4. Accept(r) /\ Process(line, currentItem)
  BY <1>1 DEF Unshift
<1>5. \A i \in 1..Len(items) : items[i] # r
  BY <1>4 DEF Accept, IInv, LineInv
<1>6. \A i \in 1..Len(line) : i = 1 \/ (i - 1 \in 1..Len(items) /\ line[i] = items[i - 1])
  BY <1>2, <1>3
<1>7. \A i, j \in 1..Len(line) : line[i] = line[j] => i = j
  <2> TAKE i, j \in 1..Len(line)
  <2> HAVE line[i] = line[j]
  <2>1. CASE i = 1 \/ j = 1
    BY <1>2, <1>5, <1>6, <2>1
  <2>2. CASE i # 1 /\ j # 1
    <3>1. i - 1 = j - 1
      BY <1>6, <2>2 DEF IInv, LineInv
    <3> QED
      BY <3>1
  <2> QED
    BY <2>1, <2>2
<1>8. /\ \A i \in 1..Len(line) :
            line[i] = r \/ \E j \in 1..Len(items) : line[i] = items[j]
      /\ \A j \in 1..Len(items) : \E i \in 1..Len(line) : line[i] = items[j]
      /\ \E i \in 1..Len(line) : line[i] = r
  <2>1. 1 \in 1..Len(line) /\ \A j \in 1..Len(items) : j + 1 \in 1..Len(line)
    BY <1>2, <1>3
  <2> QED
    BY <1>2, <1>6, <2>1
<1> QED
  BY <1>2, <1>4, <1>7, <1>8, InsertKeepsInv

\* The first `done` of the running item frees the queue for the next one; a
\* second `done` of the same run is what RepeatedDone records.
LEMMA DoneKeepsInv ==
    ASSUME TypeOK, TypeOK', IInv, NEW r \in Request, Done(r) PROVE IInv'
<1>1. /\ accepted' = accepted /\ runs' = runs /\ dropped' = dropped /\ node' = node
      /\ dones' = [dones EXCEPT ![r] = @ + 1]
      /\ Process(items, NoRequest)
  BY DEF Done
<1>2. runs[r] > 0
  <2>1. runs[r] \in Nat /\ dones[r] \in Nat /\ dones[r] < DoneLimit * runs[r]
    BY DEF Done, TypeOK
  <2>2. runs[r] = 0 => dones[r] = 0
    BY DEF IInv, LineInv
  <2>3. DoneLimit * 0 = 0
    BY DoneLimitAssumption
  <2>4. ~(runs[r] = 0)
    BY <2>1, <2>2, <2>3
  <2> QED
    BY <2>1, <2>4
<1>3. \A i \in 1..Len(items) : items[i] \in Request /\ items[i] # r /\ dones'[items[i]] = 0
  BY <1>1, <1>2 DEF IInv, LineInv, TypeOK
<1>4. /\ \A i, j \in 1..Len(items') : items'[i] = items'[j] => i = j
      /\ \A i \in 1..Len(items') : items'[i] # currentItem'
      /\ \A i \in 1..Len(items') : \E j \in 1..Len(items) : items'[i] = items[j]
      /\ \A j \in 1..Len(items) :
            \/ items[j] = currentItem'
            \/ \E i \in 1..Len(items') : items'[i] = items[j]
      /\ currentItem' = NoRequest \/ \E j \in 1..Len(items) : currentItem' = items[j]
  <2>1. items \in Seq(Request) /\ \A i \in 1..Len(items) : items[i] # NoRequest
    BY <1>3, RequestAssumption DEF TypeOK
  <2>2. \A i, j \in 1..Len(items) : items[i] = items[j] => i = j
    BY DEF IInv, LineInv
  <2> QED
    BY <1>1, <2>1, <2>2, ProcessKeepsLine
<1>5. LineInv'
  <2>1. \A i \in 1..Len(items') : items'[i] \in accepted' /\ runs'[items'[i]] = 0
    BY <1>1, <1>4 DEF IInv, LineInv
  <2>2. currentItem' \in Request => currentItem' \in accepted' /\ dones'[currentItem'] = 0
    BY <1>1, <1>3, <1>4, RequestAssumption DEF IInv, LineInv
  <2>3. \A s \in Request : runs'[s] > 0 => s \in accepted'
    BY <1>1 DEF IInv, LineInv
  <2>4. \A s \in Request : runs'[s] = 0 => dones'[s] = 0
    BY <1>1, <1>2 DEF IInv, LineInv, TypeOK
  <2>5. dropped' \subseteq accepted'
    BY <1>1 DEF IInv, LineInv
  <2> QED
    BY <1>4, <2>1, <2>2, <2>3, <2>4, <2>5 DEF LineInv
<1>6. RepeatedDone => RepeatedDone'
  BY RepeatedDoneStable DEF Next, IInv
<1>7. ASSUME SerialInv, ~RepeatedDone' PROVE SerialInv'
  <2>1. dones'[r] = dones[r] + 1 /\ dones'[r] <= runs'[r]
    BY <1>1, <1>7 DEF RepeatedDone, TypeOK
  <2>2. runs[r] = 1 /\ dones[r] = 0
    BY <1>1, <1>2, <1>7, <2>1 DEF SerialInv, TypeOK
  <2>3. Running(r) /\ currentItem = r
    BY <1>7, <2>2 DEF Running, SerialInv
  <2>4. immediates = 0
    BY <1>7, <2>2, <2>3 DEF SerialInv, Claimed
  <2>5. \A s \in Request : ~Running(s)'
    <3>1. \A s \in Request : s # r => ~Running(s)
      BY <1>7, <2>3 DEF SerialInv
    <3> QED
      BY <1>1, <2>1, <2>2, <3>1 DEF Running, TypeOK
  <2>6. /\ Claimed' => immediates' = 1
        /\ ~Claimed' => immediates' = 0
        /\ currentItem' = NoRequest => items' = <<>>
    <3>1. CASE /\ items # <<>> /\ currentItem' = items[1] /\ currentItem' \in Request
               /\ immediates' = immediates + 1
      <4>1. runs'[currentItem'] = 0
        <5>1. 1 \in 1..Len(items)
          BY <3>1 DEF TypeOK
        <5> QED
          BY <1>1, <3>1, <5>1 DEF IInv, LineInv
      <4> QED
        BY <2>4, <3>1, <4>1, RequestAssumption DEF Claimed
    <3>2. CASE items' = items /\ items = <<>> /\ currentItem' = NoRequest /\ immediates' = immediates
      BY <2>4, <3>2 DEF Claimed
    <3> QED
      BY <1>1, <3>1, <3>2, ProcessCases DEF TypeOK
  <2>7. NothingLost'
    <3>1. ASSUME NEW s \in accepted', ~(runs'[s] > 0), s \notin dropped', s # currentItem'
          PROVE  s \in Waiting'
      <4>1. s # currentItem
        BY <1>1, <1>2, <2>3, <3>1
      <4>2. \E j \in 1..Len(items) : items[j] = s
        BY <1>1, <1>7, <3>1, <4>1 DEF SerialInv, NothingLost, Waiting
      <4> QED
        BY <1>4, <3>1, <4>2 DEF Waiting
    <3> QED
      BY <3>1 DEF NothingLost
  <2> QED
    BY <1>1, <1>7, <2>5, <2>6, <2>7 DEF SerialInv
<1> QED
  BY <1>5, <1>6, <1>7 DEF IInv

\* The immediate calls the one claimed item and no item when none is claimed.
LEMMA RunImmediateKeepsInv ==
    ASSUME TypeOK, TypeOK', IInv, RunImmediate PROVE IInv'
<1>1. /\ accepted' = accepted /\ dones' = dones /\ dropped' = dropped
      /\ items' = items /\ currentItem' = currentItem /\ immediates' = immediates - 1
      /\ immediates > 0
  BY DEF RunImmediate
<1>2. \A s \in Request : runs'[s] = IF s = currentItem THEN runs[s] + 1 ELSE runs[s]
  BY RequestAssumption DEF RunImmediate, TypeOK
<1>3. LineInv'
  <2>1. \A i \in 1..Len(items) : items[i] \in Request /\ runs'[items[i]] = 0
    BY <1>2 DEF IInv, LineInv, TypeOK
  <2>2. \A s \in Request : runs'[s] > 0 => s \in accepted
    BY <1>2 DEF IInv, LineInv
  <2>3. \A s \in Request : runs'[s] = 0 => dones[s] = 0
    BY <1>2 DEF IInv, LineInv, TypeOK
  <2> QED
    BY <1>1, <2>1, <2>2, <2>3 DEF IInv, LineInv
<1>4. RepeatedDone => RepeatedDone'
  BY RepeatedDoneStable DEF Next, IInv
<1>5. SerialInv => SerialInv'
  <2> SUFFICES ASSUME SerialInv PROVE SerialInv'
    OBVIOUS
  <2>1. Claimed /\ immediates = 1 /\ currentItem \in Request /\ runs[currentItem] = 0
    BY <1>1 DEF SerialInv, Claimed, TypeOK
  <2>2. node' = "up"
    BY <2>1, RequestAssumption DEF RunImmediate, SerialInv
  <2>3. runs'[currentItem] = 1 /\ ~Claimed' /\ immediates' = 0 /\ currentItem' # NoRequest
    BY <1>1, <1>2, <2>1, RequestAssumption DEF Claimed
  <2>4. \A s \in Request : runs'[s] <= 1
    BY <1>2, <2>1 DEF SerialInv
  <2>5. \A s \in Request : Running(s)' => s = currentItem'
    BY <1>1, <1>2 DEF SerialInv, Running
  <2>6. NothingLost'
    <3>1. \A s \in accepted : runs[s] > 0 => runs'[s] > 0
      <4> SUFFICES ASSUME NEW s \in accepted, runs[s] > 0 PROVE runs'[s] > 0
        OBVIOUS
      <4>1. s \in Request /\ runs[s] \in Nat
        BY DEF TypeOK
      <4>2. runs'[s] = runs[s] + 1 \/ runs'[s] = runs[s]
        BY <1>2, <4>1
      <4> QED
        BY <4>1, <4>2
    <3> QED
      BY <1>1, <3>1 DEF SerialInv, NothingLost, Waiting
  <2> QED
    BY <2>2, <2>3, <2>4, <2>5, <2>6 DEF SerialInv
<1> QED
  BY <1>3, <1>4, <1>5 DEF IInv

LEMMA EmptyKeepsInv ==
    ASSUME TypeOK, IInv, Empty PROVE IInv'
<1>1. /\ items' = <<>> /\ dropped' = dropped \cup Waiting
      /\ accepted' = accepted /\ dones' = dones /\ runs' = runs
      /\ currentItem' = currentItem /\ immediates' = immediates /\ node' = node
  BY DEF Empty
<1>2. Waiting' = {}
  BY <1>1 DEF Waiting
<1>3. LineInv'
  <2>1. dropped' \subseteq accepted
    BY <1>1 DEF IInv, LineInv, Waiting
  <2>2. \A i \in 1..Len(items') : FALSE
    BY <1>1
  <2> QED
    BY <1>1, <2>1, <2>2 DEF IInv, LineInv
<1>4. RepeatedDone => RepeatedDone'
  BY <1>1 DEF RepeatedDone
<1>5. SerialInv => SerialInv'
  <2> SUFFICES ASSUME SerialInv PROVE SerialInv'
    OBVIOUS
  <2>1. Claimed' <=> Claimed
    BY <1>1 DEF Claimed
  <2>2. \A s \in Request : Running(s)' <=> Running(s)
    BY <1>1 DEF Running
  <2>3. NothingLost'
    BY <1>1 DEF SerialInv, NothingLost
  <2> QED
    BY <1>1, <2>1, <2>2, <2>3 DEF SerialInv
<1> QED
  BY <1>3, <1>4, <1>5 DEF IInv

\* Every operation keeps what the queue relies on.
LEMMA StepKeepsInv == TypeOK /\ TypeOK' /\ IInv /\ [Next]_vars => IInv'
<1> SUFFICES ASSUME TypeOK, TypeOK', IInv, [Next]_vars PROVE IInv'
  OBVIOUS
<1>1. ASSUME NEW r \in Request, Push(r) PROVE IInv'
  BY <1>1, PushKeepsInv
<1>2. ASSUME NEW r \in Request, Unshift(r) PROVE IInv'
  BY <1>2, UnshiftKeepsInv
<1>3. ASSUME NEW r \in Request, Done(r) PROVE IInv'
  BY <1>3, DoneKeepsInv
<1>4. CASE RunImmediate
  BY <1>4, RunImmediateKeepsInv
<1>5. CASE Empty
  BY <1>5, EmptyKeepsInv
<1>6. CASE UNCHANGED vars
  <2>1. /\ items' = items /\ currentItem' = currentItem /\ immediates' = immediates
        /\ runs' = runs /\ dones' = dones /\ accepted' = accepted
        /\ dropped' = dropped /\ node' = node
    BY <1>6 DEF vars, queueVars, historyVars
  <2>2. LineInv'
    BY <2>1 DEF IInv, LineInv
  <2>3. RepeatedDone => RepeatedDone'
    BY <2>1 DEF RepeatedDone
  <2>4. SerialInv => SerialInv'
    <3>1. (Claimed' <=> Claimed) /\ (NothingLost' <=> NothingLost)
      BY <2>1 DEF Claimed, NothingLost, Waiting
    <3>2. \A s \in Request : Running(s)' <=> Running(s)
      BY <2>1 DEF Running
    <3> QED
      BY <2>1, <3>1, <3>2 DEF SerialInv
  <2> QED
    BY <2>2, <2>3, <2>4 DEF IInv
<1> QED
  BY <1>1, <1>2, <1>3, <1>4, <1>5, <1>6 DEF Next

\* The inductive invariant, for any DoneLimit.
THEOREM InvariantHolds == Spec => []IInv
<1>1. Init => IInv
  <2> SUFFICES ASSUME Init PROVE IInv
    OBVIOUS
  <2>1. LineInv
    BY RequestAssumption DEF Init, LineInv
  <2>2. ~Claimed /\ \A r \in Request : ~Running(r)
    BY DEF Init, Claimed, Running
  <2> QED
    BY <2>1, <2>2 DEF Init, IInv, SerialInv, NothingLost
<1> QED
  BY <1>1, StepKeepsInv, TypeCorrect, PTL DEF Spec

\* Whatever the items do, the queue runs each accepted item at most once, one
\* at a time, loses none and never calls a null item, until some item calls
\* the same `done` twice.
THEOREM OnlyRepeats == Spec => []OnlyRepeatedDoneBreaks
<1>1. TypeOK /\ IInv => OnlyRepeatedDoneBreaks
  <2> SUFFICES ASSUME TypeOK, IInv, ~RepeatedDone
               PROVE  OneAtATime /\ RunAtMostOnce /\ NothingLost /\ NeverCrashes
    BY DEF OnlyRepeatedDoneBreaks
  <2>1. SerialInv
    BY DEF IInv
  <2> QED
    BY <2>1 DEF SerialInv, OneAtATime, RunAtMostOnce, NeverCrashes
<1> QED
  BY <1>1, TypeCorrect, InvariantHolds, PTL

-----------------------------------------------------------------------------
(* What follows when each run of an item calls `done` at most once.          *)

DonesBounded == \A r \in Request : dones[r] <= runs[r]

LEMMA DoneOnce == ASSUME DoneLimit = 1 PROVE Spec => []DonesBounded
<1>1. Init => DonesBounded
  <2> SUFFICES ASSUME Init, NEW r \in Request PROVE dones[r] <= runs[r]
    BY DEF DonesBounded
  <2>1. dones[r] = 0 /\ runs[r] = 0
    BY DEF Init
  <2> QED
    BY <2>1
<1>2. TypeOK /\ DonesBounded /\ [Next]_vars => DonesBounded'
  <2> SUFFICES ASSUME TypeOK, DonesBounded, [Next]_vars PROVE DonesBounded'
    OBVIOUS
  <2>1. ASSUME NEW r \in Request, Push(r) \/ Unshift(r) PROVE DonesBounded'
    BY <2>1 DEF Push, Unshift, Accept, DonesBounded
  <2>2. ASSUME NEW r \in Request, Done(r) PROVE DonesBounded'
    <3>1. dones[r] < runs[r] /\ runs' = runs /\ dones' = [dones EXCEPT ![r] = @ + 1]
      BY <2>2, DoneLimit = 1 DEF Done, TypeOK
    <3> QED
      BY <3>1 DEF DonesBounded, TypeOK
  <2>3. CASE RunImmediate
    <3>1. dones' = dones /\ (runs' = runs \/ runs' = [runs EXCEPT ![currentItem] = @ + 1])
      BY <2>3 DEF RunImmediate
    <3>2. \A r \in Request : runs'[r] = runs[r] \/ runs'[r] = runs[r] + 1
      BY <3>1 DEF TypeOK
    <3>3. \A r \in Request : runs[r] \in Nat /\ dones[r] \in Nat
      BY DEF TypeOK
    <3>4. \A r \in Request : dones[r] <= runs'[r]
      BY <3>2, <3>3 DEF DonesBounded
    <3> QED
      BY <3>1, <3>4 DEF DonesBounded
  <2>4. CASE Empty
    BY <2>4 DEF Empty, DonesBounded
  <2>5. CASE UNCHANGED vars
    BY <2>5 DEF vars, historyVars, DonesBounded
  <2> QED
    BY <2>1, <2>2, <2>3, <2>4, <2>5 DEF Next
<1> QED
  BY <1>1, <1>2, TypeCorrect, PTL DEF Spec

\* With items that call `done` once per run, no two requests are ever active
\* together: a response always has one possible owner.
THEOREM Serialised == ASSUME DoneLimit = 1 PROVE Spec => []OneAtATime
<1>1. TypeOK /\ DonesBounded /\ OnlyRepeatedDoneBreaks => OneAtATime
  BY DEF TypeOK, DonesBounded, OnlyRepeatedDoneBreaks, RepeatedDone
<1> QED
  BY <1>1, TypeCorrect, DoneOnce, OnlyRepeats, PTL

\* With items that call `done` once per run, an item is called at most once.
THEOREM CalledAtMostOnce == ASSUME DoneLimit = 1 PROVE Spec => []RunAtMostOnce
<1>1. TypeOK /\ DonesBounded /\ OnlyRepeatedDoneBreaks => RunAtMostOnce
  BY DEF TypeOK, DonesBounded, OnlyRepeatedDoneBreaks, RepeatedDone
<1> QED
  BY <1>1, TypeCorrect, DoneOnce, OnlyRepeats, PTL

\* With items that call `done` once per run, process() and `done` lose no item.
THEOREM NoneLost == ASSUME DoneLimit = 1 PROVE Spec => []NothingLost
<1>1. TypeOK /\ DonesBounded /\ OnlyRepeatedDoneBreaks => NothingLost
  BY DEF TypeOK, DonesBounded, OnlyRepeatedDoneBreaks, RepeatedDone
<1> QED
  BY <1>1, TypeCorrect, DoneOnce, OnlyRepeats, PTL

\* isQueueEmpty() and getQueueDepth() count the running item, so an empty
\* queue means that every accepted item was dropped or is done.
THEOREM DepthTruthful == ASSUME DoneLimit = 1 PROVE Spec => []DepthIsTruthful
<1>1. TypeOK /\ DonesBounded /\ IInv => DepthIsTruthful
  <2> SUFFICES ASSUME TypeOK, DonesBounded, IInv PROVE DepthIsTruthful
    OBVIOUS
  <2>1. SerialInv
    <3>1. ~RepeatedDone
      BY DEF TypeOK, DonesBounded, RepeatedDone
    <3> QED
      BY <3>1 DEF IInv
  <2>2. Len(items) \in Nat
    BY DEF TypeOK
  <2>3. IsEmpty <=> GetDepth = 0
    BY <2>2 DEF IsEmpty, GetDepth
  <2>4. \A r \in Request : Running(r) => ~IsEmpty
    BY <2>1, RequestAssumption DEF SerialInv, IsEmpty
  <2>5. ASSUME GetDepth = 0, NEW r \in accepted PROVE r \in dropped \/ dones[r] > 0
    <3>1. IsEmpty /\ Waiting = {} /\ r # currentItem /\ r \in Request
      BY <2>2, <2>3, <2>5, RequestAssumption DEF IsEmpty, Waiting, TypeOK
    <3>2. r \in dropped \/ runs[r] > 0
      BY <2>1, <3>1 DEF SerialInv, NothingLost
    <3>3. ~(dones[r] < runs[r])
      BY <2>4, <3>1 DEF Running
    <3>4. runs[r] \in Nat /\ dones[r] \in Nat
      BY <3>1 DEF TypeOK
    <3> QED
      BY <3>2, <3>3, <3>4
  <2> QED
    BY <2>3, <2>4, <2>5 DEF DepthIsTruthful
<1> QED
  BY <1>1, TypeCorrect, DoneOnce, InvariantHolds, PTL

-----------------------------------------------------------------------------
(* src/query/Queue.js implements SerialExecutor when each run of an item   *)
(* calls `done` once: every step of the queue is a step of the executor or   *)
(* leaves its state alone.                                                   *)

\* The abstract state, as the refinement mapping of RequestQueue defines it.
Line == IF Claimed THEN <<currentItem>> \o items ELSE items
Active == {r \in Request : Running(r)}
Finished == {r \in Request : runs[r] > 0 /\ ~Running(r)}

\* The invariants the simulation needs, in one place.
Inv == TypeOK /\ IInv /\ DonesBounded

LEMMA InvFacts ==
    ASSUME Inv
    PROVE  /\ SerialInv /\ LineInv
           /\ items \in Seq(Request)
           /\ currentItem \in Request \cup {NoRequest}
           /\ \A r \in Request : runs[r] \in Nat /\ dones[r] \in Nat
           /\ Claimed => currentItem \in Request
<1>1. ~RepeatedDone
  BY DEF Inv, TypeOK, DonesBounded, RepeatedDone
<1> QED
  BY <1>1 DEF Inv, IInv, TypeOK, Claimed

\* An item that was not accepted is nowhere in the abstract state.
LEMMA NewIsFresh ==
    ASSUME Inv, NEW r \in Request, r \notin accepted
    PROVE  Executor!Fresh(r)
<1>1. /\ items \in Seq(Request) /\ LineInv
      /\ (Claimed => currentItem \in Request)
      /\ runs[r] \in Nat /\ dones[r] \in Nat
  BY InvFacts
<1>2. r # currentItem /\ r \notin dropped /\ ~(runs[r] > 0)
      /\ \A i \in 1..Len(items) : items[i] # r
  BY <1>1 DEF LineInv
<1>3. \A i \in 1..Len(Line) : Line[i] # r
  <2>1. CASE Claimed
    <3>1. Line = <<currentItem>> \o items
      BY <2>1 DEF Line
    <3>2. Len(Line) = Len(items) + 1 /\ Line[1] = currentItem
          /\ \A i \in 1..Len(Line) : i # 1 => i - 1 \in 1..Len(items) /\ Line[i] = items[i - 1]
      BY <1>1, <2>1, <3>1
    <3> QED
      BY <1>2, <3>2
  <2>2. CASE ~Claimed
    BY <1>2, <2>2 DEF Line
  <2> QED
    BY <2>1, <2>2
<1>4. ~Running(r)
  BY <1>1, <1>2 DEF Running, LineInv
<1> QED
  BY <1>2, <1>3, <1>4 DEF Executor!Fresh, Line

\* Accepting an item moves only the line of the abstract state.
LEMMA AcceptMovesLine ==
    ASSUME Inv, NEW r \in Request, Accept(r)
    PROVE  /\ runs' = runs /\ dones' = dones /\ dropped' = dropped /\ runs[r] = 0
           /\ Active' = Active /\ Finished' = Finished
<1>1. runs' = runs /\ dones' = dones /\ dropped' = dropped
  BY DEF Accept
<1>2. runs[r] = 0
  BY InvFacts DEF Accept, LineInv
<1> QED
  BY <1>1, <1>2 DEF Active, Finished, Running

LEMMA PushStep ==
    ASSUME Inv, NEW r \in Request, Push(r)
    PROVE  Executor!Submit(r)
<1>1. /\ runs' = runs /\ dropped' = dropped /\ runs[r] = 0
      /\ Active' = Active /\ Finished' = Finished
  BY AcceptMovesLine DEF Push
<1>2. Executor!Fresh(r) /\ r \notin Urgent
  BY NewIsFresh DEF Push, Accept
<1>3. Line' = Append(Line, r)
  <2>1. CASE currentItem = NoRequest
    <3>1. items = <<>> /\ ~Claimed
      BY <2>1, InvFacts DEF SerialInv, Claimed
    <3>2. Line = <<>> /\ Append(items, r) = <<r>> /\ <<r>> # <<>> /\ Head(<<r>>) = r /\ Tail(<<r>>) = <<>>
      BY <3>1 DEF Line
    <3>3. currentItem' = r /\ items' = <<>>
      BY <2>1, <3>1, <3>2 DEF Push, Process
    <3>4. Claimed'
      BY <1>1, <3>3, RequestAssumption DEF Claimed
    <3>5. Line' = <<r>> \o <<>>
      BY <3>3, <3>4 DEF Line
    <3> QED
      BY <3>2, <3>5
  <2>2. CASE currentItem # NoRequest
    <3>1. currentItem' = currentItem /\ items' = Append(items, r)
      BY <2>2 DEF Push, Process
    <3>2. Claimed' <=> Claimed
      BY <1>1, <3>1 DEF Claimed
    <3>3. CASE Claimed
      <4>1. Line = <<currentItem>> \o items /\ Line' = <<currentItem>> \o Append(items, r)
        BY <3>1, <3>2, <3>3 DEF Line
      <4>2. items \in Seq(Request) /\ <<currentItem>> \in Seq(Request)
        BY <3>3, InvFacts
      <4> QED
        BY <4>1, <4>2
    <3>4. CASE ~Claimed
      BY <3>1, <3>2, <3>4 DEF Line
    <3> QED
      BY <3>3, <3>4
  <2> QED
    BY <2>1, <2>2
<1> QED
  BY <1>1, <1>2, <1>3 DEF Executor!Submit, Line, Active, Finished

LEMMA UnshiftStep ==
    ASSUME Inv, NEW r \in Request, Unshift(r)
    PROVE  Executor!SubmitUrgent(r)
<1>1. /\ runs' = runs /\ dropped' = dropped /\ runs[r] = 0
      /\ Active' = Active /\ Finished' = Finished
  BY AcceptMovesLine DEF Unshift
<1>2. Executor!Fresh(r) /\ r \in Urgent
  BY NewIsFresh DEF Unshift, Accept
<1>3. \/ Line' = <<r>> \o Line
      \/ Line # <<>> /\ Line' = <<Head(Line)>> \o (<<r>> \o Tail(Line))
  <2>1. CASE currentItem = NoRequest
    <3>1. items = <<>> /\ ~Claimed
      BY <2>1, InvFacts DEF SerialInv, Claimed
    <3>2. Line = <<>> /\ <<r>> \o items = <<r>> /\ <<r>> # <<>> /\ Head(<<r>>) = r /\ Tail(<<r>>) = <<>>
      BY <3>1 DEF Line
    <3>3. currentItem' = r /\ items' = <<>>
      BY <2>1, <3>1, <3>2 DEF Unshift, Process
    <3>4. Claimed'
      BY <1>1, <3>3, RequestAssumption DEF Claimed
    <3>5. Line' = <<r>> \o <<>>
      BY <3>3, <3>4 DEF Line
    <3> QED
      BY <3>2, <3>5
  <2>2. CASE currentItem # NoRequest
    <3>1. currentItem' = currentItem /\ items' = <<r>> \o items
      BY <2>2 DEF Unshift, Process
    <3>2. Claimed' <=> Claimed
      BY <1>1, <3>1 DEF Claimed
    <3>3. CASE Claimed
      <4>1. Line = <<currentItem>> \o items /\ Line' = <<currentItem>> \o (<<r>> \o items)
        BY <3>1, <3>2, <3>3 DEF Line
      <4>2. items \in Seq(Request) /\ currentItem \in Request
        BY <3>3, InvFacts
      <4>3. Line # <<>> /\ Head(Line) = currentItem /\ Tail(Line) = items
        BY <4>1, <4>2
      <4> QED
        BY <4>1, <4>3
    <3>4. CASE ~Claimed
      BY <3>1, <3>2, <3>4 DEF Line
    <3> QED
      BY <3>3, <3>4
  <2> QED
    BY <2>1, <2>2
<1> QED
  BY <1>1, <1>2, <1>3 DEF Executor!SubmitUrgent, Line, Active, Finished

LEMMA StartStep ==
    ASSUME Inv, RunImmediate
    PROVE  Executor!Start
<1>1. Claimed /\ currentItem \in Request /\ runs[currentItem] = 0 /\ items \in Seq(Request)
  <2>1. ~(immediates = 0)
    BY DEF RunImmediate
  <2> QED
    BY <2>1, InvFacts DEF SerialInv, Claimed
<1>2. /\ items' = items /\ currentItem' = currentItem /\ dones' = dones /\ dropped' = dropped
      /\ runs' = [runs EXCEPT ![currentItem] = @ + 1]
  BY <1>1, RequestAssumption DEF RunImmediate
<1>3. /\ Line = <<currentItem>> \o items /\ Line # <<>>
      /\ Head(Line) = currentItem /\ Tail(Line) = items
  BY <1>1 DEF Line
<1>4. \A r \in Request : runs'[r] = IF r = currentItem THEN 1 ELSE runs[r]
  BY <1>1, <1>2 DEF Inv, TypeOK
<1>5. Line' = items
  <2>1. ~Claimed'
    BY <1>1, <1>2, <1>4 DEF Claimed
  <2> QED
    BY <1>2, <2>1 DEF Line
<1>6. dones[currentItem] = 0
  BY <1>1, InvFacts DEF LineInv
<1>7. \A r \in Request : ~Running(r)
  <2>1. ~Running(currentItem)
    BY <1>1, <1>6 DEF Running
  <2> QED
    BY <2>1, InvFacts DEF SerialInv
<1>8. Active = {} /\ Active' = {currentItem}
  BY <1>1, <1>2, <1>4, <1>6, <1>7 DEF Active, Running
<1>9. Finished' = Finished
  BY <1>1, <1>2, <1>4, <1>6 DEF Finished, Running
<1> QED
  BY <1>2, <1>3, <1>5, <1>8, <1>9 DEF Executor!Start, Line, Active, Finished

\* `done` of the running item ends it; the item that process() claims next
\* stays the head of the abstract line.
LEMMA FinishStep ==
    ASSUME Inv, NEW r \in Request, Done(r), dones[r] < runs[r]
    PROVE  Executor!Finish
<1>1. runs' = runs /\ dropped' = dropped /\ dones' = [dones EXCEPT ![r] = @ + 1]
  BY DEF Done
<1>2. runs[r] = 1 /\ dones[r] = 0
  <2>1. runs[r] \in Nat /\ dones[r] \in Nat /\ runs[r] <= 1
    BY InvFacts DEF SerialInv
  <2> QED
    BY <2>1
<1>3. Running(r) /\ currentItem = r /\ ~Claimed /\ Line = items
  <2>1. Running(r)
    BY <1>2 DEF Running
  <2>2. currentItem = r
    BY <2>1, InvFacts DEF SerialInv
  <2> QED
    BY <1>2, <2>1, <2>2 DEF Claimed, Line
<1>4. Active = {r}
  BY <1>3, InvFacts DEF SerialInv, Active
<1>5. \A s \in Request : dones'[s] = IF s = r THEN 1 ELSE dones[s]
  BY <1>1, <1>2 DEF Inv, TypeOK
<1>6. Active' = {}
  <2>1. \A s \in Request : s # r => ~Running(s)
    BY <1>4 DEF Active
  <2>2. \A s \in Request : ~(dones'[s] < runs[s])
    BY <1>2, <1>5, <2>1 DEF Running
  <2> QED
    BY <1>1, <2>2 DEF Active, Running
<1>7. Finished' = Finished \cup Active
  <2>1. \A s \in Request : s # r => (Running(s)' <=> Running(s))
    BY <1>1, <1>5 DEF Running
  <2>2. ~Running(r)' /\ runs'[r] > 0
    BY <1>1, <1>2, <1>5 DEF Running
  <2> QED
    BY <1>1, <1>3, <1>4, <2>1, <2>2 DEF Finished
<1>8. Line' = Line
  <2>1. CASE items = <<>>
    <3>1. items' = items /\ currentItem' = NoRequest
      BY <2>1 DEF Done, Process
    <3> QED
      BY <1>3, <3>1 DEF Claimed, Line
  <2>2. CASE items # <<>>
    <3>1. items' = Tail(items) /\ currentItem' = Head(items)
      BY <2>2 DEF Done, Process
    <3>2. items \in Seq(Request) /\ LineInv
      BY InvFacts
    <3>3. Head(items) \in Request /\ runs[Head(items)] = 0
      <4>1. 1 \in 1..Len(items) /\ Head(items) = items[1]
        BY <2>2, <3>2
      <4>2. items[1] \in Request
        BY <3>2, <4>1
      <4> QED
        BY <3>2, <4>1, <4>2 DEF LineInv
    <3>4. Claimed'
      BY <1>1, <3>1, <3>3, RequestAssumption DEF Claimed
    <3>5. Line' = <<Head(items)>> \o Tail(items)
      BY <3>1, <3>4 DEF Line
    <3>6. <<Head(items)>> \o Tail(items) = items
      BY <2>2, <3>2
    <3> QED
      BY <1>3, <3>5, <3>6
  <2> QED
    BY <2>1, <2>2
<1> QED
  BY <1>1, <1>4, <1>6, <1>7, <1>8 DEF Executor!Finish, Line, Active, Finished

LEMMA EmptyStep ==
    ASSUME Inv, Empty
    PROVE  Executor!Discard
<1>1. /\ items' = <<>> /\ dropped' = dropped \cup Waiting
      /\ runs' = runs /\ dones' = dones /\ currentItem' = currentItem
  BY DEF Empty
<1>2. Active' = Active /\ Finished' = Finished /\ (Claimed' <=> Claimed)
  BY <1>1 DEF Active, Finished, Running, Claimed
<1>3. items \in Seq(Request) /\ (Claimed => currentItem \in Request)
  BY InvFacts
<1>4. CASE Claimed
  <2>1. Line = <<currentItem>> \o items /\ Line' = <<currentItem>> \o <<>>
    BY <1>1, <1>2, <1>4 DEF Line
  <2>2. /\ Line # <<>> /\ Head(Line) = currentItem /\ Line' = <<currentItem>>
        /\ Len(Line) = Len(items) + 1
        /\ \A i \in 1..Len(items) : Line[i + 1] = items[i]
    BY <1>3, <1>4, <2>1
  <2>3. Waiting = {Line[i] : i \in 2..Len(Line)}
    <3>1. \A i \in 2..Len(Line) : i - 1 \in 1..Len(items) /\ Line[i] = items[i - 1]
      BY <1>3, <2>2
    <3>2. \A i \in 1..Len(items) : i + 1 \in 2..Len(Line)
      BY <1>3, <2>2
    <3> QED
      BY <2>2, <3>1, <3>2 DEF Waiting
  <2> QED
    BY <1>1, <1>2, <2>2, <2>3 DEF Executor!Discard, Line, Active, Finished
<1>5. CASE ~Claimed
  <2>1. Line = items /\ Line' = <<>> /\ Waiting = {Line[i] : i \in 1..Len(Line)}
    BY <1>1, <1>2, <1>5 DEF Line, Waiting
  <2> QED
    BY <1>1, <1>2, <2>1 DEF Executor!Discard, Line, Active, Finished
<1> QED
  BY <1>4, <1>5

LEMMA InitRefines == Init => Executor!Init
<1> SUFFICES ASSUME Init PROVE Executor!Init
  OBVIOUS
<1>1. ~Claimed /\ items = <<>> /\ dropped = {}
  BY DEF Init, Claimed
<1>2. \A r \in Request : runs[r] = 0 /\ ~Running(r)
  <2> TAKE r \in Request
  <2>1. runs[r] = 0 /\ dones[r] = 0
    BY DEF Init
  <2> QED
    BY <2>1 DEF Running
<1>3. Active = {} /\ Finished = {} /\ Line = <<>>
  BY <1>1, <1>2 DEF Active, Finished, Line
<1> QED
  BY <1>1, <1>3 DEF Executor!Init, Active, Finished, Line

\* A step of the queue in which nobody calls `done` again.
LEMMA StepRefines ==
    ASSUME Inv, [Next]_vars, \A r \in Request : Done(r) => dones[r] < runs[r]
    PROVE  [Executor!Next]_(Executor!vars)
<1>1. ASSUME NEW r \in Request, Push(r) PROVE Executor!Next
  BY <1>1, PushStep DEF Executor!Next
<1>2. ASSUME NEW r \in Request, Unshift(r) PROVE Executor!Next
  BY <1>2, UnshiftStep DEF Executor!Next
<1>3. ASSUME NEW r \in Request, Done(r) PROVE Executor!Next
  BY <1>3, FinishStep DEF Executor!Next
<1>4. CASE RunImmediate
  BY <1>4, StartStep DEF Executor!Next
<1>5. CASE Empty
  BY <1>5, EmptyStep DEF Executor!Next
<1>6. CASE UNCHANGED vars
  <2>1. /\ items' = items /\ currentItem' = currentItem /\ runs' = runs
        /\ dones' = dones /\ dropped' = dropped
    BY <1>6 DEF vars, queueVars, historyVars
  <2>2. Claimed' <=> Claimed
    BY <2>1 DEF Claimed
  <2>3. Line' = Line /\ Active' = Active /\ Finished' = Finished
    BY <2>1, <2>2 DEF Line, Active, Finished, Running
  <2> QED
    BY <2>1, <2>3 DEF Executor!vars, Line, Active, Finished
<1> QED
  BY <1>1, <1>2, <1>3, <1>4, <1>5, <1>6 DEF Next

\* The queue implements the serial executor for any set of requests: one at a
\* time, each once, in the order of the calls except for the urgent ones.
THEOREM Refinement == ASSUME DoneLimit = 1 PROVE Spec => ImplementsExecutor
<1>1. Inv /\ [Next]_vars => [Executor!Next]_(Executor!vars)
  <2>1. ASSUME Inv, NEW r \in Request, Done(r) PROVE dones[r] < runs[r]
    <3>1. runs[r] \in Nat /\ dones[r] < DoneLimit * runs[r]
      BY <2>1, InvFacts DEF Done
    <3> QED
      BY <3>1, DoneLimit = 1
  <2> QED
    BY <2>1, StepRefines
<1>2. Spec => []Inv
  BY DoneLimit = 1, TypeCorrect, InvariantHolds, DoneOnce, PTL DEF Inv
<1> QED
  BY <1>1, <1>2, InitRefines, PTL DEF Spec, ImplementsExecutor, Executor!Spec
=============================================================================

------------------------- MODULE QueryHandlesProofs -------------------------
(***************************************************************************)
(* Proofs about the statement handles, for any number of statements, any    *)
(* numbers of rows and any number of sessions lost.  The second part is     *)
(* about what a queryAll() has in hand when it succeeds.                    *)
(***************************************************************************)
EXTENDS QueryHandles, SequenceTheorems, FiniteSetTheorems, WellFoundedInduction, TLAPS

-----------------------------------------------------------------------------
(* The inductive invariant.                                                  *)

Running == {"sent", "executing", "answered", "refused", "cut"}

\* A user's place in the queue is what its stage says.
QueueInv ==
    /\ \A i \in 1..Len(waiting) :
          waiting[i][2] = step[waiting[i][1]] /\ stage[waiting[i][1]] = "waiting"
    /\ \A i, j \in 1..Len(waiting) : waiting[i] = waiting[j] => i = j
    /\ \A u \in Users : stage[u] = "waiting" => \E i \in 1..Len(waiting) : waiting[i] = <<u, step[u]>>
    /\ \A u \in Users : stage[u] \in Running <=> active = {<<u, step[u]>>}
    /\ active = {} \/ \E u \in Users : active = {<<u, step[u]>>}
    /\ \A u \in Users : <<u, step[u]>> \in discarded => stage[u] = "dropped"

\* What the call of close() may be, and how many calls it may still make.
ClosingInv ==
    /\ doing[Closing] = "closeQuery"
    /\ stage[Closing] \notin {"executing", "dropped", "cut"}
    /\ stage[Closing] = "idle" => step[Closing] = 1 /\ sweep = {} /\ handle[Closing] = 0
    /\ step[Closing] + Cardinality(sweep) <= Cardinality(Queries) + 1
    /\ handle[Closing] \notin sweep
    /\ stage[Closing] \in Running \cup {"waiting"} => handle[Closing] # 0

\* The same of the call of a statement's user.
CallOf(q) ==
    /\ stage[q] \notin {"closing", "hung"}
    /\ doing[q] = "query" => step[q] = 1
    /\ doing[q] # "closeQuery" => step[q] < MaxStep
    /\ stage[q] = "idle" => doing[q] = "query"
    /\ stage[q] = "executing" => doing[q] = "query" /\ protocol = "old" /\ \E h \in Handles : server[h] = q
    /\ stage[q] = "ok" => doing[q] = "closeQuery"
    /\ handle[q] = 0 <=> doing[q] = "query" /\ stage[q] \notin {"answered", "resumed"}

CallInv == ClosingInv /\ \A q \in Queries : CallOf(q)

Prepared(q) ==
    /\ protocol = "old" /\ doing[q] = "query"
    /\ stage[q] \in {"executing", "refused", "rejected", "failed"}

\* A statement is open under one handle.
OneHandleEach ==
    \A g, h \in Handles : server[g] # NoQuery /\ server[g] = server[h] => g = h

\* The table and the user have the handle of what is open, unless it was only
\* prepared; the cursor is where the statement has been read to.
OpenInv ==
    \A h \in Handles : server[h] # NoQuery =>
        \/ /\ handle[server[h]] = h
           /\ table[h].of = server[h]
           /\ table[h].cursor = Len(given[server[h]])
        \/ handle[server[h]] = 0 /\ Prepared(server[h])

TableInv == \A h \in Handles : table[h].of = NoQuery => table[h] = NoPacket

ClosedInv ==
    \A q \in Queries :
        doing[q] = "closeQuery" /\ stage[q] \in {"answered", "resumed", "ok"} =>
            \A h \in Handles : server[h] # q

SessionInv == OneHandleEach /\ OpenInv /\ TableInv /\ EachRowOnce /\ ClosedInv

\* What close() has to close, or could not close.
Unswept == {"waiting", "sent", "refused", "rejected", "failed"}
ToSweep == sweep \cup (IF stage[Closing] \in Unswept THEN {handle[Closing]} ELSE {})

\* As long as no session is lost, what the table has is open.
TableIsOpen ==
    \A h \in Handles : table[h].of # NoQuery => server[h] = table[h].of /\ handle[server[h]] = h

\* A close() beside which nobody calls finds all it has to close: who has a handle
\* of it is done, or was there before and has nothing in the queue.
AtRest == {"idle", "dropped", "ok", "failed"}
Stopped == {"resumed", "rejected", "cut"}
Elsewhere(q) ==
    stage[q] \in AtRest \/ handle[q] \notin ToSweep \/ (q \in overtaken /\ stage[q] \in Stopped)
SweepFinds ==
    /\ ToSweep \subseteq Handles
    /\ \A h \in ToSweep : table[h].of # NoQuery
    /\ \A q \in Queries : Elsewhere(q)

CloseInv ==
    /\ stage[Closing] = "closing" => link = "shared" \/ \A u \in Users : ~InFlight(u)
    /\ losses > MaxLosses => stage[Closing] \in {"ok", "failed"}
    /\ losses = 0 =>
          /\ TableIsOpen
          /\ stage[Closing] \notin {"idle", "ok"} => link # "down"
          /\ stage[Closing] # "idle" /\ rivals = {} => SweepFinds

IInv == TypeOK /\ QueueInv /\ CallInv /\ SessionInv /\ CloseInv
-----------------------------------------------------------------------------
(* Numbers, rows and handles.                                                *)

LEMMA MinOfTwo == \A a, b \in Int : Min({a, b}) \in {a, b} /\ Min({a, b}) <= a /\ Min({a, b}) <= b
<1> SUFFICES ASSUME NEW a \in Int, NEW b \in Int
             PROVE  Min({a, b}) \in {a, b} /\ Min({a, b}) <= a /\ Min({a, b}) <= b
  OBVIOUS
<1> DEFINE Least(x) == x \in {a, b} /\ \A y \in {a, b} : x <= y
<1>1. Min({a, b}) = CHOOSE x : Least(x)
  BY DEF Min
<1>2. Least(a) \/ Least(b)
  OBVIOUS
<1>3. Least(Min({a, b}))
  <2> HIDE DEF Least
  <2> QED
    BY <1>1, <1>2
<1> QED
  BY <1>3

\* A set of numbers has a least one.
LEMMA MinOfSome ==
    ASSUME NEW S, S \subseteq Nat, S # {}
    PROVE  Min(S) \in S /\ \A k \in S : Min(S) <= k
<1> DEFINE R == {ss \in Nat \X Nat : ss[1] < ss[2]}
<1>1. IsWellFoundedOn(R, Nat)
  <2>1. IsWellFoundedOn(OpToRel(<, Nat), Nat)
    BY NatLessThanWellFounded
  <2> QED
    BY <2>1, Zenon DEF OpToRel
<1> HIDE DEF R
<1>2. PICK m \in S : \A k \in S : <<k, m>> \notin R
  BY <1>1, WFMin
<1>3. \A k \in S : m <= k
  <2> SUFFICES ASSUME NEW k \in S PROVE m <= k
    OBVIOUS
  <2>1. k \in Nat /\ m \in Nat /\ <<k, m>> \notin R
    BY <1>2
  <2> QED
    BY <2>1 DEF R
<1> QED
  BY <1>3 DEF Min

\* Rows that follow one another are rows of the statement.
LEMMA RowsOfProperties ==
    \A q \in Queries, start \in Nat \ {0}, n \in Nat :
        /\ RowsOf(q, start, n) \in Seq(Queries \X Nat)
        /\ Len(RowsOf(q, start, n)) = n
        /\ \A i \in 1..n : RowsOf(q, start, n)[i] = <<q, start + i - 1>>
<1> SUFFICES ASSUME NEW q \in Queries, NEW start \in Nat \ {0}, NEW n \in Nat
             PROVE  /\ RowsOf(q, start, n) \in Seq(Queries \X Nat)
                    /\ Len(RowsOf(q, start, n)) = n
                    /\ \A i \in 1..n : RowsOf(q, start, n)[i] = <<q, start + i - 1>>
  OBVIOUS
<1>1. \A i \in 1..n : start + i - 1 \in Nat
  OBVIOUS
<1> QED
  BY <1>1 DEF RowsOf

LEMMA RowsOfBehind ==
    \A q \in Queries, m, n \in Nat : RowsOf(q, 1, m) \o RowsOf(q, m + 1, n) = RowsOf(q, 1, m + n)
<1> SUFFICES ASSUME NEW q \in Queries, NEW m \in Nat, NEW n \in Nat
             PROVE  RowsOf(q, 1, m) \o RowsOf(q, m + 1, n) = RowsOf(q, 1, m + n)
  OBVIOUS
<1> DEFINE a == RowsOf(q, 1, m)
           b == RowsOf(q, m + 1, n)
           c == RowsOf(q, 1, m + n)
<1>0. 1 \in Nat \ {0} /\ m + 1 \in Nat \ {0} /\ m + n \in Nat
  OBVIOUS
<1>1. /\ a \in Seq(Queries \X Nat) /\ Len(a) = m /\ \A i \in 1..m : a[i] = <<q, 1 + i - 1>>
      /\ b \in Seq(Queries \X Nat) /\ Len(b) = n /\ \A i \in 1..n : b[i] = <<q, (m + 1) + i - 1>>
      /\ c \in Seq(Queries \X Nat) /\ Len(c) = m + n /\ \A i \in 1..(m + n) : c[i] = <<q, 1 + i - 1>>
  BY <1>0, RowsOfProperties
<1> HIDE DEF a, b, c
<1>2. /\ a \o b \in Seq(Queries \X Nat) /\ Len(a \o b) = m + n
      /\ \A i \in 1..(m + n) : (a \o b)[i] = IF i <= m THEN a[i] ELSE b[i - m]
  BY <1>1, ConcatProperties
<1>3. \A i \in 1..(m + n) : (a \o b)[i] = c[i]
  <2> SUFFICES ASSUME NEW i \in 1..(m + n) PROVE (a \o b)[i] = c[i]
    OBVIOUS
  <2>1. CASE i <= m
    <3>1. i \in 1..m
      BY <2>1
    <3> QED
      BY <1>1, <1>2, <2>1, <3>1
  <2>2. CASE ~(i <= m)
    <3>1. i - m \in 1..n /\ (m + 1) + (i - m) - 1 = 1 + i - 1
      BY <2>2
    <3>2. b[i - m] = <<q, (m + 1) + (i - m) - 1>>
      BY <1>1, <3>1
    <3> QED
      BY <1>1, <1>2, <2>2, <3>1, <3>2
  <2> QED
    BY <2>1, <2>2
<1>4. a \o b = c
  BY <1>1, <1>2, <1>3, SeqEqual
<1> QED
  BY <1>4 DEF a, b, c

LEMMA HandlesProperties ==
    /\ Cardinality(Queries) \in Nat
    /\ IsFiniteSet(Handles) /\ Cardinality(Handles) = Cardinality(Queries)
    /\ Handles \subseteq Nat \ {0}
<1>1. Cardinality(Queries) \in Nat
  BY HandlesAssumption, FS_CardinalityType DEF HandlesAssumption
<1>2. 1 \in Int /\ Cardinality(Queries) \in Int
  BY <1>1
<1>3. /\ IsFiniteSet(1..Cardinality(Queries))
      /\ Cardinality(1..Cardinality(Queries)) =
            IF 1 > Cardinality(Queries) THEN 0 ELSE Cardinality(Queries) - 1 + 1
  BY <1>2, FS_Interval
<1> QED
  BY <1>1, <1>3 DEF Handles

\* There are as many handles as statements, so one that is not open finds one free.
LEMMA FreeHandle ==
    ASSUME NEW f \in [Handles -> Queries \cup {NoQuery}], NEW q \in Queries,
           \A g, h \in Handles : f[g] # NoQuery /\ f[g] = f[h] => g = h,
           \A h \in Handles : f[h] # q
    PROVE  Min({h \in Handles : f[h] = NoQuery}) \in {h \in Handles : f[h] = NoQuery}
<1> USE HandlesAssumption DEF HandlesAssumption
<1>1. ASSUME \A h \in Handles : f[h] # NoQuery PROVE FALSE
  <2>1. f \in [Handles -> Queries \ {q}]
    BY <1>1
  <2>2. IsFiniteSet(Queries \ {q}) /\ Cardinality(Queries \ {q}) = Cardinality(Queries) - 1
    BY FS_RemoveElement
  <2>3. f \in Injection(Handles, Queries \ {q})
    BY <1>1, <2>1 DEF Injection, IsInjective
  <2>4. Cardinality(Handles) <= Cardinality(Queries \ {q})
    BY <2>2, <2>3, FS_Injection
  <2> QED
    BY <2>2, <2>4, HandlesProperties
<1>2. {h \in Handles : f[h] = NoQuery} # {}
  BY <1>1
<1>3. {h \in Handles : f[h] = NoQuery} \subseteq Nat
  BY HandlesProperties
<1> QED
  BY <1>2, <1>3, MinOfSome
-----------------------------------------------------------------------------
(* The queue.                                                                *)

LEMMA QueueTypes ==
    ASSUME TypeOK
    PROVE  /\ waiting \in Seq(Tasks) /\ Len(waiting) \in Nat
           /\ \A i \in 1..Len(waiting) :
                 /\ waiting[i] \in Tasks /\ waiting[i][1] \in Users
                 /\ waiting[i] = <<waiting[i][1], waiting[i][2]>>
           /\ active \subseteq Tasks /\ finished \subseteq Tasks /\ discarded \subseteq Tasks
           /\ stage \in [Users -> {"idle", "waiting", "sent", "executing", "answered", "refused",
                                   "resumed", "rejected", "dropped", "cut", "closing", "hung", "ok", "failed"}]
           /\ step \in [Users -> 1..MaxStep]
<1>1. waiting \in Seq(Tasks)
  BY DEF TypeOK
<1>2. Len(waiting) \in Nat /\ \A i \in 1..Len(waiting) : waiting[i] \in Tasks
  BY <1>1, LenProperties
<1> QED
  BY <1>1, <1>2 DEF TypeOK, Tasks

\* Moves from stage to stage that leave the queue alone.
LEMMA QueueKept ==
    ASSUME TypeOK, QueueInv, UNCHANGED execVars, UNCHANGED step,
           \A u \in Users : /\ stage'[u] = "waiting" <=> stage[u] = "waiting"
                            /\ stage'[u] \in Running <=> stage[u] \in Running
                            /\ stage[u] = "dropped" => stage'[u] = "dropped"
    PROVE  QueueInv'
<1>1. UNCHANGED <<waiting, active, finished, discarded, step>>
  BY DEF execVars
<1>2. \A i \in 1..Len(waiting) : waiting[i][1] \in Users
  BY QueueTypes
<1>3. \A i \in 1..Len(waiting') :
         waiting'[i][2] = step'[waiting'[i][1]] /\ stage'[waiting'[i][1]] = "waiting"
  BY <1>1, <1>2 DEF QueueInv
<1>4. \A u \in Users : stage'[u] = "waiting" => \E i \in 1..Len(waiting') : waiting'[i] = <<u, step'[u]>>
  <2> SUFFICES ASSUME NEW u \in Users, stage'[u] = "waiting"
               PROVE  \E i \in 1..Len(waiting) : waiting[i] = <<u, step[u]>>
    BY <1>1
  <2>1. stage[u] = "waiting"
    OBVIOUS
  <2> QED
    BY <2>1 DEF QueueInv
<1>5. \A u \in Users : stage'[u] \in Running <=> active' = {<<u, step'[u]>>}
  BY <1>1, Zenon DEF QueueInv
<1>6. \A u \in Users : <<u, step'[u]>> \in discarded' => stage'[u] = "dropped"
  BY <1>1 DEF QueueInv
<1>7. \A i, j \in 1..Len(waiting') : waiting'[i] = waiting'[j] => i = j
  BY <1>1 DEF QueueInv
<1>8. active' = {} \/ \E u \in Users : active' = {<<u, step'[u]>>}
  BY <1>1 DEF QueueInv
<1> QED
  BY <1>3, <1>4, <1>5, <1>6, <1>7, <1>8, Zenon DEF QueueInv

\* Item r comes into the line at place k.
Inserted(r, k) ==
    /\ k \in 1..(Len(waiting) + 1)
    /\ waiting' \in Seq(Tasks)
    /\ Len(waiting') = Len(waiting) + 1
    /\ \A i \in 1..(Len(waiting) + 1) :
          waiting'[i] = IF i < k THEN waiting[i] ELSE IF i = k THEN r ELSE waiting[i - 1]

LEMMA SubmitInserts ==
    ASSUME NEW r \in Tasks, TypeOK, Executor!Submit(r)
    PROVE  Inserted(r, Len(waiting) + 1) /\ Executor!Fresh(r) /\ UNCHANGED <<active, finished, discarded>>
<1>1. waiting \in Seq(Tasks) /\ Len(waiting) \in Nat
  BY QueueTypes
<1>2. waiting' = Append(waiting, r) /\ Executor!Fresh(r) /\ UNCHANGED <<active, finished, discarded>>
  BY DEF Executor!Submit
<1>3. /\ waiting' \in Seq(Tasks) /\ Len(waiting') = Len(waiting) + 1
      /\ \A i \in 1..Len(waiting) : waiting'[i] = waiting[i]
      /\ waiting'[Len(waiting) + 1] = r
  BY <1>1, <1>2, AppendProperties
<1> QED
  BY <1>1, <1>2, <1>3 DEF Inserted

\* An urgent call comes first or second.
LEMMA UnshiftInserts ==
    ASSUME NEW r \in Tasks, TypeOK, Unshift(r)
    PROVE  /\ Inserted(r, 1) \/ (waiting # <<>> /\ Inserted(r, 2))
           /\ Executor!Fresh(r)
           /\ UNCHANGED <<active, finished, discarded>>
<1>1. waiting \in Seq(Tasks) /\ Len(waiting) \in Nat
  BY QueueTypes
<1>2. Executor!Fresh(r) /\ UNCHANGED <<active, finished, discarded>>
  BY DEF Unshift, Executor!SubmitUrgent
<1>3. CASE waiting' = <<r>> \o waiting
  <2>1. <<r>> \in Seq(Tasks) /\ Len(<<r>>) = 1 /\ <<r>>[1] = r
    OBVIOUS
  <2>2. /\ waiting' \in Seq(Tasks) /\ Len(waiting') = 1 + Len(waiting)
        /\ \A i \in 1..(1 + Len(waiting)) : waiting'[i] = IF i <= 1 THEN <<r>>[i] ELSE waiting[i - 1]
    BY <1>1, <1>3, <2>1, ConcatProperties
  <2>3. Inserted(r, 1)
    BY <1>1, <2>1, <2>2 DEF Inserted
  <2> QED
    BY <1>2, <2>3
<1>4. CASE waiting # <<>> /\ waiting' = <<Head(waiting)>> \o (<<r>> \o Tail(waiting))
  <2>0. Len(waiting) >= 1 /\ Head(waiting) = waiting[1] /\ waiting[1] \in Tasks
    BY <1>1, <1>4, QueueTypes
  <2>1. /\ Tail(waiting) \in Seq(Tasks) /\ Len(Tail(waiting)) = Len(waiting) - 1
        /\ \A i \in 1..(Len(waiting) - 1) : Tail(waiting)[i] = waiting[i + 1]
    BY <1>1, <1>4
  <2> DEFINE tail == Tail(waiting)
             rest == <<r>> \o tail
             head == <<Head(waiting)>>
  <2>2. /\ <<r>> \in Seq(Tasks) /\ Len(<<r>>) = 1 /\ <<r>>[1] = r
        /\ head \in Seq(Tasks) /\ Len(head) = 1 /\ head[1] = waiting[1]
    BY <2>0
  <2> HIDE DEF tail, head
  <2>3. /\ rest \in Seq(Tasks) /\ Len(rest) = 1 + Len(tail)
        /\ \A i \in 1..(1 + Len(tail)) : rest[i] = IF i <= 1 THEN <<r>>[i] ELSE tail[i - 1]
    BY <2>1, <2>2, ConcatProperties DEF tail
  <2> HIDE DEF rest
  <2>4. /\ waiting' \in Seq(Tasks) /\ Len(waiting') = 1 + Len(rest)
        /\ \A i \in 1..(1 + Len(rest)) : waiting'[i] = IF i <= 1 THEN head[i] ELSE rest[i - 1]
    BY <1>4, <2>2, <2>3, ConcatProperties DEF rest, head, tail
  <2>5. Len(rest) = Len(waiting) /\ Len(waiting') = Len(waiting) + 1
    BY <1>1, <2>1, <2>3, <2>4 DEF tail
  <2>6. \A i \in 1..(Len(waiting) + 1) :
           waiting'[i] = IF i < 2 THEN waiting[i] ELSE IF i = 2 THEN r ELSE waiting[i - 1]
    <3> SUFFICES ASSUME NEW i \in 1..(Len(waiting) + 1)
                 PROVE  waiting'[i] = IF i < 2 THEN waiting[i] ELSE IF i = 2 THEN r ELSE waiting[i - 1]
      OBVIOUS
    <3>1. CASE i = 1
      BY <1>1, <2>2, <2>4, <2>5, <3>1
    <3>2. CASE i = 2
      <4>1. waiting'[2] = rest[1] /\ rest[1] = r
        BY <1>1, <2>0, <2>1, <2>2, <2>3, <2>4, <2>5 DEF tail
      <4> QED
        BY <3>2, <4>1
    <3>3. CASE i > 2
      <4>1. i - 1 \in 1..Len(waiting) /\ i - 2 \in 1..(Len(waiting) - 1) /\ ~(i - 1 <= 1) /\ ~(i <= 1)
            /\ (i - 1) - 1 = i - 2 /\ (i - 2) + 1 = i - 1 /\ Len(tail) = Len(waiting) - 1
        BY <1>1, <2>1, <3>3 DEF tail
      <4>2. waiting'[i] = rest[i - 1] /\ rest[i - 1] = tail[i - 2] /\ tail[i - 2] = waiting[i - 1]
        BY <1>1, <2>1, <2>3, <2>4, <2>5, <4>1 DEF tail
      <4> QED
        BY <3>3, <4>2
    <3> QED
      BY <1>1, <3>1, <3>2, <3>3
  <2>7. Inserted(r, 2)
    BY <1>1, <2>0, <2>4, <2>5, <2>6 DEF Inserted
  <2> QED
    BY <1>2, <1>4, <2>7
<1> QED
  BY <1>3, <1>4 DEF Unshift, Executor!SubmitUrgent

\* A user who was not in the queue is in it now, with a task of its own.
LEMMA QueueInserted ==
    ASSUME NEW u \in Users, NEW k, TypeOK, QueueInv, Inserted(<<u, step'[u]>>, k),
           Executor!Fresh(<<u, step'[u]>>), UNCHANGED <<active, finished, discarded>>,
           stage[u] \notin Running \cup {"waiting", "dropped"},
           \A v \in Users : stage'[v] = IF v = u THEN "waiting" ELSE stage[v],
           \A v \in Users \ {u} : step'[v] = step[v]
    PROVE  QueueInv'
<1> DEFINE r == <<u, step'[u]>>
           n == Len(waiting)
<1>t. n \in Nat /\ \A i \in 1..n : waiting[i][1] \in Users /\ waiting[i] = <<waiting[i][1], waiting[i][2]>>
  BY QueueTypes
<1>f. (\A i \in 1..n : waiting[i] # r) /\ r \notin active /\ r \notin discarded
  BY DEF Executor!Fresh
<1>i. /\ k \in 1..(n + 1) /\ Len(waiting') = n + 1
      /\ \A i \in 1..(n + 1) :
            waiting'[i] = IF i < k THEN waiting[i] ELSE IF i = k THEN r ELSE waiting[i - 1]
  BY DEF Inserted
<1>o. \A i \in 1..n : waiting[i][1] # u
  BY <1>t DEF QueueInv
<1> HIDE DEF n
<1>p. \A i \in 1..(n + 1) : \/ i = k /\ waiting'[i] = r
                            \/ i < k /\ i \in 1..n /\ waiting'[i] = waiting[i]
                            \/ i > k /\ i - 1 \in 1..n /\ waiting'[i] = waiting[i - 1]
  BY <1>t, <1>i
<1>1. \A i \in 1..Len(waiting') :
         waiting'[i][2] = step'[waiting'[i][1]] /\ stage'[waiting'[i][1]] = "waiting"
  <2>1. \A i \in 1..n : waiting[i][2] = step'[waiting[i][1]] /\ stage'[waiting[i][1]] = "waiting"
    BY <1>t, <1>o DEF QueueInv, n
  <2>2. r[2] = step'[r[1]] /\ stage'[r[1]] = "waiting"
    OBVIOUS
  <2> HIDE DEF r
  <2> QED
    BY <1>i, <1>p, <2>1, <2>2
<1>2. \A i, j \in 1..Len(waiting') : waiting'[i] = waiting'[j] => i = j
  <2> SUFFICES ASSUME NEW i \in 1..(n + 1), NEW j \in 1..(n + 1), waiting'[i] = waiting'[j] PROVE i = j
    BY <1>i
  <2>1. \A a, b \in 1..n : waiting[a] = waiting[b] => a = b
    BY DEF QueueInv, n
  <2> HIDE DEF r
  <2> QED
    BY <1>t, <1>i, <1>f, <1>p, <2>1
<1>3. \A v \in Users : stage'[v] = "waiting" => \E i \in 1..Len(waiting') : waiting'[i] = <<v, step'[v]>>
  <2> SUFFICES ASSUME NEW v \in Users, stage'[v] = "waiting"
               PROVE  \E i \in 1..(n + 1) : waiting'[i] = <<v, step'[v]>>
    BY <1>i
  <2>1. CASE v = u
    BY <1>i, <1>p, <1>t, <2>1
  <2>2. CASE v # u
    <3>1. stage[v] = "waiting" /\ step'[v] = step[v]
      BY <2>2
    <3>2. PICK i \in 1..n : waiting[i] = <<v, step[v]>>
      BY <3>1 DEF QueueInv, n
    <3>3. CASE i < k
      BY <1>t, <1>i, <3>1, <3>2, <3>3
    <3>4. CASE ~(i < k)
      <4>1. i + 1 \in 1..(n + 1) /\ ~(i + 1 < k) /\ i + 1 # k /\ (i + 1) - 1 = i
        BY <1>t, <1>i, <3>4
      <4>2. waiting'[i + 1] = waiting[i]
        BY <1>i, <4>1
      <4> QED
        BY <3>1, <3>2, <4>1, <4>2
    <3> QED
      BY <3>3, <3>4
  <2> QED
    BY <2>1, <2>2
<1>4. \A v \in Users : stage'[v] \in Running <=> active' = {<<v, step'[v]>>}
  <2> SUFFICES ASSUME NEW v \in Users PROVE stage'[v] \in Running <=> active' = {<<v, step'[v]>>}
    OBVIOUS
  <2>1. CASE v = u
    BY <1>f, <2>1 DEF Running
  <2>2. CASE v # u
    BY <2>2 DEF QueueInv
  <2> QED
    BY <2>1, <2>2
<1>5. active' = {} \/ \E v \in Users : active' = {<<v, step'[v]>>}
  <2>1. \A v \in Users : active = {<<v, step[v]>>} => v # u
    BY DEF QueueInv
  <2> QED
    BY <2>1 DEF QueueInv
<1>6. \A v \in Users : <<v, step'[v]>> \in discarded' => stage'[v] = "dropped"
  BY <1>f DEF QueueInv
<1> QED
  BY <1>1, <1>2, <1>3, <1>4, <1>5, <1>6 DEF QueueInv

\* The first in line becomes the one that runs.
LEMMA QueueStarted ==
    ASSUME TypeOK, QueueInv, Executor!Start, UNCHANGED step,
           NEW new \in Running, stage' = [stage EXCEPT ![Head(waiting)[1]] = new]
    PROVE  /\ QueueInv'
           /\ Head(waiting)[1] \in Users /\ stage[Head(waiting)[1]] = "waiting"
           /\ waiting' \in Seq(Tasks) /\ active' \subseteq Tasks
           /\ UNCHANGED <<finished, discarded>>
           /\ \A v \in Users : stage[v] \notin Running
<1> DEFINE n == Len(waiting)
           u == waiting[1][1]
<1>t. /\ waiting \in Seq(Tasks) /\ n \in Nat
      /\ \A i \in 1..n : waiting[i] \in Tasks /\ waiting[i][1] \in Users
                         /\ waiting[i] = <<waiting[i][1], waiting[i][2]>>
      /\ stage \in [Users -> {"idle", "waiting", "sent", "executing", "answered", "refused",
                              "resumed", "rejected", "dropped", "cut", "closing", "hung", "ok", "failed"}]
  BY QueueTypes
<1>s. /\ active = {} /\ waiting # <<>> /\ active' = {Head(waiting)} /\ waiting' = Tail(waiting)
      /\ UNCHANGED <<finished, discarded>>
  BY DEF Executor!Start
<1>1. n >= 1 /\ Head(waiting) = waiting[1] /\ 1 \in 1..n
  BY <1>t, <1>s
<1>2. /\ waiting' \in Seq(Tasks) /\ Len(waiting') = n - 1
      /\ \A i \in 1..(n - 1) : waiting'[i] = waiting[i + 1]
  BY <1>t, <1>s
<1>3. u \in Users /\ waiting[1] = <<u, step[u]>> /\ stage[u] = "waiting" /\ active' = {<<u, step[u]>>}
  <2>1. u \in Users /\ waiting[1] = <<u, waiting[1][2]>> /\ waiting[1][2] = step[u] /\ stage[u] = "waiting"
    BY <1>t, <1>1 DEF QueueInv
  <2> QED
    BY <1>1, <1>s, <2>1
<1>4. \A v \in Users : stage'[v] = IF v = u THEN new ELSE stage[v]
  BY <1>t, <1>1
<1>5. new \notin {"waiting", "dropped"}
  BY DEF Running
<1>6. \A i \in 2..n : waiting[i][1] # u
  <2> SUFFICES ASSUME NEW i \in 2..n, waiting[i][1] = u PROVE FALSE
    OBVIOUS
  <2>1. i \in 1..n /\ i # 1
    BY <1>t
  <2>2. waiting[i] = <<u, step[u]>>
    BY <1>t, <2>1 DEF QueueInv
  <2> QED
    BY <1>1, <1>3, <2>1, <2>2 DEF QueueInv
<1>7. \A v \in Users : stage[v] \notin Running
  BY <1>s DEF QueueInv
<1> HIDE DEF u, n
<1>8. \A i \in 1..(n - 1) : i + 1 \in 1..n /\ i + 1 \in 2..n
  BY <1>t
<1>9. \A i \in 1..Len(waiting') :
         waiting'[i][2] = step'[waiting'[i][1]] /\ stage'[waiting'[i][1]] = "waiting"
  <2> SUFFICES ASSUME NEW i \in 1..(n - 1)
               PROVE  waiting'[i][2] = step[waiting'[i][1]] /\ stage'[waiting'[i][1]] = "waiting"
    BY <1>2
  <2> DEFINE t == waiting[i + 1]
  <2>1. t[1] \in Users /\ t[1] # u /\ t[2] = step[t[1]] /\ stage[t[1]] = "waiting"
    BY <1>t, <1>6, <1>8 DEF QueueInv, n
  <2>2. waiting'[i] = t
    BY <1>2
  <2> HIDE DEF t
  <2> QED
    BY <1>4, <2>1, <2>2
<1>10. \A i, j \in 1..Len(waiting') : waiting'[i] = waiting'[j] => i = j
  <2> SUFFICES ASSUME NEW i \in 1..(n - 1), NEW j \in 1..(n - 1), waiting[i + 1] = waiting[j + 1]
               PROVE  i = j
    BY <1>2
  <2>1. i + 1 = j + 1
    BY <1>8 DEF QueueInv, n
  <2> QED
    BY <1>t, <2>1
<1>11. \A v \in Users : stage'[v] = "waiting" => \E i \in 1..Len(waiting') : waiting'[i] = <<v, step'[v]>>
  <2> SUFFICES ASSUME NEW v \in Users, stage'[v] = "waiting"
               PROVE  \E i \in 1..(n - 1) : waiting'[i] = <<v, step[v]>>
    BY <1>2
  <2>1. v # u /\ stage[v] = "waiting"
    BY <1>4, <1>5
  <2>2. PICK i \in 1..n : waiting[i] = <<v, step[v]>>
    BY <2>1 DEF QueueInv, n
  <2>3. i # 1
    BY <1>3, <2>1, <2>2
  <2>4. i - 1 \in 1..(n - 1) /\ (i - 1) + 1 = i
    BY <1>t, <2>3
  <2> QED
    BY <1>2, <2>2, <2>4
<1>12. \A v \in Users : stage'[v] \in Running <=> active' = {<<v, step'[v]>>}
  <2> SUFFICES ASSUME NEW v \in Users PROVE stage'[v] \in Running <=> active' = {<<v, step[v]>>}
    OBVIOUS
  <2>1. CASE v = u
    BY <1>3, <1>4, <2>1
  <2>2. CASE v # u
    BY <1>3, <1>4, <1>7, <2>2
  <2> QED
    BY <2>1, <2>2
<1>13. \A v \in Users : <<v, step'[v]>> \in discarded' => stage'[v] = "dropped"
  BY <1>3, <1>4, <1>s DEF QueueInv
<1>14. QueueInv'
  BY <1>3, <1>9, <1>10, <1>11, <1>12, <1>13 DEF QueueInv
<1>15. active' \subseteq Tasks
  BY <1>t, <1>s, <1>1
<1> QED
  BY <1>1, <1>2, <1>3, <1>7, <1>14, <1>15, <1>s DEF u

\* The one that ran is told the result.
LEMMA QueueFinished ==
    ASSUME NEW u \in Users, TypeOK, QueueInv, Executor!Finish, UNCHANGED step, stage[u] \in Running,
           NEW new, new \notin Running \cup {"waiting"}, stage' = [stage EXCEPT ![u] = new]
    PROVE  /\ QueueInv'
           /\ active' = {} /\ finished' \subseteq Tasks
           /\ UNCHANGED <<waiting, discarded>>
<1>t. /\ \A i \in 1..Len(waiting) : waiting[i][1] \in Users
      /\ active \subseteq Tasks /\ finished \subseteq Tasks
      /\ stage \in [Users -> {"idle", "waiting", "sent", "executing", "answered", "refused",
                              "resumed", "rejected", "dropped", "cut", "closing", "hung", "ok", "failed"}]
  BY QueueTypes
<1>s. active' = {} /\ finished' = finished \cup active /\ UNCHANGED <<waiting, discarded>>
  BY DEF Executor!Finish
<1>1. \A v \in Users : stage'[v] = IF v = u THEN new ELSE stage[v]
  BY <1>t
<1>2. stage[u] # "waiting" /\ stage[u] # "dropped"
  BY DEF Running
<1>3. \A v \in Users : v # u => stage[v] \notin Running
  <2> SUFFICES ASSUME NEW v \in Users, stage[v] \in Running PROVE v = u
    OBVIOUS
  <2>1. active = {<<v, step[v]>>} /\ active = {<<u, step[u]>>}
    BY Zenon DEF QueueInv
  <2>2. <<v, step[v]>> \in {<<u, step[u]>>}
    BY <2>1
  <2> QED
    BY <2>2
<1>4. \A i \in 1..Len(waiting') :
         waiting'[i][2] = step'[waiting'[i][1]] /\ stage'[waiting'[i][1]] = "waiting"
  BY <1>t, <1>s, <1>1, <1>2 DEF QueueInv
<1>5. \A v \in Users : stage'[v] = "waiting" => \E i \in 1..Len(waiting') : waiting'[i] = <<v, step'[v]>>
  <2> SUFFICES ASSUME NEW v \in Users, stage'[v] = "waiting"
               PROVE  \E i \in 1..Len(waiting) : waiting[i] = <<v, step[v]>>
    BY <1>s
  <2> QED
    BY <1>1 DEF QueueInv
<1>6. \A v \in Users : stage'[v] \in Running <=> active' = {<<v, step'[v]>>}
  BY <1>s, <1>1, <1>3
<1>7. \A v \in Users : <<v, step'[v]>> \in discarded' => stage'[v] = "dropped"
  BY <1>s, <1>1, <1>2 DEF QueueInv
<1>8. \A i, j \in 1..Len(waiting') : waiting'[i] = waiting'[j] => i = j
  BY <1>s DEF QueueInv
<1>9. QueueInv'
  BY <1>s, <1>4, <1>5, <1>6, <1>7, <1>8, Zenon DEF QueueInv
<1> QED
  BY <1>s, <1>t, <1>9

\* close() empties the line but for a head that is on its way.
LEMMA QueueDiscarded ==
    ASSUME TypeOK, QueueInv, Close, link = "up", stage'[Closing] = "resumed"
    PROVE  /\ QueueInv'
           /\ waiting' \in Seq(Tasks) /\ discarded' \subseteq Tasks
           /\ UNCHANGED <<active, finished>>
           /\ \A u \in Queries : stage'[u] = stage[u] \/ (stage[u] = "waiting" /\ stage'[u] = "dropped")
           /\ \A u \in Queries : stage'[u] = "waiting" => active = {} /\ waiting' = <<<<u, step[u]>>>>
<1> DEFINE n == Len(waiting)
           claimed == active = {} /\ waiting # <<>>
<1>t. /\ waiting \in Seq(Tasks) /\ n \in Nat
      /\ \A i \in 1..n : waiting[i] \in Tasks /\ waiting[i][1] \in Users
                         /\ waiting[i] = <<waiting[i][1], waiting[i][2]>>
      /\ discarded \subseteq Tasks
      /\ stage \in [Users -> {"idle", "waiting", "sent", "executing", "answered", "refused",
                              "resumed", "rejected", "dropped", "cut", "closing", "hung", "ok", "failed"}]
  BY QueueTypes
<1>c. stage[Closing] = "idle" /\ Closing \in Users /\ Closing \notin Queries
  BY HandlesAssumption DEF Close, HandlesAssumption, Users
<1>s. /\ Executor!Discard
      /\ waiting' = IF claimed THEN <<Head(waiting)>> ELSE <<>>
      /\ stage' = [u \in Users |-> IF u = Closing THEN "resumed"
                                   ELSE IF <<u, step[u]>> \in discarded' THEN "dropped" ELSE stage[u]]
      /\ UNCHANGED step
  BY <1>c DEF Close
<1>d. UNCHANGED <<active, finished>>
  BY <1>s DEF Executor!Discard
<1>1. \A v \in Users : stage'[v] = IF v = Closing THEN "resumed"
                                   ELSE IF <<v, step[v]>> \in discarded' THEN "dropped" ELSE stage[v]
  BY <1>s
<1>2. \A v \in Users, i \in 1..n : waiting[i] = <<v, step[v]>> => stage[v] = "waiting"
  BY DEF QueueInv
<1>k. CASE claimed
  <2>1. n >= 1 /\ Head(waiting) = waiting[1] /\ 1 \in 1..n
    BY <1>t, <1>k
  <2>2. waiting' = <<waiting[1]>> /\ Len(waiting') = 1 /\ waiting'[1] = waiting[1] /\ waiting' # <<>>
    BY <1>k, <1>s, <2>1
  <2>3. discarded' = discarded \cup {waiting[i] : i \in 2..n}
    BY <1>s, <2>2 DEF Executor!Discard
  <2>4. PICK u \in Users : waiting[1] = <<u, step[u]>> /\ stage[u] = "waiting"
    BY <1>t, <2>1 DEF QueueInv
  <2>5. <<u, step[u]>> \notin discarded'
    <3>1. \A i \in 2..n : waiting[i] # waiting[1]
      BY <1>t, <2>1 DEF QueueInv
    <3> QED
      BY <2>3, <2>4, <3>1 DEF QueueInv
  <2>6. stage'[u] = "waiting" /\ u # Closing
    BY <1>1, <1>c, <2>4, <2>5
  <2>7. \A v \in Users : v # u /\ stage[v] = "waiting" => <<v, step[v]>> \in discarded'
    <3> SUFFICES ASSUME NEW v \in Users, v # u, stage[v] = "waiting" PROVE <<v, step[v]>> \in discarded'
      OBVIOUS
    <3>1. PICK i \in 1..n : waiting[i] = <<v, step[v]>>
      BY DEF QueueInv
    <3>2. i # 1
      BY <2>4, <3>1
    <3>3. i \in 2..n
      BY <1>t, <3>2
    <3> QED
      BY <2>3, <3>1, <3>3
  <2>8. \A v \in Users : <<v, step[v]>> \in discarded' => stage[v] \in {"waiting", "dropped"} /\ v # Closing
    <3> SUFFICES ASSUME NEW v \in Users, <<v, step[v]>> \in discarded'
                 PROVE  stage[v] \in {"waiting", "dropped"}
      BY <1>c
    <3>1. <<v, step[v]>> \in discarded \/ \E i \in 1..n : waiting[i] = <<v, step[v]>>
      BY <1>t, <2>3
    <3> QED
      BY <1>2, <3>1 DEF QueueInv
  <2>9. QueueInv'
    <3>1. \A i \in 1..Len(waiting') :
             waiting'[i][2] = step'[waiting'[i][1]] /\ stage'[waiting'[i][1]] = "waiting"
      BY <1>s, <2>2, <2>4, <2>6
    <3>2. \A i, j \in 1..Len(waiting') : waiting'[i] = waiting'[j] => i = j
      BY <2>2
    <3>3. \A v \in Users : stage'[v] = "waiting" => \E i \in 1..Len(waiting') : waiting'[i] = <<v, step'[v]>>
      <4>1. \A v \in Users : stage'[v] = "waiting" => v = u
        BY <1>1, <2>7
      <4> QED
        BY <1>s, <2>2, <2>4, <4>1
    <3>4. \A v \in Users : stage'[v] \in Running <=> active' = {<<v, step'[v]>>}
      <4>1. \A v \in Users : stage[v] \notin Running
        BY <1>k DEF QueueInv
      <4> QED
        BY <1>1, <1>d, <1>k, <4>1 DEF Running
    <3>5. \A v \in Users : <<v, step'[v]>> \in discarded' => stage'[v] = "dropped"
      BY <1>1, <1>s, <2>8
    <3> QED
      BY <1>d, <1>k, <3>1, <3>2, <3>3, <3>4, <3>5 DEF QueueInv
  <2>10. \A v \in Queries : stage'[v] = stage[v] \/ (stage[v] = "waiting" /\ stage'[v] = "dropped")
    BY <1>1, <1>c, <2>8 DEF Users
  <2>11. \A v \in Queries : stage'[v] = "waiting" => active = {} /\ waiting' = <<<<v, step[v]>>>>
    <3>1. \A v \in Users : stage'[v] = "waiting" => v = u
      BY <1>1, <2>7
    <3> QED
      BY <1>k, <2>2, <2>4, <3>1 DEF Users
  <2>12. waiting' \in Seq(Tasks) /\ discarded' \subseteq Tasks
    BY <1>t, <2>1, <2>2, <2>3
  <2> QED
    BY <1>d, <2>9, <2>10, <2>11, <2>12
<1>n. CASE ~claimed
  <2>1. waiting' = <<>> /\ Len(waiting') = 0
    BY <1>n, <1>s
  <2>2. discarded' = discarded \cup {waiting[i] : i \in 1..n}
    BY <1>s, <2>1 DEF Executor!Discard
  <2>3. \A v \in Users : stage[v] = "waiting" => <<v, step[v]>> \in discarded'
    BY <2>2 DEF QueueInv
  <2>4. \A v \in Users : <<v, step[v]>> \in discarded' => stage[v] \in {"waiting", "dropped"} /\ v # Closing
    <3> SUFFICES ASSUME NEW v \in Users, <<v, step[v]>> \in discarded'
                 PROVE  stage[v] \in {"waiting", "dropped"}
      BY <1>c
    <3>1. <<v, step[v]>> \in discarded \/ \E i \in 1..n : waiting[i] = <<v, step[v]>>
      BY <2>2
    <3> QED
      BY <1>2, <3>1 DEF QueueInv
  <2>5. \A v \in Users : stage'[v] # "waiting"
    BY <1>1, <2>3
  <2>6. \A v \in Users : stage'[v] \in Running <=> stage[v] \in Running
    BY <1>1, <1>c, <2>4 DEF Running
  <2>7. QueueInv'
    <3>1. \A v \in Users : stage'[v] \in Running <=> active' = {<<v, step'[v]>>}
      BY <1>d, <1>s, <2>6, Zenon DEF QueueInv
    <3>2. \A v \in Users : <<v, step'[v]>> \in discarded' => stage'[v] = "dropped"
      BY <1>1, <1>s, <2>4
    <3> QED
      BY <1>d, <1>s, <2>1, <2>5, <3>1, <3>2 DEF QueueInv
  <2>8. \A v \in Queries : stage'[v] = stage[v] \/ (stage[v] = "waiting" /\ stage'[v] = "dropped")
    BY <1>1, <1>c, <2>4 DEF Users
  <2>9. waiting' \in Seq(Tasks) /\ discarded' \subseteq Tasks
    BY <1>t, <2>1, <2>2
  <2> QED
    BY <1>d, <2>5, <2>7, <2>8, <2>9 DEF Users
<1> QED
  BY <1>k, <1>n
-----------------------------------------------------------------------------
(* What the parts of the invariant look at.                                  *)

Stages == {"idle", "waiting", "sent", "executing", "answered", "refused", "resumed", "rejected",
           "dropped", "cut", "closing", "hung", "ok", "failed"}

LEMMA UsersProperties ==
    /\ Closing \in Users /\ Closing \notin Queries /\ Queries \subseteq Users
    /\ \A u \in Users : u \in Queries \/ u = Closing
    /\ NoQuery \notin Queries
    /\ 0 \notin Handles
  BY HandlesAssumption, HandlesProperties DEF HandlesAssumption, Users

LEMMA UserTypes ==
    ASSUME TypeOK
    PROVE  /\ stage \in [Users -> Stages]
           /\ doing \in [Users -> {"query", "fetch", "closeQuery"}]
           /\ step \in [Users -> 1..MaxStep]
           /\ handle \in [Users -> Handles \cup {0}]
           /\ rows \in [Queries -> Seq(Queries \X Nat)]
           /\ given \in [Queries -> Seq(Queries \X Nat)]
  BY DEF TypeOK, Stages

LEMMA TableTypes ==
    ASSUME TypeOK
    PROVE  /\ table \in [Handles -> [of : Queries \cup {NoQuery}, total : Nat, cursor : Nat]]
           /\ server \in [Handles -> Queries \cup {NoQuery}]
           /\ sweep \subseteq Handles
  BY DEF TypeOK

\* A call that does not change and whose statement stays prepared.
LEMMA CallKept ==
    ASSUME NEW q, CallOf(q), UNCHANGED protocol,
           stage'[q] = stage[q], doing'[q] = doing[q], step'[q] = step[q], handle'[q] = handle[q],
           stage[q] = "executing" => \A h \in Handles : server[h] = q => server'[h] = q
    PROVE  CallOf(q)'
  BY DEF CallOf

LEMMA ClosingKept ==
    ASSUME ClosingInv, UNCHANGED sweep, stage'[Closing] = stage[Closing], doing'[Closing] = doing[Closing],
           step'[Closing] = step[Closing], handle'[Closing] = handle[Closing]
    PROVE  ClosingInv'
  BY DEF ClosingInv

\* The queue runs one task at a time.
LEMMA OneRuns ==
    ASSUME QueueInv, NEW u \in Users, NEW v \in Users, stage[u] \in Running, stage[v] \in Running
    PROVE  v = u
<1>1. active = {<<v, step[v]>>} /\ active = {<<u, step[u]>>}
  BY DEF QueueInv
<1>2. <<v, step[v]>> = <<u, step[u]>>
  BY <1>1
<1> QED
  BY <1>2

\* Calls move on, and what is open and in the table stays as it is.
LEMMA SessionKept ==
    ASSUME TypeOK, SessionInv, UNCHANGED <<protocol, server, table, given>>,
           \A q \in Queries : /\ handle'[q] = handle[q]
                              /\ Prepared(q) => Prepared(q)'
                              /\ doing'[q] = "closeQuery" /\ stage'[q] \in {"answered", "resumed", "ok"} =>
                                   doing[q] = "closeQuery" /\ stage[q] \in {"answered", "resumed", "ok"}
    PROVE  SessionInv'
<1>1. OneHandleEach' /\ TableInv' /\ EachRowOnce'
  BY DEF SessionInv, OneHandleEach, TableInv, EachRowOnce
<1>2. OpenInv'
  <2> SUFFICES ASSUME NEW h \in Handles, server[h] # NoQuery
               PROVE  \/ /\ handle'[server[h]] = h
                         /\ table[h].of = server[h]
                         /\ table[h].cursor = Len(given[server[h]])
                      \/ handle'[server[h]] = 0 /\ Prepared(server[h])'
    BY DEF OpenInv, Prepared
  <2>1. server[h] \in Queries
    BY TableTypes
  <2> QED
    BY <2>1 DEF SessionInv, OpenInv
<1>3. ClosedInv'
  BY DEF SessionInv, ClosedInv
<1> QED
  BY <1>1, <1>2, <1>3 DEF SessionInv

\* A new session has nothing open.
LEMMA SessionEnded ==
    ASSUME TypeOK, SessionInv, UNCHANGED given, server' = [h \in Handles |-> NoQuery],
           \A h \in Handles : table'[h] \in {table[h], NoPacket}
    PROVE  SessionInv'
<1>1. \A h \in Handles : server'[h] = NoQuery
  OBVIOUS
<1>2. OneHandleEach' /\ OpenInv' /\ EachRowOnce'
  BY <1>1 DEF OneHandleEach, OpenInv, SessionInv, EachRowOnce
<1>3. TableInv'
  BY DEF SessionInv, TableInv
<1>4. ClosedInv'
  BY <1>1, UsersProperties DEF ClosedInv
<1> QED
  BY <1>2, <1>3, <1>4 DEF SessionInv

\* The sweep finds what it found before, if its handles stay in the table and
\* nobody comes to have one of them.
LEMMA SweepKept ==
    ASSUME SweepFinds, UNCHANGED <<sweep, overtaken>>, handle'[Closing] = handle[Closing],
           stage'[Closing] \in Unswept <=> stage[Closing] \in Unswept,
           \A h \in Handles : table[h].of # NoQuery => table'[h].of # NoQuery,
           \A q \in Queries : \/ stage'[q] = stage[q] /\ handle'[q] = handle[q]
                              \/ stage'[q] \in AtRest
                              \/ handle'[q] \notin ToSweep
    PROVE  SweepFinds'
<1>1. ToSweep' = ToSweep
  BY DEF ToSweep
<1>2. ASSUME NEW q \in Queries PROVE Elsewhere(q)'
  <2>1. Elsewhere(q)
    BY DEF SweepFinds
  <2> QED
    BY <1>1, <2>1 DEF Elsewhere
<1> QED
  BY <1>1, <1>2 DEF SweepFinds

\* As long as no session is lost, calls that change nothing but their own stage
\* change nothing for the table.
LEMMA TableKept ==
    ASSUME TypeOK, TableIsOpen, UNCHANGED <<server, table>>, \A q \in Queries : handle'[q] = handle[q]
    PROVE  TableIsOpen'
  BY TableTypes, UsersProperties DEF TableIsOpen

-----------------------------------------------------------------------------
(* The steps of the queue.                                                   *)

\* query() puts a first task into the line.
LEMMA QueryKeeps == \A q \in Queries : IInv /\ Query(q) => IInv'
<1> SUFFICES ASSUME NEW q \in Queries, IInv, Query(q) PROVE IInv'
  OBVIOUS
<1> USE UsersProperties
<1>t. TypeOK /\ QueueInv /\ CallInv /\ SessionInv /\ CloseInv
  BY DEF IInv
<1>s. /\ stage[q] = "idle" /\ Executor!Submit(<<q, 1>>)
      /\ stage' = [stage EXCEPT ![q] = "waiting"]
      /\ UNCHANGED <<protocol, link, server, losses, table, sweep, overtaken, rivals, doing, step, handle, rows, given>>
  BY DEF Query, serverVars, closeVars
<1>1. stage' \in [Users -> Stages] /\ \A v \in Users : stage'[v] = IF v = q THEN "waiting" ELSE stage[v]
  BY <1>t, <1>s, UserTypes DEF Stages
<1>2. doing[q] = "query" /\ step[q] = 1 /\ handle[q] = 0 /\ q # Closing
  BY <1>t, <1>s DEF CallInv, CallOf
<1>3. <<q, 1>> \in Tasks
  BY HandlesAssumption DEF Tasks, HandlesAssumption
<1>4. /\ Inserted(<<q, 1>>, Len(waiting) + 1) /\ Executor!Fresh(<<q, 1>>)
      /\ UNCHANGED <<active, finished, discarded>>
  BY <1>t, <1>s, <1>3, SubmitInserts
<1>5. QueueInv'
  <2>1. step'[q] = 1 /\ \A v \in Users \ {q} : step'[v] = step[v]
    BY <1>s, <1>2
  <2>2. stage[q] \notin Running \cup {"waiting", "dropped"}
    BY <1>s DEF Running
  <2> QED
    BY <1>t, <1>1, <1>4, <2>1, <2>2, QueueInserted
<1>6. TypeOK'
  BY <1>t, <1>s, <1>1, <1>4 DEF TypeOK, Inserted, Stages
<1>7. CallInv'
  <2>1. ClosingInv'
    BY <1>t, <1>s, <1>1, <1>2, ClosingKept DEF CallInv
  <2>2. \A v \in Queries : v # q => CallOf(v)'
    BY <1>t, <1>s, <1>1, CallKept DEF CallInv
  <2>3. CallOf(q)'
    BY <1>t, <1>s, <1>1, <1>2 DEF CallInv, CallOf
  <2> QED
    BY <2>1, <2>2, <2>3 DEF CallInv
<1>8. SessionInv'
  BY <1>t, <1>s, <1>1, <1>2, SessionKept DEF Prepared
<1>9. CloseInv'
  <2>1. stage'[Closing] = stage[Closing]
    BY <1>1, <1>2
  <2>2. stage'[Closing] = "closing" => link' = "shared" \/ \A u \in Users : ~InFlight(u)'
    BY <1>t, <1>s, <1>1, <2>1 DEF CloseInv, InFlight
  <2>3. TableIsOpen => TableIsOpen'
    BY <1>t, <1>s, TableKept
  <2>4. SweepFinds => SweepFinds'
    <3> SUFFICES ASSUME SweepFinds PROVE SweepFinds'
      OBVIOUS
    <3>1. handle'[q] \notin ToSweep
      BY <1>s, <1>2 DEF SweepFinds
    <3>2. \A v \in Queries : (stage'[v] = stage[v] /\ handle'[v] = handle[v]) \/ handle'[v] \notin ToSweep
      BY <1>s, <1>1, <3>1
    <3> QED
      BY <1>s, <2>1, <3>2, SweepKept
  <2> QED
    BY <1>t, <1>s, <2>1, <2>2, <2>3, <2>4 DEF CloseInv
<1> QED
  BY <1>5, <1>6, <1>7, <1>8, <1>9 DEF IInv

\* A result is told to the user it belongs to.
LEMMA DoneKeeps == \A u \in Users : IInv /\ Done(u) => IInv'
<1> SUFFICES ASSUME NEW u \in Users, IInv, Done(u) PROVE IInv'
  OBVIOUS
<1> USE UsersProperties
<1> DEFINE new == IF stage[u] = "answered" THEN "resumed" ELSE "rejected"
<1>t. TypeOK /\ QueueInv /\ CallInv /\ SessionInv /\ CloseInv
  BY DEF IInv
<1>s. /\ stage[u] \in {"answered", "refused"} /\ Executor!Finish
      /\ stage' = [stage EXCEPT ![u] = new]
      /\ UNCHANGED <<protocol, link, server, losses, table, sweep, overtaken, rivals, doing, step, handle, rows, given>>
  BY <1>t, UserTypes DEF Done, serverVars, closeVars
<1>1. stage' \in [Users -> Stages] /\ \A v \in Users : stage'[v] = IF v = u THEN new ELSE stage[v]
  BY <1>t, <1>s, UserTypes DEF Stages
<1>2. /\ stage[u] = "answered" => new = "resumed"
      /\ stage[u] = "refused" => new = "rejected"
      /\ new \in {"resumed", "rejected"}
  BY <1>s
<1>3. new \notin Running \cup {"waiting"} /\ stage[u] \in Running
  BY <1>s, <1>2 DEF Running
<1> HIDE DEF new
<1>4. QueueInv' /\ active' = {} /\ finished' \subseteq Tasks /\ UNCHANGED <<waiting, discarded>>
  BY <1>t, <1>s, <1>3, QueueFinished
<1>5. TypeOK'
  BY <1>t, <1>s, <1>1, <1>4 DEF TypeOK, Stages
<1>6. CallInv'
  <2>1. ClosingInv'
    <3>1. CASE u = Closing
      BY <1>t, <1>s, <1>1, <1>2, <3>1 DEF CallInv, ClosingInv, Running
    <3>2. CASE u # Closing
      BY <1>t, <1>s, <1>1, <3>2, ClosingKept DEF CallInv
    <3> QED
      BY <3>1, <3>2
  <2>2. \A v \in Queries : v # u => CallOf(v)'
    BY <1>t, <1>s, <1>1, CallKept DEF CallInv
  <2>3. u \in Queries => CallOf(u)'
    BY <1>t, <1>s, <1>1, <1>2 DEF CallInv, CallOf
  <2> QED
    BY <2>1, <2>2, <2>3 DEF CallInv
<1>7. SessionInv'
  <2> SUFFICES \A q \in Queries : /\ Prepared(q) => Prepared(q)'
                                  /\ stage'[q] \in {"answered", "resumed", "ok"} =>
                                        stage[q] \in {"answered", "resumed", "ok"}
    BY <1>t, <1>s, SessionKept
  <2> QED
    BY <1>s, <1>1, <1>2 DEF Prepared
<1>8. CloseInv'
  <2>1. /\ stage'[Closing] = stage[Closing] \/ (stage[Closing] = "answered" /\ stage'[Closing] = "resumed")
           \/ (stage[Closing] = "refused" /\ stage'[Closing] = "rejected")
    BY <1>s, <1>1, <1>2
  <2>2. stage'[Closing] = "closing" => link' = "shared" \/ \A v \in Users : ~InFlight(v)'
    BY <1>t, <1>s, <1>1, <1>2, <2>1 DEF CloseInv, InFlight
  <2>3. TableIsOpen => TableIsOpen'
    BY <1>t, <1>s, TableKept
  <2>4. SweepFinds => SweepFinds'
    <3> SUFFICES ASSUME SweepFinds PROVE SweepFinds'
      OBVIOUS
    <3>1. stage'[Closing] \in Unswept <=> stage[Closing] \in Unswept
      BY <2>1 DEF Unswept
    <3>2. \A q \in Queries : (stage'[q] = stage[q] /\ handle'[q] = handle[q]) \/ handle'[q] \notin ToSweep
      BY <1>s, <1>1 DEF SweepFinds, Elsewhere, AtRest, Stopped
    <3> QED
      BY <1>s, <3>1, <3>2, SweepKept
  <2>5. losses > MaxLosses => stage'[Closing] \in {"ok", "failed"}
    BY <1>t, <2>1 DEF CloseInv
  <2>6. stage'[Closing] \notin {"idle", "ok"} <=> stage[Closing] \notin {"idle", "ok"}
    BY <2>1
  <2>7. stage'[Closing] # "idle" <=> stage[Closing] # "idle"
    BY <2>1
  <2> QED
    BY <1>t, <1>s, <2>2, <2>3, <2>4, <2>5, <2>6, <2>7 DEF CloseInv
<1> QED
  BY <1>4, <1>5, <1>6, <1>7, <1>8 DEF IInv

\* The next task runs: it has its request sent, is refused, or has nothing to ask.
LEMMA StartKeeps == IInv /\ Start => IInv'
<1> SUFFICES ASSUME IInv, Start PROVE IInv'
  OBVIOUS
<1> USE UsersProperties
<1>t. TypeOK /\ QueueInv /\ CallInv /\ SessionInv /\ CloseInv
  BY DEF IInv
<1>h. PICK u \in Users : u = Head(waiting)[1]
  <2>1. waiting # <<>>
    BY DEF Start, Executor!Start
  <2>2. Head(waiting) = waiting[1] /\ 1 \in 1..Len(waiting)
    BY <1>t, <2>1, QueueTypes
  <2> QED
    BY <1>t, <2>2, QueueTypes
<1> DEFINE called == CASE doing[u] = "query" -> "sent"
                       [] doing[u] # "query" /\ table[handle[u]] = NoPacket -> "refused"
                       [] doing[u] = "fetch" /\ table[handle[u]] # NoPacket /\ Exhausted(table[handle[u]]) ->
                             "answered"
                       [] OTHER -> "sent"
<1>s. /\ Executor!Start /\ link # "shared"
      /\ UNCHANGED <<protocol, server, losses, table, sweep, overtaken, rivals, doing, step, handle, rows, given>>
      /\ \/ /\ stage' = [stage EXCEPT ![u] = called]
            /\ link' = IF stage'[u] = "sent" /\ stage[Closing] = "closing" THEN "shared" ELSE "up"
         \/ /\ link = "down" /\ link' = link
            /\ stage' = [stage EXCEPT ![u] = "refused"]
  BY <1>h DEF Start, Quiet, closeVars
<1>c. /\ called \in {"sent", "refused", "answered"}
      /\ called = "refused" => doing[u] # "query" /\ table[handle[u]] = NoPacket
      /\ called = "answered" => doing[u] = "fetch"
  OBVIOUS
<1>n. PICK new \in {"sent", "refused", "answered"} :
         /\ stage' = [stage EXCEPT ![u] = new]
         /\ \/ /\ new = called
               /\ link' = IF stage'[u] = "sent" /\ stage[Closing] = "closing" THEN "shared" ELSE "up"
            \/ new = "refused" /\ link = "down" /\ link' = link
  BY <1>s, <1>c
<1>u. /\ QueueInv' /\ u \in Users /\ stage[u] = "waiting"
      /\ waiting' \in Seq(Tasks) /\ active' \subseteq Tasks /\ UNCHANGED <<finished, discarded>>
      /\ \A v \in Users : stage[v] \notin Running
  <2>1. new \in Running /\ UNCHANGED step
    BY <1>s DEF Running
  <2> QED
    BY <1>h, <1>t, <1>s, <1>n, <2>1, QueueStarted
<1>d. new = "answered" => doing[u] = "fetch"
  BY <1>c, <1>n
<1>r. new = "refused" => link = "down" \/ (doing[u] # "query" /\ table[handle[u]] = NoPacket)
  BY <1>c, <1>n
<1>l. \/ link' = "shared" \/ (link' = "up" /\ (new = "sent" => stage[Closing] # "closing"))
      \/ (new = "refused" /\ link = "down" /\ link' = "down")
  <2>1. stage'[u] = new
    BY <1>t, <1>n, <1>u, UserTypes
  <2> QED
    BY <1>n, <2>1
<1> HIDE DEF called
<1>1. stage' \in [Users -> Stages] /\ \A v \in Users : stage'[v] = IF v = u THEN new ELSE stage[v]
  BY <1>t, <1>n, <1>u, UserTypes DEF Stages
<1>2. TypeOK'
  BY <1>t, <1>s, <1>1, <1>u, <1>l DEF TypeOK, Stages
<1>3. CallInv'
  <2>1. ClosingInv'
    <3>1. CASE u = Closing
      BY <1>t, <1>s, <1>1, <1>d, <1>u, <3>1 DEF CallInv, ClosingInv, Running
    <3>2. CASE u # Closing
      BY <1>t, <1>s, <1>1, <3>2, ClosingKept DEF CallInv
    <3> QED
      BY <3>1, <3>2
  <2>2. \A v \in Queries : v # u => CallOf(v)'
    BY <1>t, <1>s, <1>1, CallKept DEF CallInv
  <2>3. u \in Queries => CallOf(u)'
    BY <1>t, <1>s, <1>1, <1>d, <1>u DEF CallInv, CallOf
  <2> QED
    BY <2>1, <2>2, <2>3 DEF CallInv
<1>4. SessionInv'
  <2> SUFFICES \A q \in Queries : /\ Prepared(q) => Prepared(q)'
                                  /\ doing[q] = "closeQuery" /\ stage'[q] \in {"answered", "resumed", "ok"} =>
                                        stage[q] \in {"answered", "resumed", "ok"}
    BY <1>t, <1>s, SessionKept
  <2> QED
    BY <1>s, <1>1, <1>d, <1>u DEF Prepared
<1>5. CloseInv'
  <2>0. /\ stage'[Closing] = stage[Closing]
           \/ (u = Closing /\ stage[Closing] = "waiting" /\ stage'[Closing] = new)
        /\ stage'[Closing] \in {"idle", "closing", "ok", "failed"} => u # Closing
    BY <1>1, <1>u
  <2>1. stage'[Closing] = "closing" => link' = "shared" \/ \A v \in Users : ~InFlight(v)'
    <3> SUFFICES ASSUME stage'[Closing] = "closing", link' # "shared", NEW v \in Users PROVE ~InFlight(v)'
      OBVIOUS
    <3>1. stage[Closing] = "closing" /\ new # "sent"
      BY <1>l, <2>0
    <3>2. stage[v] \notin Running
      BY <1>u
    <3> QED
      BY <1>1, <3>1, <3>2 DEF InFlight, Running
  <2>2. losses > MaxLosses => stage'[Closing] \in {"ok", "failed"}
    BY <1>t, <1>u, <2>0 DEF CloseInv
  <2>3. TableIsOpen => TableIsOpen'
    BY <1>t, <1>s, TableKept
  <2>4. losses = 0 /\ stage'[Closing] \notin {"idle", "ok"} => link # "down" /\ stage[Closing] # "idle"
    BY <1>t, <1>u, <2>0 DEF CloseInv
  <2>5. ASSUME losses = 0, stage'[Closing] # "idle", rivals = {} PROVE SweepFinds'
    <3>1. SweepFinds
      BY <1>t, <1>u, <2>0, <2>5 DEF CloseInv
    <3>2. stage'[Closing] \in Unswept <=> stage[Closing] \in Unswept
      <4>1. u = Closing => new # "answered"
        BY <1>t, <1>d DEF CallInv, ClosingInv
      <4> QED
        BY <2>0, <4>1 DEF Unswept
    <3>3. \A q \in Queries : (stage'[q] = stage[q] /\ handle'[q] = handle[q]) \/ handle'[q] \notin ToSweep
      BY <1>s, <1>1, <1>u, <3>1 DEF SweepFinds, Elsewhere, AtRest, Stopped
    <3> QED
      BY <1>s, <3>1, <3>2, <3>3, SweepKept
  <2>6. losses = 0 /\ stage'[Closing] \notin {"idle", "ok"} => link' # "down"
    BY <1>l, <2>4
  <2> QED
    BY <1>t, <1>s, <2>1, <2>2, <2>3, <2>5, <2>6 DEF CloseInv
<1> QED
  BY <1>2, <1>3, <1>4, <1>5, <1>u DEF IInv

\* The follow-up calls leave as many as their users may still make.
LEMMA FollowUpsProperties ==
    ASSUME NEW q \in Queries, TypeOK, CallOf(q), ~Ends(q), NEW call \in FollowUps(q)
    PROVE  /\ call \in {"fetch", "closeQuery"}
           /\ step[q] + 1 \in 1..MaxStep
           /\ call = "fetch" => step[q] + 1 < MaxStep
<1>1. /\ doing[q] \in {"query", "fetch"} /\ step[q] \in Nat /\ MaxStep \in Nat /\ MaxStep >= 3
      /\ step[q] < MaxStep /\ (doing[q] = "query" => step[q] = 1)
  BY UserTypes, UsersProperties, HandlesAssumption DEF HandlesAssumption, Ends, CallOf
<1>2. CASE doing[q] = "query"
  BY <1>1, <1>2 DEF FollowUps
<1>3. CASE doing[q] = "fetch"
  BY <1>1, <1>3 DEF FollowUps
<1> QED
  BY <1>1, <1>2, <1>3

\* A user goes on to the next call, or is done.
LEMMA ContinueKeeps == \A q \in Queries : IInv /\ Continue(q) => IInv'
<1> SUFFICES ASSUME NEW q \in Queries, IInv, Continue(q) PROVE IInv'
  OBVIOUS
<1> USE UsersProperties
<1>t. TypeOK /\ QueueInv /\ CallInv /\ SessionInv /\ CloseInv
  BY DEF IInv
<1>s. UNCHANGED <<protocol, link, server, losses, table, sweep, overtaken, handle, rows, given>>
  BY DEF Continue, serverVars
<1>1. ASSUME NEW new \in {"ok", "failed"}, stage' = [stage EXCEPT ![q] = new],
             stage[q] \in {"rejected", "resumed"}, UNCHANGED <<execVars, rivals, doing, step>>,
             new = "ok" => Ends(q) /\ stage[q] = "resumed",
             new = "failed" => stage[q] = "rejected"
      PROVE  IInv'
  <2>1. stage' \in [Users -> Stages] /\ \A v \in Users : stage'[v] = IF v = q THEN new ELSE stage[v]
    BY <1>t, <1>1, UserTypes DEF Stages
  <2>2. stage'[Closing] = stage[Closing]
    BY <2>1
  <2>3. QueueInv'
    <3>1. \A v \in Users : /\ stage'[v] = "waiting" <=> stage[v] = "waiting"
                           /\ stage'[v] \in Running <=> stage[v] \in Running
                           /\ stage[v] = "dropped" => stage'[v] = "dropped"
      BY <1>1, <2>1 DEF Running
    <3> QED
      BY <1>t, <1>1, <3>1, QueueKept
  <2>4. TypeOK'
    BY <1>t, <1>s, <1>1, <2>1 DEF TypeOK, execVars, Stages
  <2>5. CallInv'
    <3>1. ClosingInv'
      BY <1>t, <1>s, <1>1, <2>2, ClosingKept DEF CallInv
    <3>2. \A v \in Queries : v # q => CallOf(v)'
      BY <1>t, <1>s, <1>1, <2>1, CallKept DEF CallInv
    <3>3. CallOf(q)'
      BY <1>t, <1>s, <1>1, <2>1 DEF CallInv, CallOf, Ends
    <3> QED
      BY <3>1, <3>2, <3>3 DEF CallInv
  <2>6. SessionInv'
    <3> SUFFICES \A v \in Queries : /\ Prepared(v) => Prepared(v)'
                                    /\ stage'[v] \in {"answered", "resumed", "ok"} =>
                                          stage[v] \in {"answered", "resumed", "ok"}
      BY <1>t, <1>s, <1>1, SessionKept
    <3> QED
      BY <1>s, <1>1, <2>1 DEF Prepared
  <2>7. CloseInv'
    <3>1. stage'[Closing] = "closing" => link' = "shared" \/ \A v \in Users : ~InFlight(v)'
      BY <1>t, <1>s, <1>1, <2>1, <2>2 DEF CloseInv, InFlight
    <3>2. TableIsOpen => TableIsOpen'
      BY <1>t, <1>s, TableKept
    <3>3. SweepFinds => SweepFinds'
      <4>1. \A v \in Queries : stage'[v] = stage[v] \/ stage'[v] \in AtRest
        BY <1>1, <2>1 DEF AtRest
      <4> QED
        BY <1>s, <2>2, <4>1, SweepKept
    <3> QED
      BY <1>t, <1>s, <1>1, <2>2, <3>1, <3>2, <3>3 DEF CloseInv
  <2> QED
    BY <2>3, <2>4, <2>5, <2>6, <2>7 DEF IInv
<1>2. ASSUME stage[q] = "resumed", ~Ends(q), step' = [step EXCEPT ![q] = @ + 1],
             \E call \in FollowUps(q) : doing' = [doing EXCEPT ![q] = call],
             Unshift(<<q, step'[q]>>), stage' = [stage EXCEPT ![q] = "waiting"],
             rivals' = rivals \cup ({q} \cap overtaken)
      PROVE  IInv'
  <2>1. stage' \in [Users -> Stages] /\ \A v \in Users : stage'[v] = IF v = q THEN "waiting" ELSE stage[v]
    BY <1>t, <1>2, UserTypes DEF Stages
  <2>2. CallOf(q)
    BY <1>t DEF CallInv
  <2>3. PICK call \in FollowUps(q) : doing' = [doing EXCEPT ![q] = call]
    BY <1>2
  <2>4. /\ call \in {"fetch", "closeQuery"} /\ step[q] + 1 \in 1..MaxStep
        /\ call = "fetch" => step[q] + 1 < MaxStep
    BY <1>t, <1>2, <2>2, FollowUpsProperties
  <2>5. /\ doing' \in [Users -> {"query", "fetch", "closeQuery"}]
        /\ \A v \in Users : doing'[v] = IF v = q THEN call ELSE doing[v]
    BY <1>t, <2>3, <2>4, UserTypes
  <2>6. step' \in [Users -> 1..MaxStep] /\ \A v \in Users : step'[v] = IF v = q THEN step[q] + 1 ELSE step[v]
    BY <1>t, <1>2, <2>4, UserTypes
  <2>7. <<q, step'[q]>> \in Tasks
    BY <2>4, <2>6 DEF Tasks
  <2>8. /\ Inserted(<<q, step'[q]>>, 1) \/ Inserted(<<q, step'[q]>>, 2)
        /\ Executor!Fresh(<<q, step'[q]>>) /\ UNCHANGED <<active, finished, discarded>>
    BY <1>t, <1>2, <2>7, UnshiftInserts
  <2>9. QueueInv'
    <3>1. stage[q] \notin Running \cup {"waiting", "dropped"}
      BY <1>2 DEF Running
    <3>2. \A v \in Users \ {q} : step'[v] = step[v]
      BY <2>6
    <3> QED
      BY <1>t, <2>1, <2>8, <3>1, <3>2, QueueInserted
  <2>10. TypeOK'
    BY <1>t, <1>s, <1>2, <2>1, <2>5, <2>6, <2>8 DEF TypeOK, Inserted, Stages
  <2>11. stage'[Closing] = stage[Closing] /\ doing'[Closing] = doing[Closing] /\ step'[Closing] = step[Closing]
    BY <2>1, <2>5, <2>6
  <2>12. CallInv'
    <3>1. ClosingInv'
      BY <1>t, <1>s, <2>11, ClosingKept DEF CallInv
    <3>2. \A v \in Queries : v # q => CallOf(v)'
      BY <1>t, <1>s, <2>1, <2>5, <2>6, CallKept DEF CallInv
    <3>3. CallOf(q)'
      BY <1>s, <1>2, <2>1, <2>2, <2>4, <2>5, <2>6 DEF CallOf
    <3> QED
      BY <3>1, <3>2, <3>3 DEF CallInv
  <2>13. SessionInv'
    <3> SUFFICES \A v \in Queries :
                    /\ Prepared(v) => Prepared(v)'
                    /\ doing'[v] = "closeQuery" /\ stage'[v] \in {"answered", "resumed", "ok"} =>
                          doing[v] = "closeQuery" /\ stage[v] \in {"answered", "resumed", "ok"}
      BY <1>t, <1>s, SessionKept
    <3> QED
      BY <1>s, <1>2, <2>1, <2>5 DEF Prepared
  <2>14. CloseInv'
    <3>1. stage'[Closing] = "closing" => link' = "shared" \/ \A v \in Users : ~InFlight(v)'
      BY <1>t, <1>s, <1>2, <2>1, <2>11 DEF CloseInv, InFlight
    <3>2. TableIsOpen => TableIsOpen'
      BY <1>t, <1>s, TableKept
    <3>r. rivals' = {} => rivals = {} /\ q \notin overtaken
      BY <1>2
    <3>3. SweepFinds /\ q \notin overtaken => SweepFinds'
      <4> SUFFICES ASSUME SweepFinds, q \notin overtaken PROVE SweepFinds'
        OBVIOUS
      <4>1. handle'[q] \notin ToSweep
        BY <1>s, <1>2 DEF SweepFinds, Elsewhere, AtRest
      <4>2. \A v \in Queries : (stage'[v] = stage[v] /\ handle'[v] = handle[v]) \/ handle'[v] \notin ToSweep
        BY <1>s, <2>1, <4>1
      <4> QED
        BY <1>s, <2>11, <4>2, SweepKept
    <3> QED
      BY <1>t, <1>s, <2>11, <3>r, <3>1, <3>2, <3>3 DEF CloseInv
  <2> QED
    BY <2>9, <2>10, <2>12, <2>13, <2>14 DEF IInv
<1> QED
  BY <1>1, <1>2 DEF Continue
-----------------------------------------------------------------------------
(* The steps of close().                                                     *)

LEMMA RegisteredProperties ==
    ASSUME TypeOK
    PROVE  /\ Registered \subseteq Handles
           /\ \A S \in SUBSET Handles : IsFiniteSet(S) /\ Cardinality(S) \in Nat
                                        /\ Cardinality(S) <= Cardinality(Queries)
<1>1. Registered \subseteq Handles
  BY DEF Registered
<1>2. ASSUME NEW S \in SUBSET Handles
      PROVE  IsFiniteSet(S) /\ Cardinality(S) \in Nat /\ Cardinality(S) <= Cardinality(Queries)
  BY HandlesProperties, FS_Subset, FS_CardinalityType
<1> QED
  BY <1>1, <1>2

\* close() notes what the table has.
LEMMA CloseKeeps == IInv /\ Close => IInv'
<1> SUFFICES ASSUME IInv, Close PROVE IInv'
  OBVIOUS
<1> USE UsersProperties
<1>t. TypeOK /\ QueueInv /\ CallInv /\ SessionInv /\ CloseInv
  BY DEF IInv
<1>s. /\ stage[Closing] = "idle"
      /\ UNCHANGED <<protocol, link, server, losses, table, doing, step, handle, rows, given>>
  BY DEF Close, serverVars
<1>c. step[Closing] = 1 /\ sweep = {} /\ handle[Closing] = 0 /\ losses <= MaxLosses
  <2>1. losses \in Nat /\ MaxLosses \in Nat
    BY <1>t, HandlesAssumption DEF TypeOK, HandlesAssumption
  <2> QED
    BY <1>t, <1>s, <2>1 DEF CallInv, ClosingInv, CloseInv
<1>1. CASE link = "down" /\ stage' = [stage EXCEPT ![Closing] = "ok"] /\ UNCHANGED <<execVars, closeVars>>
  <2>1. stage' \in [Users -> Stages] /\ \A v \in Users : stage'[v] = IF v = Closing THEN "ok" ELSE stage[v]
    BY <1>t, <1>1, UserTypes DEF Stages
  <2>2. UNCHANGED <<sweep, overtaken, rivals>>
    BY <1>1 DEF closeVars
  <2>3. QueueInv'
    <3>1. \A v \in Users : /\ stage'[v] = "waiting" <=> stage[v] = "waiting"
                           /\ stage'[v] \in Running <=> stage[v] \in Running
                           /\ stage[v] = "dropped" => stage'[v] = "dropped"
      BY <1>s, <2>1 DEF Running
    <3> QED
      BY <1>t, <1>s, <1>1, <3>1, QueueKept
  <2>4. TypeOK'
    BY <1>t, <1>s, <1>1, <2>1, <2>2 DEF TypeOK, execVars, Stages
  <2>5. CallInv'
    <3>1. ClosingInv'
      BY <1>t, <1>s, <2>1, <2>2 DEF CallInv, ClosingInv, Running
    <3>2. \A v \in Queries : CallOf(v)'
      BY <1>t, <1>s, <2>1, CallKept DEF CallInv
    <3> QED
      BY <3>1, <3>2 DEF CallInv
  <2>6. SessionInv'
    <3> SUFFICES \A v \in Queries : stage'[v] = stage[v]
      BY <1>t, <1>s, SessionKept DEF Prepared
    <3> QED
      BY <2>1
  <2>7. CloseInv'
    <3>1. stage'[Closing] = "ok" /\ ToSweep' = {}
      BY <1>c, <2>1, <2>2 DEF ToSweep, Unswept
    <3>2. TableIsOpen => TableIsOpen'
      BY <1>t, <1>s, TableKept
    <3>3. SweepFinds'
      BY <3>1 DEF SweepFinds, Elsewhere
    <3> QED
      BY <1>t, <1>s, <3>1, <3>2, <3>3 DEF CloseInv
  <2> QED
    BY <2>3, <2>4, <2>5, <2>6, <2>7 DEF IInv
<1>2. ASSUME link = "up", stage'[Closing] = "resumed", stage' \in [Users -> Stages], sweep' = Registered,
             overtaken' = {q \in Queries : stage'[q] \notin {"idle", "dropped", "ok", "failed"}},
             rivals' = {q \in overtaken' : stage'[q] = "waiting" \/ InFlight(q)}
      PROVE  IInv'
  <2>1. /\ QueueInv'
        /\ waiting' \in Seq(Tasks) /\ discarded' \subseteq Tasks /\ UNCHANGED <<active, finished>>
        /\ \A v \in Queries : stage'[v] = stage[v] \/ (stage[v] = "waiting" /\ stage'[v] = "dropped")
    BY <1>t, <1>2, QueueDiscarded
  <2>2. Registered \subseteq Handles /\ Cardinality(Registered) \in Nat
        /\ Cardinality(Registered) <= Cardinality(Queries)
    BY <1>t, RegisteredProperties
  <2>3. TypeOK'
    BY <1>t, <1>s, <1>2, <2>1, <2>2 DEF TypeOK, Stages
  <2>4. CallInv'
    <3>1. ClosingInv'
      BY <1>t, <1>s, <1>c, <1>2, <2>2, HandlesProperties DEF CallInv, ClosingInv, Running
    <3>2. ASSUME NEW v \in Queries PROVE CallOf(v)'
      <4>1. CallOf(v)
        BY <1>t DEF CallInv
      <4>2. CASE stage'[v] = stage[v]
        BY <1>s, <4>1, <4>2, CallKept
      <4>3. CASE stage[v] = "waiting" /\ stage'[v] = "dropped"
        BY <1>s, <4>1, <4>3 DEF CallOf
      <4> QED
        BY <2>1, <4>2, <4>3
    <3> QED
      BY <3>1, <3>2 DEF CallInv
  <2>5. SessionInv'
    <3> SUFFICES \A v \in Queries : /\ Prepared(v) => Prepared(v)'
                                    /\ stage'[v] \in {"answered", "resumed", "ok"} =>
                                          stage[v] \in {"answered", "resumed", "ok"}
      BY <1>t, <1>s, SessionKept
    <3> QED
      BY <1>s, <2>1 DEF Prepared
  <2>6. CloseInv'
    <3>1. TableIsOpen => TableIsOpen'
      BY <1>t, <1>s, TableKept
    <3>2. ToSweep' = Registered
      BY <1>2 DEF ToSweep, Unswept
    <3>3. \A h \in Registered : table'[h].of # NoQuery
      BY <1>t, <1>s, <2>2 DEF Registered, SessionInv, TableInv
    <3>4. ASSUME rivals' = {} PROVE SweepFinds'
      <4>1. ASSUME NEW q \in Queries PROVE Elsewhere(q)'
        <5>1. stage[q] \notin {"answered", "refused"}
          BY DEF Close, Quiet, Pending
        <5>2. stage[q] \notin {"closing", "hung"} /\ stage[q] \in Stages
          BY <1>t, UserTypes DEF CallInv, CallOf
        <5>3. q \in overtaken' => stage'[q] # "waiting" /\ stage[q] \notin {"sent", "executing"}
          BY <1>2, <3>4 DEF InFlight
        <5>4. stage'[q] \notin {"idle", "dropped", "ok", "failed"} => q \in overtaken'
          BY <1>2
        <5>5. stage'[q] = stage[q] \/ stage'[q] = "dropped"
          BY <2>1
        <5>6. stage'[q] \in AtRest \/ (q \in overtaken' /\ stage'[q] \in Stopped)
          BY <5>1, <5>2, <5>3, <5>4, <5>5 DEF AtRest, Stopped, Stages
        <5> QED
          BY <5>6 DEF Elsewhere
      <4> QED
        BY <2>2, <3>2, <3>3, <4>1 DEF SweepFinds
    <3> QED
      BY <1>t, <1>s, <1>c, <1>2, <3>1, <3>4 DEF CloseInv
  <2> QED
    BY <2>1, <2>3, <2>4, <2>5, <2>6 DEF IInv
<1>3. CASE link = "up" /\ ~(link = "down")
  <2>1. /\ stage' = [u \in Users |-> IF u = Closing THEN "resumed"
                                     ELSE IF <<u, step[u]>> \in discarded' THEN "dropped" ELSE stage[u]]
        /\ sweep' = Registered
        /\ overtaken' = {q \in Queries : stage'[q] \notin {"idle", "dropped", "ok", "failed"}}
        /\ rivals' = {q \in overtaken' : stage'[q] = "waiting" \/ InFlight(q)}
    BY <1>3 DEF Close
  <2>2. stage'[Closing] = "resumed" /\ stage' \in [Users -> Stages]
    BY <1>t, <2>1, UserTypes DEF Stages
  <2> QED
    BY <1>2, <1>3, <2>1, <2>2
<1> QED
  BY <1>1, <1>3 DEF Close

\* close() goes on to the next handle, or to the end of the session, or is done.
LEMMA SweepKeeps == IInv /\ Sweep => IInv'
<1> SUFFICES ASSUME IInv, Sweep PROVE IInv'
  OBVIOUS
<1> USE UsersProperties
<1>t. TypeOK /\ QueueInv /\ CallInv /\ SessionInv /\ CloseInv
  BY DEF IInv
<1>s. UNCHANGED <<protocol, server, losses, table, overtaken, rivals, doing, rows, given>>
  BY DEF Sweep
<1>n. losses \in Nat /\ MaxLosses \in Nat
  BY <1>t, HandlesAssumption DEF TypeOK, HandlesAssumption
<1>1. ASSUME NEW new \in {"failed", "closing", "hung"}, stage' = [stage EXCEPT ![Closing] = new],
             UNCHANGED <<execVars, sweep, step, handle>>, link' \in {"up", "down", "shared"},
             stage[Closing] \in {"rejected", "resumed"},
             new = "closing" => link' = "shared" \/ \A q \in Queries : ~InFlight(q),
             losses = 0 => link' # "down",
             losses = 0 => (new = "closing" /\ sweep = {}) \/ (new = "failed" /\ stage[Closing] = "rejected")
      PROVE  IInv'
  <2>1. stage' \in [Users -> Stages] /\ \A v \in Users : stage'[v] = IF v = Closing THEN new ELSE stage[v]
    BY <1>t, <1>1, UserTypes DEF Stages
  <2>3. QueueInv'
    <3>1. \A v \in Users : /\ stage'[v] = "waiting" <=> stage[v] = "waiting"
                           /\ stage'[v] \in Running <=> stage[v] \in Running
                           /\ stage[v] = "dropped" => stage'[v] = "dropped"
      BY <1>1, <2>1 DEF Running
    <3> QED
      BY <1>t, <1>1, <3>1, QueueKept
  <2>4. TypeOK'
    BY <1>t, <1>s, <1>1, <2>1 DEF TypeOK, execVars, Stages
  <2>5. CallInv'
    <3>1. ClosingInv'
      BY <1>t, <1>s, <1>1, <2>1 DEF CallInv, ClosingInv, Running
    <3>2. \A v \in Queries : CallOf(v)'
      BY <1>t, <1>s, <1>1, <2>1, CallKept DEF CallInv
    <3> QED
      BY <3>1, <3>2 DEF CallInv
  <2>6. SessionInv'
    <3> SUFFICES \A v \in Queries : stage'[v] = stage[v]
      BY <1>t, <1>s, <1>1, SessionKept DEF Prepared
    <3> QED
      BY <2>1
  <2>7. CloseInv'
    <3>1. stage'[Closing] = "closing" => link' = "shared" \/ \A v \in Users : ~InFlight(v)'
      <4>1. stage'[Closing] = new /\ \A v \in Queries : stage'[v] = stage[v]
        BY <2>1
      <4> QED
        BY <1>1, <4>1 DEF InFlight
    <3>2. TableIsOpen => TableIsOpen'
      BY <1>t, <1>s, <1>1, TableKept
    <3>3. losses <= MaxLosses
      BY <1>t, <1>n, <1>1 DEF CloseInv
    <3>4. losses = 0 /\ SweepFinds => SweepFinds'
      <4> SUFFICES ASSUME losses = 0, SweepFinds PROVE SweepFinds'
        OBVIOUS
      <4>1. CASE new = "closing" /\ sweep = {}
        <5>1. ToSweep' = {}
          BY <1>1, <2>1, <4>1 DEF ToSweep, Unswept
        <5> QED
          BY <5>1 DEF SweepFinds, Elsewhere
      <4>2. CASE new = "failed" /\ stage[Closing] = "rejected"
        <5>1. stage'[Closing] \in Unswept /\ stage[Closing] \in Unswept
          BY <2>1, <4>2 DEF Unswept
        <5>2. \A v \in Queries : stage'[v] = stage[v] /\ handle'[v] = handle[v]
          BY <1>1, <2>1
        <5> QED
          BY <1>s, <1>1, <5>1, <5>2, SweepKept
      <4> QED
        BY <1>1, <4>1, <4>2
    <3> QED
      BY <1>t, <1>n, <1>s, <1>1, <3>1, <3>2, <3>3, <3>4 DEF CloseInv
  <2> QED
    BY <2>3, <2>4, <2>5, <2>6, <2>7 DEF IInv
<1>2. ASSUME stage[Closing] = "resumed", sweep # {}, handle' = [handle EXCEPT ![Closing] = Min(sweep)],
             sweep' = sweep \ {Min(sweep)}, step' = [step EXCEPT ![Closing] = @ + 1],
             Unshift(<<Closing, step'[Closing]>>), stage' = [stage EXCEPT ![Closing] = "waiting"],
             UNCHANGED link
      PROVE  IInv'
  <2>1. stage' \in [Users -> Stages] /\ \A v \in Users : stage'[v] = IF v = Closing THEN "waiting" ELSE stage[v]
    BY <1>t, <1>2, UserTypes DEF Stages
  <2>2. Min(sweep) \in sweep /\ sweep \subseteq Handles
    <3>1. sweep \subseteq Handles
      BY <1>t, TableTypes
    <3> QED
      BY <1>2, <3>1, MinOfSome, HandlesProperties
  <2> DEFINE h == Min(sweep)
  <2>3. handle' \in [Users -> Handles \cup {0}] /\ \A v \in Users : handle'[v] = IF v = Closing THEN h ELSE handle[v]
    BY <1>t, <1>2, <2>2, UserTypes
  <2>4. /\ Cardinality(sweep) \in Nat /\ Cardinality(sweep') = Cardinality(sweep) - 1
        /\ Cardinality(sweep') \in Nat
    <3>1. sweep \in SUBSET Handles /\ sweep' \in SUBSET Handles
      BY <1>2, <2>2
    <3>2. IsFiniteSet(sweep) /\ Cardinality(sweep) \in Nat /\ Cardinality(sweep') \in Nat
      BY <1>t, <3>1, RegisteredProperties
    <3> QED
      BY <1>2, <2>2, <3>2, FS_RemoveElement
  <2>5. /\ step[Closing] \in 1..MaxStep /\ step[Closing] + Cardinality(sweep) <= Cardinality(Queries) + 1
        /\ MaxStep \in Nat /\ MaxStep > Cardinality(Queries) /\ Cardinality(Queries) \in Nat
    BY <1>t, UserTypes, HandlesProperties, HandlesAssumption DEF CallInv, ClosingInv, HandlesAssumption
  <2>6. step[Closing] + 1 \in 1..MaxStep /\ (step[Closing] + 1) + Cardinality(sweep') <= Cardinality(Queries) + 1
    BY <2>4, <2>5
  <2>7. /\ step' \in [Users -> 1..MaxStep]
        /\ \A v \in Users : step'[v] = IF v = Closing THEN step[Closing] + 1 ELSE step[v]
    BY <1>t, <1>2, <2>6, UserTypes
  <2>8. <<Closing, step'[Closing]>> \in Tasks
    BY <2>6, <2>7 DEF Tasks
  <2>9. /\ Inserted(<<Closing, step'[Closing]>>, 1) \/ Inserted(<<Closing, step'[Closing]>>, 2)
        /\ Executor!Fresh(<<Closing, step'[Closing]>>) /\ UNCHANGED <<active, finished, discarded>>
    BY <1>t, <1>2, <2>8, UnshiftInserts
  <2>10. QueueInv'
    <3>1. stage[Closing] \notin Running \cup {"waiting", "dropped"}
      BY <1>2 DEF Running
    <3>2. \A v \in Users \ {Closing} : step'[v] = step[v]
      BY <2>7
    <3> QED
      BY <1>t, <2>1, <2>9, <3>1, <3>2, QueueInserted
  <2>11. TypeOK'
    BY <1>t, <1>s, <1>2, <2>1, <2>2, <2>3, <2>7, <2>9 DEF TypeOK, Inserted, Stages
  <2>12. CallInv'
    <3>1. ClosingInv'
      BY <1>t, <1>s, <1>2, <2>1, <2>2, <2>3, <2>6, <2>7 DEF CallInv, ClosingInv
    <3>2. \A v \in Queries : CallOf(v)'
      BY <1>t, <1>s, <2>1, <2>3, <2>7, CallKept DEF CallInv
    <3> QED
      BY <3>1, <3>2 DEF CallInv
  <2>13. SessionInv'
    <3> SUFFICES \A v \in Queries : stage'[v] = stage[v] /\ handle'[v] = handle[v]
      BY <1>t, <1>s, SessionKept DEF Prepared
    <3> QED
      BY <2>1, <2>3
  <2>14. CloseInv'
    <3>1. stage'[Closing] = "waiting"
      BY <2>1
    <3>2. TableIsOpen => TableIsOpen'
      BY <1>t, <1>s, <2>3, TableKept
    <3>3. SweepFinds => SweepFinds'
      <4>1. ToSweep' = sweep /\ ToSweep = sweep
        BY <1>2, <2>2, <2>3, <3>1 DEF ToSweep, Unswept
      <4>2. \A v \in Queries : stage'[v] = stage[v] /\ handle'[v] = handle[v]
        BY <2>1, <2>3
      <4> QED
        BY <1>s, <4>1, <4>2 DEF SweepFinds, Elsewhere
    <3> QED
      BY <1>t, <1>n, <1>s, <1>2, <3>1, <3>2, <3>3 DEF CloseInv
  <2> QED
    BY <2>10, <2>11, <2>12, <2>13, <2>14 DEF IInv
<1>l. link \in {"up", "down", "shared"}
  BY <1>t DEF TypeOK
<1>f. losses = 0 /\ stage[Closing] \in {"rejected", "resumed"} => link # "down"
  BY <1>t DEF CloseInv
<1>3. CASE /\ stage[Closing] = "rejected" /\ stage' = [stage EXCEPT ![Closing] = "failed"]
           /\ UNCHANGED <<execVars, link, sweep, step, handle>>
  BY <1>1, <1>3, <1>l, <1>f
<1>4. CASE /\ stage[Closing] = "resumed" /\ sweep = {} /\ link = "up"
           /\ stage' = [stage EXCEPT ![Closing] = "closing"]
           /\ link' = (IF \E q \in Queries : InFlight(q) THEN "shared" ELSE "up")
           /\ UNCHANGED <<execVars, sweep, step, handle>>
  <2>1. link' \in {"up", "shared"} /\ (link' = "shared" \/ \A q \in Queries : ~InFlight(q))
    BY <1>4
  <2> QED
    BY <1>1, <1>4, <2>1
<1>5. CASE /\ stage[Closing] = "resumed" /\ sweep = {} /\ link = "down" /\ UNCHANGED link
           /\ \E end \in {"hung", "failed"} : stage' = [stage EXCEPT ![Closing] = end]
           /\ UNCHANGED <<execVars, sweep, step, handle>>
  <2>1. losses # 0
    BY <1>5, <1>f
  <2>2. PICK end \in {"hung", "failed"} : stage' = [stage EXCEPT ![Closing] = end]
    BY <1>5
  <2> QED
    BY <1>1, <1>5, <2>1, <2>2
<1> QED
  BY <1>2, <1>3, <1>4, <1>5 DEF Sweep

\* The last request of close() is answered: the session is over.
LEMMA CloseResponseKeeps == IInv /\ CloseResponse => IInv'
<1> SUFFICES ASSUME IInv, CloseResponse PROVE IInv'
  OBVIOUS
<1> USE UsersProperties
<1>t. TypeOK /\ QueueInv /\ CallInv /\ SessionInv /\ CloseInv
  BY DEF IInv
<1>s. /\ stage[Closing] = "closing" /\ losses' = losses + 1 /\ link' = "down"
      /\ server' = [h \in Handles |-> NoQuery]
      /\ UNCHANGED <<execVars, protocol, table, sweep, overtaken, rivals, doing, step, handle, rows, given>>
  BY DEF CloseResponse, EndSession, closeVars
<1>e. PICK end \in {"ok", "failed"} : stage' = [stage EXCEPT ![Closing] = end]
  BY DEF CloseResponse
<1>q. link # "shared"
  BY DEF CloseResponse, Quiet
<1>1. stage' \in [Users -> Stages] /\ \A v \in Users : stage'[v] = IF v = Closing THEN end ELSE stage[v]
  BY <1>t, <1>e, UserTypes DEF Stages
<1>n. losses \in Nat /\ MaxLosses \in Nat /\ losses <= MaxLosses
  <2>1. losses \in Nat /\ MaxLosses \in Nat
    BY <1>t, HandlesAssumption DEF TypeOK, HandlesAssumption
  <2> QED
    BY <1>t, <1>s, <2>1 DEF CloseInv
<1>2. QueueInv'
  <2>1. \A v \in Users : /\ stage'[v] = "waiting" <=> stage[v] = "waiting"
                         /\ stage'[v] \in Running <=> stage[v] \in Running
                         /\ stage[v] = "dropped" => stage'[v] = "dropped"
    BY <1>s, <1>1 DEF Running
  <2> QED
    BY <1>t, <1>s, <2>1, QueueKept
<1>3. TypeOK'
  <2>1. losses' \in 0..MaxLosses + 1
    BY <1>s, <1>n
  <2>2. server' \in [Handles -> Queries \cup {NoQuery}]
    BY <1>s
  <2> QED
    BY <1>t, <1>s, <1>1, <2>1, <2>2 DEF TypeOK, execVars, Stages
<1>4. CallInv'
  <2>1. ClosingInv'
    BY <1>t, <1>s, <1>1 DEF CallInv, ClosingInv, Running
  <2>2. ASSUME NEW v \in Queries PROVE CallOf(v)'
    <3>1. stage[v] # "executing"
      BY <1>t, <1>s, <1>q DEF CloseInv, InFlight
    <3>2. CallOf(v)
      BY <1>t DEF CallInv
    <3> QED
      BY <1>s, <1>1, <3>1, <3>2, CallKept
  <2> QED
    BY <2>1, <2>2 DEF CallInv
<1>5. SessionInv'
  BY <1>t, <1>s, SessionEnded
<1>6. CloseInv'
  <2>1. stage'[Closing] \in {"ok", "failed"} /\ losses' # 0
    BY <1>s, <1>n, <1>1
  <2> QED
    BY <2>1 DEF CloseInv
<1> QED
  BY <1>2, <1>3, <1>4, <1>5, <1>6 DEF IInv

\* With the session goes what is open in it; a request in flight is answered, failed
\* or never heard of again.
LEMMA LoseKeeps ==
    ASSUME IInv, Lose, stage' \in [Users -> Stages],
           table' \in [Handles -> [of : Queries \cup {NoQuery}, total : Nat, cursor : Nat]],
           \A h \in Handles : table'[h] \in {table[h], NoPacket},
           \A u \in Users :
              \/ stage'[u] = stage[u] /\ ~InFlight(u)
              \/ u = Closing /\ stage[u] = "closing" /\ stage'[u] \in {"failed", "hung"}
              \/ InFlight(u) /\ stage'[u] = "refused"
              \/ InFlight(u) /\ stage'[u] = "answered" /\ doing[u] = "closeQuery"
              \/ InFlight(u) /\ stage'[u] = "cut" /\ doing[u] # "closeQuery",
           stage'[Closing] # "closing"
    PROVE  IInv'
<1> USE UsersProperties
<1>t. TypeOK /\ QueueInv /\ CallInv /\ SessionInv /\ CloseInv
  BY DEF IInv
<1>s. /\ link = "up" /\ losses < MaxLosses /\ losses' = losses + 1 /\ link' = "down"
      /\ server' = [h \in Handles |-> NoQuery]
      /\ UNCHANGED <<execVars, protocol, sweep, overtaken, rivals, doing, step, handle, rows, given>>
  BY DEF Lose, EndSession, closeVars
<1>n. /\ losses \in Nat /\ MaxLosses \in Nat
      /\ losses' # 0 /\ ~(losses' > MaxLosses) /\ losses' \in 0..MaxLosses + 1
  <2>1. losses \in Nat /\ MaxLosses \in Nat
    BY <1>t, HandlesAssumption DEF TypeOK, HandlesAssumption
  <2> QED
    BY <1>s, <2>1
<1>1. QueueInv'
  <2>1. \A u \in Users : /\ stage'[u] = "waiting" <=> stage[u] = "waiting"
                         /\ stage'[u] \in Running <=> stage[u] \in Running
                         /\ stage[u] = "dropped" => stage'[u] = "dropped"
    BY DEF Running, InFlight
  <2> QED
    BY <1>t, <1>s, <2>1, QueueKept
<1>2. TypeOK'
  <2>1. server' \in [Handles -> Queries \cup {NoQuery}]
    BY <1>s
  <2> QED
    BY <1>t, <1>s, <1>n, <2>1 DEF TypeOK, execVars, Stages
<1>3. CallInv'
  <2>1. ClosingInv'
    <3>1. CASE stage'[Closing] = stage[Closing]
      BY <1>t, <1>s, <3>1, ClosingKept DEF CallInv
    <3>2. CASE stage'[Closing] # stage[Closing]
      BY <1>t, <1>s, <3>2 DEF CallInv, ClosingInv, Running, InFlight
    <3> QED
      BY <3>1, <3>2
  <2>2. ASSUME NEW q \in Queries PROVE CallOf(q)'
    <3>1. CallOf(q)
      BY <1>t DEF CallInv
    <3>2. CASE stage'[q] = stage[q]
      <4>1. stage[q] # "executing"
        BY <3>2 DEF InFlight
      <4> QED
        BY <1>s, <3>1, <3>2, <4>1, CallKept
    <3>3. CASE stage'[q] # stage[q]
      <4>1. /\ InFlight(q)
            /\ \/ stage'[q] = "refused"
               \/ stage'[q] = "answered" /\ doing[q] = "closeQuery"
               \/ stage'[q] = "cut" /\ doing[q] # "closeQuery"
        BY <3>3
      <4> QED
        BY <1>s, <3>1, <4>1 DEF CallOf, InFlight
    <3> QED
      BY <3>2, <3>3
  <2> QED
    BY <2>1, <2>2 DEF CallInv
<1>4. SessionInv'
  BY <1>t, <1>s, SessionEnded
<1>5. CloseInv'
  BY <1>n DEF CloseInv
<1> QED
  BY <1>1, <1>2, <1>3, <1>4, <1>5 DEF IInv

\* What the driver does for a closeQuery() whose socket is gone.
LEMMA CloseQueryByLossKeeps ==
    ASSUME IInv, Lose, NEW u \in Users, CloseQueryByLoss(u)
    PROVE  IInv'
<1> USE UsersProperties
<1>t. TypeOK /\ QueueInv /\ CallInv /\ CloseInv
  BY DEF IInv
<1>s. /\ InFlight(u) /\ doing[u] = "closeQuery" /\ Forget(u)
      /\ stage' = [stage EXCEPT ![u] = "answered"] /\ link = "up"
  BY DEF CloseQueryByLoss, Lose
<1>1. stage' \in [Users -> Stages] /\ \A v \in Users : stage'[v] = IF v = u THEN "answered" ELSE stage[v]
  BY <1>t, <1>s, UserTypes DEF Stages
<1>2. /\ table' \in [Handles -> [of : Queries \cup {NoQuery}, total : Nat, cursor : Nat]]
      /\ \A h \in Handles : table'[h] \in {table[h], NoPacket}
  <2>1. NoPacket \in [of : Queries \cup {NoQuery}, total : Nat, cursor : Nat]
    BY DEF NoPacket
  <2> QED
    BY <1>t, <1>s, <2>1, TableTypes DEF Forget
<1>3. \A v \in Users : v # u => ~InFlight(v)
  <2> SUFFICES ASSUME NEW v \in Users, InFlight(v) PROVE v = u
    OBVIOUS
  <2>1. stage[v] \in Running /\ stage[u] \in Running
    BY <1>s DEF InFlight, Running
  <2> QED
    BY <1>t, <2>1, OneRuns
<1>4. stage'[Closing] # "closing"
  <2>1. stage[Closing] # "closing"
    BY <1>t, <1>s DEF CloseInv
  <2> QED
    BY <1>1, <2>1
<1>5. \A v \in Users : \/ stage'[v] = stage[v] /\ ~InFlight(v)
                       \/ InFlight(v) /\ stage'[v] = "answered" /\ doing[v] = "closeQuery"
  BY <1>s, <1>1, <1>3
<1> QED
  BY <1>1, <1>2, <1>4, <1>5, LoseKeeps

\* The socket breaks beside at most one request in flight.
LEMMA SocketErrorKeeps == IInv /\ SocketError => IInv'
<1> SUFFICES ASSUME IInv, SocketError PROVE IInv'
  OBVIOUS
<1> USE UsersProperties
<1>t. TypeOK /\ QueueInv /\ CallInv /\ CloseInv
  BY DEF IInv
<1>s. Lose /\ link = "up"
  BY DEF SocketError, Lose
<1>1. CASE /\ \A u \in Users : ~InFlight(u)
           /\ stage' = [stage EXCEPT ![Closing] = IF @ = "closing" THEN "failed" ELSE @]
           /\ UNCHANGED table
  <2>1. /\ stage' \in [Users -> Stages]
        /\ \A v \in Users :
              stage'[v] = IF v = Closing /\ stage[v] = "closing" THEN "failed" ELSE stage[v]
    BY <1>t, <1>1, UserTypes DEF Stages
  <2>2. /\ table' \in [Handles -> [of : Queries \cup {NoQuery}, total : Nat, cursor : Nat]]
        /\ \A h \in Handles : table'[h] \in {table[h], NoPacket}
    BY <1>t, <1>1, TableTypes
  <2>3. stage'[Closing] # "closing"
    BY <2>1
  <2>4. \A v \in Users : \/ stage'[v] = stage[v] /\ ~InFlight(v)
                         \/ v = Closing /\ stage[v] = "closing" /\ stage'[v] = "failed"
    BY <1>1, <2>1
  <2> QED
    BY <1>s, <2>1, <2>2, <2>3, <2>4, LoseKeeps
<1>2. ASSUME NEW u \in Users, InFlight(u), stage' = [stage EXCEPT ![u] = "refused"], UNCHANGED table
      PROVE  IInv'
  <2>1. /\ stage' \in [Users -> Stages]
        /\ \A v \in Users : stage'[v] = IF v = u THEN "refused" ELSE stage[v]
    BY <1>t, <1>2, UserTypes DEF Stages
  <2>2. /\ table' \in [Handles -> [of : Queries \cup {NoQuery}, total : Nat, cursor : Nat]]
        /\ \A h \in Handles : table'[h] \in {table[h], NoPacket}
    BY <1>t, <1>2, TableTypes
  <2>3. \A v \in Users : v # u => ~InFlight(v)
    <3> SUFFICES ASSUME NEW v \in Users, InFlight(v) PROVE v = u
      OBVIOUS
    <3>1. stage[v] \in Running /\ stage[u] \in Running
      BY <1>2 DEF InFlight, Running
    <3> QED
      BY <1>t, <3>1, OneRuns
  <2>4. stage'[Closing] # "closing"
    <3>1. stage[Closing] # "closing"
      BY <1>t, <1>s, <1>2 DEF CloseInv
    <3> QED
      BY <2>1, <3>1
  <2>5. \A v \in Users : \/ stage'[v] = stage[v] /\ ~InFlight(v)
                         \/ InFlight(v) /\ stage'[v] = "refused"
    BY <1>2, <2>1, <2>3
  <2> QED
    BY <1>s, <2>1, <2>2, <2>4, <2>5, LoseKeeps
<1> QED
  BY <1>s, <1>1, <1>2, CloseQueryByLossKeeps DEF SocketError

\* The server ends the connection beside a request that nobody answers any more.
LEMMA SocketEndKeeps == IInv /\ SocketEnd => IInv'
<1> SUFFICES ASSUME IInv, SocketEnd PROVE IInv'
  OBVIOUS
<1> USE UsersProperties
<1>t. TypeOK /\ CloseInv
  BY DEF IInv
<1>s. Lose
  BY DEF SocketEnd
<1>1. CASE /\ \A u \in Users : InFlight(u) => doing[u] # "closeQuery"
           /\ stage' = [u \in Users |-> IF InFlight(u) THEN "cut"
                                        ELSE IF stage[u] = "closing" THEN "hung" ELSE stage[u]]
           /\ UNCHANGED table
  <2>1. /\ stage' \in [Users -> Stages]
        /\ \A v \in Users : stage'[v] = IF InFlight(v) THEN "cut"
                                         ELSE IF stage[v] = "closing" THEN "hung" ELSE stage[v]
    BY <1>t, <1>1, UserTypes DEF Stages
  <2>2. /\ table' \in [Handles -> [of : Queries \cup {NoQuery}, total : Nat, cursor : Nat]]
        /\ \A h \in Handles : table'[h] \in {table[h], NoPacket}
    BY <1>t, <1>1, TableTypes
  <2>3. stage'[Closing] # "closing"
    BY <2>1
  <2>4. \A v \in Queries : stage[v] # "closing"
    BY DEF IInv, CallInv, CallOf
  <2>5. \A v \in Users : \/ stage'[v] = stage[v] /\ ~InFlight(v)
                         \/ v = Closing /\ stage[v] = "closing" /\ stage'[v] = "hung"
                         \/ InFlight(v) /\ stage'[v] = "cut" /\ doing[v] # "closeQuery"
    BY <1>1, <2>1, <2>4
  <2> QED
    BY <1>s, <2>1, <2>2, <2>3, <2>5, LoseKeeps
<1> QED
  BY <1>s, <1>1, CloseQueryByLossKeeps DEF SocketEnd
-----------------------------------------------------------------------------
(* The answers of the server.                                                *)

\* What every step of Respond leaves alone.
Answering == UNCHANGED <<execVars, protocol, closeVars, doing, step>>

\* A request that runs goes on or is answered.
LEMMA AnswersQueue ==
    ASSUME NEW u \in Users, NEW new \in Running, TypeOK, QueueInv, Answering, stage[u] \in Running,
           stage' = [stage EXCEPT ![u] = new]
    PROVE  /\ QueueInv'
           /\ stage' \in [Users -> Stages]
           /\ \A v \in Users : stage'[v] = IF v = u THEN new ELSE stage[v]
           /\ UNCHANGED <<waiting, active, finished, discarded, protocol, sweep, overtaken, rivals, doing, step>>
<1>1. stage' \in [Users -> Stages] /\ \A v \in Users : stage'[v] = IF v = u THEN new ELSE stage[v]
  BY UserTypes DEF Stages, Running
<1>2. UNCHANGED <<execVars, protocol, sweep, overtaken, rivals, doing, step>>
  BY DEF Answering, closeVars
<1>3. \A v \in Users : /\ stage'[v] = "waiting" <=> stage[v] = "waiting"
                       /\ stage'[v] \in Running <=> stage[v] \in Running
                       /\ stage[v] = "dropped" => stage'[v] = "dropped"
  BY <1>1 DEF Running
<1>4. QueueInv'
  BY <1>2, <1>3, QueueKept
<1> QED
  BY <1>1, <1>2, <1>4 DEF execVars

\* The server, or the driver itself, answers with an error.
LEMMA RefuseKeeps ==
    ASSUME NEW u \in Users, IInv, InFlight(u), Answering, Refuse(u)
    PROVE  IInv'
<1> USE UsersProperties
<1>t. TypeOK /\ QueueInv /\ CallInv /\ SessionInv /\ CloseInv
  BY DEF IInv
<1>i. stage[u] \in {"sent", "executing"} /\ stage[u] \in Running /\ "refused" \in Running
  BY DEF InFlight, Running
<1>r. stage' = [stage EXCEPT ![u] = "refused"] /\ UNCHANGED <<link, server, losses, table, handle, rows, given>>
  BY DEF Refuse, serverVars
<1>q. /\ QueueInv' /\ stage' \in [Users -> Stages]
      /\ \A v \in Users : stage'[v] = IF v = u THEN "refused" ELSE stage[v]
      /\ UNCHANGED <<waiting, active, finished, discarded, protocol, sweep, overtaken, rivals, doing, step>>
  BY <1>t, <1>i, <1>r, AnswersQueue
<1>1. TypeOK'
  BY <1>t, <1>r, <1>q DEF TypeOK, Stages
<1>2. CallInv'
  <2>1. ClosingInv'
    <3>1. CASE u = Closing
      BY <1>t, <1>i, <1>r, <1>q, <3>1 DEF CallInv, ClosingInv, Running
    <3>2. CASE u # Closing
      BY <1>t, <1>r, <1>q, <3>2, ClosingKept DEF CallInv
    <3> QED
      BY <3>1, <3>2
  <2>2. \A v \in Queries : v # u => CallOf(v)'
    BY <1>t, <1>r, <1>q, CallKept DEF CallInv
  <2>3. u \in Queries => CallOf(u)'
    BY <1>t, <1>i, <1>r, <1>q DEF CallInv, CallOf
  <2> QED
    BY <2>1, <2>2, <2>3 DEF CallInv
<1>3. SessionInv'
  <2> SUFFICES \A v \in Queries : /\ Prepared(v) => Prepared(v)'
                                  /\ stage'[v] \in {"answered", "resumed", "ok"} =>
                                        stage[v] \in {"answered", "resumed", "ok"}
    BY <1>t, <1>r, <1>q, SessionKept
  <2> QED
    BY <1>q DEF Prepared
<1>4. CloseInv'
  <2>0. \/ u # Closing /\ stage'[Closing] = stage[Closing]
        \/ u = Closing /\ stage[Closing] = "sent" /\ stage'[Closing] = "refused"
    BY <1>t, <1>i, <1>q DEF CallInv, ClosingInv
  <2>1. stage'[Closing] = "closing" => link' = "shared" \/ \A v \in Users : ~InFlight(v)'
    BY <1>t, <1>r, <1>q, <2>0 DEF CloseInv, InFlight
  <2>2. losses > MaxLosses => stage'[Closing] \in {"ok", "failed"}
    BY <1>t, <2>0 DEF CloseInv
  <2>3. TableIsOpen => TableIsOpen'
    BY <1>t, <1>r, TableKept
  <2>4. SweepFinds => SweepFinds'
    <3> SUFFICES ASSUME SweepFinds PROVE SweepFinds'
      OBVIOUS
    <3>1. stage'[Closing] \in Unswept <=> stage[Closing] \in Unswept
      BY <2>0 DEF Unswept
    <3>2. \A v \in Queries : (stage'[v] = stage[v] /\ handle'[v] = handle[v]) \/ handle'[v] \notin ToSweep
      BY <1>i, <1>r, <1>q DEF SweepFinds, Elsewhere, AtRest, Stopped
    <3> QED
      BY <1>r, <1>q, <3>1, <3>2, SweepKept
  <2>5. /\ stage'[Closing] \notin {"idle", "ok"} <=> stage[Closing] \notin {"idle", "ok"}
        /\ stage'[Closing] # "idle" <=> stage[Closing] # "idle"
    BY <2>0
  <2> QED
    BY <1>t, <1>r, <1>q, <2>1, <2>2, <2>3, <2>4, <2>5 DEF CloseInv
<1> QED
  BY <1>1, <1>2, <1>3, <1>4, <1>q DEF IInv

\* What a user has before the first response: nothing is open for the statement,
\* unless it is prepared.
LEMMA NothingOpen ==
    ASSUME NEW q \in Queries, TypeOK, CallInv, SessionInv, doing[q] = "query", stage[q] = "sent"
    PROVE  handle[q] = 0 /\ \A h \in Handles : server[h] # q
<1>1. handle[q] = 0
  BY DEF CallInv, CallOf
<1>2. ASSUME NEW h \in Handles, server[h] = q PROVE FALSE
  <2>1. handle[q] = h \/ Prepared(q)
    BY <1>2, UsersProperties DEF SessionInv, OpenInv
  <2> QED
    BY <1>1, <2>1, UsersProperties DEF Prepared
<1> QED
  BY <1>1, <1>2

\* A statement is opened under a handle that is free.
LEMMA OpenProperties ==
    ASSUME NEW q \in Queries, TypeOK, OneHandleEach, \A h \in Handles : server[h] # q, Open(q)
    PROVE  \E h \in Handles :
              /\ server[h] = NoQuery /\ server'[h] = q
              /\ server' \in [Handles -> Queries \cup {NoQuery}]
              /\ \A g \in Handles : g # h => server'[g] = server[g]
<1> DEFINE h == Min({g \in Handles : server[g] = NoQuery})
<1>1. server \in [Handles -> Queries \cup {NoQuery}]
  BY TableTypes
<1>2. h \in {g \in Handles : server[g] = NoQuery}
  BY <1>1, FreeHandle DEF OneHandleEach
<1>3. server' = [server EXCEPT ![h] = q]
  BY DEF Open
<1> HIDE DEF h
<1> QED
  BY <1>1, <1>2, <1>3

\* The first rows put the packet into the table, and the handle to the user.
LEMMA FirstRowsKeep ==
    ASSUME NEW q \in Queries, NEW h \in Handles, IInv, InFlight(q), Answering, FirstRows(q),
           doing[q] = "query", UNCHANGED <<link, losses>>,
           server' \in [Handles -> Queries \cup {NoQuery}], server'[h] = q, server[h] \in {NoQuery, q},
           \A g \in Handles : g # h => server'[g] = server[g] /\ server[g] # q
    PROVE  IInv'
<1> USE UsersProperties
<1>t. TypeOK /\ QueueInv /\ CallInv /\ SessionInv /\ CloseInv
  BY DEF IInv
<1>c. (CHOOSE g \in Handles : server'[g] = q) = h
  <2>1. \A g \in Handles : server'[g] = q => g = h
    OBVIOUS
  <2> QED
    BY <2>1
<1>f. PICK first \in 0..Min({PageSize, Rows[q]}) :
         /\ Register(h, q, first)
         /\ handle' = [handle EXCEPT ![q] = h]
         /\ rows' = [rows EXCEPT ![q] = RowsOf(q, 1, first)]
         /\ given' = [given EXCEPT ![q] = RowsOf(q, 1, first)]
         /\ stage' = [stage EXCEPT ![q] = "answered"]
  <2> DEFINE chosen == CHOOSE g \in Handles : server'[g] = q
  <2>1. PICK first \in 0..Min({PageSize, Rows[q]}) :
           /\ Register(chosen, q, first)
           /\ handle' = [handle EXCEPT ![q] = chosen]
           /\ rows' = [rows EXCEPT ![q] = RowsOf(q, 1, first)]
           /\ given' = [given EXCEPT ![q] = RowsOf(q, 1, first)]
           /\ stage' = [stage EXCEPT ![q] = "answered"]
    BY DEF FirstRows
  <2>2. chosen = h
    BY <1>c
  <2> HIDE DEF chosen
  <2> QED
    BY <2>1, <2>2
<1>n. first \in Nat /\ Rows[q] \in Nat
  <2>1. PageSize \in Int /\ Rows[q] \in Int /\ Rows[q] \in Nat
    BY HandlesAssumption DEF HandlesAssumption
  <2>2. Min({PageSize, Rows[q]}) \in Int
    BY <2>1, MinOfTwo
  <2> QED
    BY <2>1, <2>2
<1>i. stage[q] \in {"sent", "executing"} /\ stage[q] \in Running /\ "answered" \in Running
  BY DEF InFlight, Running
<1>q. /\ QueueInv' /\ stage' \in [Users -> Stages]
      /\ \A v \in Users : stage'[v] = IF v = q THEN "answered" ELSE stage[v]
      /\ UNCHANGED <<waiting, active, finished, discarded, protocol, sweep, overtaken, rivals, doing, step>>
  BY <1>t, <1>i, <1>f, AnswersQueue
<1>p. /\ table' = [table EXCEPT ![h] = Packet(q, first)]
      /\ Packet(q, first) \in [of : Queries \cup {NoQuery}, total : Nat, cursor : Nat]
      /\ Packet(q, first).of = q /\ Packet(q, first).cursor = first
  BY <1>f, <1>n DEF Register, Packet
<1>a. /\ table' \in [Handles -> [of : Queries \cup {NoQuery}, total : Nat, cursor : Nat]]
      /\ \A g \in Handles : table'[g] = IF g = h THEN Packet(q, first) ELSE table[g]
  BY <1>t, <1>p, TableTypes
<1>h. handle' \in [Users -> Handles \cup {0}] /\ \A v \in Users : handle'[v] = IF v = q THEN h ELSE handle[v]
  BY <1>t, <1>f, UserTypes
<1>r. /\ RowsOf(q, 1, first) \in Seq(Queries \X Nat) /\ Len(RowsOf(q, 1, first)) = first
      /\ rows' \in [Queries -> Seq(Queries \X Nat)] /\ given' \in [Queries -> Seq(Queries \X Nat)]
      /\ \A v \in Queries : given'[v] = IF v = q THEN RowsOf(q, 1, first) ELSE given[v]
  <2>1. RowsOf(q, 1, first) \in Seq(Queries \X Nat) /\ Len(RowsOf(q, 1, first)) = first
    BY <1>n, RowsOfProperties
  <2> QED
    BY <1>t, <1>f, <2>1, UserTypes
<1>0. handle[q] = 0
  BY <1>t, <1>i DEF CallInv, CallOf
<1>o. \A g \in Handles : g # h /\ server'[g] # NoQuery =>
         server'[g] = server[g] /\ server[g] \in Queries /\ server[g] # q /\ server[g] # NoQuery
  BY <1>t, TableTypes
<1>1. TypeOK'
  BY <1>t, <1>q, <1>a, <1>h, <1>r DEF TypeOK, Stages
<1>2. CallInv'
  <2>1. ClosingInv'
    BY <1>t, <1>q, <1>h, ClosingKept DEF CallInv
  <2>2. \A v \in Queries : v # q => CallOf(v)'
    <3> SUFFICES ASSUME NEW v \in Queries, v # q PROVE CallOf(v)'
      OBVIOUS
    <3>1. \A g \in Handles : server[g] = v => server'[g] = v
      OBVIOUS
    <3> QED
      BY <1>t, <1>q, <1>h, <3>1, CallKept DEF CallInv
  <2>3. CallOf(q)'
    BY <1>t, <1>q, <1>h DEF CallInv, CallOf
  <2> QED
    BY <2>1, <2>2, <2>3 DEF CallInv
<1>3. SessionInv'
  <2>1. OneHandleEach'
    <3> SUFFICES ASSUME NEW g1 \in Handles, NEW g2 \in Handles, server'[g1] # NoQuery, server'[g1] = server'[g2]
                 PROVE  g1 = g2
      BY DEF OneHandleEach
    <3> QED
      BY <1>t DEF SessionInv, OneHandleEach
  <2>2. OpenInv'
    <3> SUFFICES ASSUME NEW g \in Handles, NEW v \in Queries, server'[g] = v
                 PROVE  \/ handle'[v] = g /\ table'[g].of = v /\ table'[g].cursor = Len(given'[v])
                        \/ handle'[v] = 0 /\ Prepared(v)'
      BY DEF OpenInv, Prepared
    <3>1. CASE g = h
      BY <1>p, <1>a, <1>h, <1>r, <3>1
    <3>2. CASE g # h
      <4>1. server[g] = v /\ v # q
        BY <3>2
      <4>2. \/ handle[v] = g /\ table[g].of = v /\ table[g].cursor = Len(given[v])
            \/ handle[v] = 0 /\ Prepared(v)
        BY <1>t, <4>1 DEF SessionInv, OpenInv
      <4> QED
        BY <1>q, <1>a, <1>h, <1>r, <3>2, <4>1, <4>2 DEF Prepared
    <3> QED
      BY <3>1, <3>2
  <2>3. TableInv'
    BY <1>t, <1>p, <1>a DEF SessionInv, TableInv
  <2>4. EachRowOnce'
    BY <1>t, <1>r DEF SessionInv, EachRowOnce
  <2>5. ClosedInv'
    BY <1>t, <1>q DEF SessionInv, ClosedInv
  <2> QED
    BY <2>1, <2>2, <2>3, <2>4, <2>5 DEF SessionInv
<1>4. CloseInv'
  <2>0. stage'[Closing] = stage[Closing] /\ handle'[Closing] = handle[Closing]
    BY <1>q, <1>h
  <2>1. stage'[Closing] = "closing" => link' = "shared" \/ \A v \in Users : ~InFlight(v)'
    BY <1>t, <1>q, <2>0 DEF CloseInv, InFlight
  <2>2. TableIsOpen => TableIsOpen'
    <3> SUFFICES ASSUME TableIsOpen, NEW g \in Handles, table'[g].of # NoQuery
                 PROVE  server'[g] = table'[g].of /\ handle'[server'[g]] = g
      BY DEF TableIsOpen
    <3>1. CASE g = h
      BY <1>p, <1>a, <1>h, <3>1
    <3>2. CASE g # h
      BY <1>a, <1>h, <1>o, <3>2 DEF TableIsOpen
    <3> QED
      BY <3>1, <3>2
  <2>3. TableIsOpen /\ SweepFinds => SweepFinds'
    <3> SUFFICES ASSUME TableIsOpen, SweepFinds PROVE SweepFinds'
      OBVIOUS
    <3>1. table[h].of = NoQuery
      BY <1>0 DEF TableIsOpen
    <3>2. h \notin ToSweep
      BY <3>1 DEF SweepFinds
    <3>4. \A v \in Queries : (stage'[v] = stage[v] /\ handle'[v] = handle[v]) \/ handle'[v] \notin ToSweep
      BY <1>q, <1>h, <3>2
    <3>5. \A g \in Handles : table[g].of # NoQuery => table'[g].of # NoQuery
      BY <1>a, <3>1
    <3> QED
      BY <1>q, <2>0, <3>4, <3>5, SweepKept
  <2> QED
    BY <1>t, <1>q, <2>0, <2>1, <2>2, <2>3 DEF CloseInv
<1> QED
  BY <1>1, <1>2, <1>3, <1>4, <1>q DEF IInv

\* query() is answered.
LEMMA QueryResponseKeeps ==
    ASSUME NEW q \in Queries, IInv, Answering, QueryResponse(q)
    PROVE  IInv'
<1> USE UsersProperties
<1>t. TypeOK /\ QueueInv /\ CallInv /\ SessionInv /\ CloseInv
  BY DEF IInv
<1>s. stage[q] = "sent" /\ doing[q] = "query" /\ InFlight(q) /\ q # Closing /\ q \in Users
  BY DEF QueryResponse, InFlight
<1>1. CASE Refuse(q)
  BY <1>s, <1>1, RefuseKeeps
<1>2. CASE Open(q) /\ FirstRows(q) /\ UNCHANGED <<link, losses>>
  <2>1. \A h \in Handles : server[h] # q
    BY <1>t, <1>s, NothingOpen
  <2>2. OneHandleEach
    BY <1>t DEF SessionInv
  <2>3. PICK h \in Handles : /\ server[h] = NoQuery /\ server'[h] = q
                             /\ server' \in [Handles -> Queries \cup {NoQuery}]
                             /\ \A g \in Handles : g # h => server'[g] = server[g]
    BY <1>t, <1>2, <2>1, <2>2, OpenProperties
  <2> QED
    BY <1>s, <1>2, <2>1, <2>3, FirstRowsKeep
<1> QED
  BY <1>1, <1>2 DEF QueryResponse

\* The old protocol's first answer opens the statement and tells nobody.
LEMMA PrepareResponseKeeps ==
    ASSUME NEW q \in Queries, IInv, Answering, PrepareResponse(q)
    PROVE  IInv'
<1> USE UsersProperties
<1>t. TypeOK /\ QueueInv /\ CallInv /\ SessionInv /\ CloseInv
  BY DEF IInv
<1>s. /\ stage[q] = "sent" /\ doing[q] = "query" /\ protocol = "old"
      /\ InFlight(q) /\ q # Closing /\ q \in Users
  BY DEF PrepareResponse, InFlight
<1>1. CASE Refuse(q)
  BY <1>s, <1>1, RefuseKeeps
<1>2. CASE /\ Open(q) /\ stage' = [stage EXCEPT ![q] = "executing"]
           /\ UNCHANGED <<link, losses, table, handle, rows, given>>
  <2>0. handle[q] = 0 /\ \A h \in Handles : server[h] # q
    BY <1>t, <1>s, NothingOpen
  <2>1. OneHandleEach
    BY <1>t DEF SessionInv
  <2>2. PICK h \in Handles : /\ server[h] = NoQuery /\ server'[h] = q
                             /\ server' \in [Handles -> Queries \cup {NoQuery}]
                             /\ \A g \in Handles : g # h => server'[g] = server[g]
    BY <1>t, <1>2, <2>0, <2>1, OpenProperties
  <2>q. /\ QueueInv' /\ stage' \in [Users -> Stages]
        /\ \A v \in Users : stage'[v] = IF v = q THEN "executing" ELSE stage[v]
        /\ UNCHANGED <<waiting, active, finished, discarded, protocol, sweep, overtaken, rivals, doing, step>>
    <3>1. "executing" \in Running /\ stage[q] \in Running
      BY <1>s DEF Running
    <3> QED
      BY <1>t, <1>s, <1>2, <3>1, AnswersQueue
  <2>3. TypeOK'
    BY <1>t, <1>2, <2>2, <2>q DEF TypeOK, Stages
  <2>4. CallInv'
    <3>1. ClosingInv'
      BY <1>t, <1>s, <1>2, <2>q, ClosingKept DEF CallInv
    <3>2. \A v \in Queries : v # q => CallOf(v)'
      <4> SUFFICES ASSUME NEW v \in Queries, v # q PROVE CallOf(v)'
        OBVIOUS
      <4>1. \A g \in Handles : server[g] = v => server'[g] = v
        BY <2>2
      <4> QED
        BY <1>t, <1>2, <2>q, <4>1, CallKept DEF CallInv
    <3>3. CallOf(q)'
      BY <1>t, <1>s, <1>2, <2>2, <2>q DEF CallInv, CallOf
    <3> QED
      BY <3>1, <3>2, <3>3 DEF CallInv
  <2>5. SessionInv'
    <3>1. OneHandleEach'
      <4> SUFFICES ASSUME NEW g1 \in Handles, NEW g2 \in Handles, server'[g1] # NoQuery,
                          server'[g1] = server'[g2]
                   PROVE  g1 = g2
        BY DEF OneHandleEach
      <4> QED
        BY <2>0, <2>1, <2>2 DEF OneHandleEach
    <3>2. OpenInv'
      <4> SUFFICES ASSUME NEW g \in Handles, NEW v \in Queries, server'[g] = v
                   PROVE  \/ handle[v] = g /\ table[g].of = v /\ table[g].cursor = Len(given[v])
                          \/ handle[v] = 0 /\ Prepared(v)'
        BY <1>2, <2>2 DEF OpenInv, Prepared
      <4>1. CASE g = h
        BY <1>s, <2>0, <2>2, <2>q, <4>1 DEF Prepared
      <4>2. CASE g # h
        <5>1. server[g] = v /\ v # q
          BY <2>0, <2>2, <4>2
        <5> QED
          BY <1>t, <2>q, <5>1 DEF SessionInv, OpenInv, Prepared
      <4> QED
        BY <4>1, <4>2
    <3>3. TableInv' /\ EachRowOnce'
      BY <1>t, <1>2 DEF SessionInv, TableInv, EachRowOnce
    <3>4. ClosedInv'
      BY <1>t, <1>s, <2>2, <2>q DEF SessionInv, ClosedInv
    <3> QED
      BY <3>1, <3>2, <3>3, <3>4 DEF SessionInv
  <2>6. CloseInv'
    <3>0. stage'[Closing] = stage[Closing] /\ handle'[Closing] = handle[Closing]
      BY <1>2, <1>s, <2>q
    <3>1. stage'[Closing] = "closing" => link' = "shared" \/ \A v \in Users : ~InFlight(v)'
      BY <1>t, <1>s, <1>2, <2>q, <3>0 DEF CloseInv, InFlight
    <3>2. TableIsOpen => TableIsOpen'
      BY <1>2, <2>2, UsersProperties DEF TableIsOpen
    <3>3. SweepFinds => SweepFinds'
      <4> SUFFICES ASSUME SweepFinds PROVE SweepFinds'
        OBVIOUS
      <4>1. \A v \in Queries : (stage'[v] = stage[v] /\ handle'[v] = handle[v]) \/ handle'[v] \notin ToSweep
        BY <1>s, <1>2, <2>q DEF SweepFinds, Elsewhere, AtRest, Stopped
      <4> QED
        BY <1>2, <2>q, <3>0, <4>1, SweepKept
    <3> QED
      BY <1>t, <1>2, <2>q, <3>0, <3>1, <3>2, <3>3 DEF CloseInv
  <2> QED
    BY <2>3, <2>4, <2>5, <2>6, <2>q DEF IInv
<1> QED
  BY <1>1, <1>2 DEF PrepareResponse

\* The old protocol's second answer.
LEMMA ExecuteResponseKeeps ==
    ASSUME NEW q \in Queries, IInv, Answering, ExecuteResponse(q)
    PROVE  IInv'
<1> USE UsersProperties
<1>t. TypeOK /\ QueueInv /\ CallInv /\ SessionInv /\ CloseInv
  BY DEF IInv
<1>s. stage[q] = "executing" /\ InFlight(q) /\ q # Closing /\ q \in Users
  BY DEF ExecuteResponse, InFlight
<1>1. CASE Refuse(q)
  BY <1>s, <1>1, RefuseKeeps
<1>2. CASE UNCHANGED serverVars /\ FirstRows(q)
  <2>1. doing[q] = "query" /\ \E h \in Handles : server[h] = q
    BY <1>t, <1>s DEF CallInv, CallOf
  <2>2. PICK h \in Handles : server[h] = q
    BY <2>1
  <2>3. UNCHANGED <<link, server, losses>>
    BY <1>2 DEF serverVars
  <2>4. \A g \in Handles : g # h => server[g] # q
    BY <1>t, <2>2 DEF SessionInv, OneHandleEach
  <2>5. server' \in [Handles -> Queries \cup {NoQuery}]
    BY <1>t, <2>3, TableTypes
  <2> QED
    BY <1>s, <1>2, <2>1, <2>2, <2>3, <2>4, <2>5, FirstRowsKeep
<1> QED
  BY <1>1, <1>2 DEF ExecuteResponse

\* More rows come from where the cursor is, and those are the next ones.
LEMMA FetchResponseKeeps ==
    ASSUME NEW q \in Queries, IInv, Answering, FetchResponse(q)
    PROVE  IInv'
<1> USE UsersProperties
<1>t. TypeOK /\ QueueInv /\ CallInv /\ SessionInv /\ CloseInv
  BY DEF IInv
<1>s. stage[q] = "sent" /\ doing[q] = "fetch" /\ InFlight(q) /\ q # Closing /\ q \in Users
  BY DEF FetchResponse, InFlight
<1>1. CASE Refuse(q)
  BY <1>s, <1>1, RefuseKeeps
<1>2. ASSUME ~Refuse(q) PROVE IInv'
  <2>0. PICK h \in Handles : h = handle[q]
    BY <1>t, <1>s, UserTypes DEF CallInv, CallOf
  <2>1. PICK owner \in Queries : owner = server[h] /\ handle[owner] # 0
    <3>1. HasRows(h)
      BY <1>2, <2>0 DEF FetchResponse
    <3>2. server[h] \in Queries \cup {NoQuery}
      BY <1>t, TableTypes
    <3> QED
      BY <3>1, <3>2 DEF HasRows
  <2>2. handle[owner] = h /\ table[h].of = owner /\ table[h].cursor = Len(given[owner])
    BY <1>t, <2>1 DEF SessionInv, OpenInv
  <2>3. PICK n \in 1..Min({PageSize, Rows[owner] + 1 - StartPosition(table[h])}) :
           /\ rows' = [rows EXCEPT ![q] = @ \o RowsOf(owner, StartPosition(table[h]), n)]
           /\ given' = [given EXCEPT ![owner] = @ \o RowsOf(owner, StartPosition(table[h]), n)]
           /\ table' = [table EXCEPT ![h].cursor = @ + n]
           /\ stage' = IF q \in Paging \/ Exhausted(table'[h]) THEN [stage EXCEPT ![q] = "answered"] ELSE stage
    BY <1>2, <2>0, <2>1 DEF FetchResponse
  <2>u. UNCHANGED <<link, server, losses, handle>>
    BY <1>2 DEF FetchResponse, serverVars
  <2>c. PICK c \in Nat : c = table[h].cursor
    BY <1>t, TableTypes
  <2> DEFINE more == RowsOf(owner, c + 1, n)
             packet == [table[h] EXCEPT !.cursor = c + n]
  <2>4. n \in Nat /\ StartPosition(table[h]) = c + 1 /\ c = Len(given[owner])
    <3>1. PageSize \in Int /\ Rows[owner] \in Int
      BY HandlesAssumption DEF HandlesAssumption
    <3>2. Rows[owner] + 1 - StartPosition(table[h]) \in Int
      BY <2>c, <3>1 DEF StartPosition
    <3>3. Min({PageSize, Rows[owner] + 1 - StartPosition(table[h])}) \in Int
      BY <3>1, <3>2, MinOfTwo
    <3> QED
      BY <2>2, <2>3, <2>c, <3>3 DEF StartPosition
  <2>5. more \in Seq(Queries \X Nat) /\ Len(more) = n /\ c + 1 \in Nat \ {0}
    <3>1. c + 1 \in Nat \ {0}
      BY <2>c
    <3> QED
      BY <2>4, <3>1, RowsOfProperties DEF more
  <2>6. /\ given[owner] \o more = RowsOf(owner, 1, c + n) /\ Len(RowsOf(owner, 1, c + n)) = c + n
        /\ RowsOf(owner, 1, c + n) \in Seq(Queries \X Nat)
    <3>1. given[owner] = RowsOf(owner, 1, c)
      BY <1>t, <2>4 DEF SessionInv, EachRowOnce
    <3>2. c + n \in Nat /\ 1 \in Nat \ {0}
      BY <2>4
    <3>3. RowsOf(owner, 1, c) \o RowsOf(owner, c + 1, n) = RowsOf(owner, 1, c + n)
      BY <2>4, RowsOfBehind
    <3>4. /\ Len(RowsOf(owner, 1, c + n)) = c + n
          /\ RowsOf(owner, 1, c + n) \in Seq(Queries \X Nat)
      BY <3>2, RowsOfProperties
    <3> QED
      BY <3>1, <3>3, <3>4
  <2>7. /\ packet \in [of : Queries \cup {NoQuery}, total : Nat, cursor : Nat]
        /\ packet.of = owner /\ packet.cursor = c + n
    <3>1. table[h] \in [of : Queries \cup {NoQuery}, total : Nat, cursor : Nat]
      BY <1>t, TableTypes
    <3>2. c + n \in Nat
      BY <2>c, <2>4
    <3> QED
      BY <2>2, <3>1, <3>2 DEF packet
  <2>8. /\ table' \in [Handles -> [of : Queries \cup {NoQuery}, total : Nat, cursor : Nat]]
        /\ \A g \in Handles : table'[g] = IF g = h THEN packet ELSE table[g]
    BY <1>t, <2>3, <2>7, <2>c, TableTypes DEF packet
  <2>9. /\ given' \in [Queries -> Seq(Queries \X Nat)]
        /\ \A v \in Queries : given'[v] = IF v = owner THEN RowsOf(owner, 1, c + n) ELSE given[v]
    BY <1>t, <2>3, <2>4, <2>6, UserTypes
  <2>10. rows' \in [Queries -> Seq(Queries \X Nat)]
    <3>1. rows[q] \in Seq(Queries \X Nat)
      BY <1>t, UserTypes
    <3>2. rows[q] \o more \in Seq(Queries \X Nat)
      BY <2>5, <3>1, ConcatProperties
    <3> QED
      BY <1>t, <2>3, <2>4, <3>2, UserTypes
  <2>11. PICK new \in {"sent", "answered"} : stage' = [stage EXCEPT ![q] = new]
    <3>1. stage = [stage EXCEPT ![q] = "sent"]
      BY <1>t, <1>s, UserTypes
    <3> QED
      BY <2>3, <3>1
  <2>q. /\ QueueInv' /\ stage' \in [Users -> Stages]
        /\ \A v \in Users : stage'[v] = IF v = q THEN new ELSE stage[v]
        /\ UNCHANGED <<waiting, active, finished, discarded, protocol, sweep, overtaken, rivals, doing, step>>
    <3>1. new \in Running /\ stage[q] \in Running
      BY <1>s DEF Running
    <3> QED
      BY <1>t, <2>11, <3>1, AnswersQueue
  <2> HIDE DEF more, packet
  <2>12. TypeOK'
    BY <1>t, <2>u, <2>8, <2>9, <2>10, <2>q DEF TypeOK, Stages
  <2>13. CallInv'
    <3>1. ClosingInv'
      BY <1>t, <2>u, <2>q, ClosingKept DEF CallInv
    <3>2. \A v \in Queries : v # q => CallOf(v)'
      BY <1>t, <2>u, <2>q, CallKept DEF CallInv
    <3>3. CallOf(q)'
      BY <1>t, <1>s, <2>u, <2>q DEF CallInv, CallOf
    <3> QED
      BY <3>1, <3>2, <3>3 DEF CallInv
  <2>14. SessionInv'
    <3>1. OneHandleEach'
      BY <1>t, <2>u DEF SessionInv, OneHandleEach
    <3>2. OpenInv'
      <4> SUFFICES ASSUME NEW g \in Handles, NEW v \in Queries, server[g] = v
                   PROVE  \/ handle[v] = g /\ table'[g].of = v /\ table'[g].cursor = Len(given'[v])
                          \/ handle[v] = 0 /\ Prepared(v)'
        BY <1>t, <2>u, TableTypes DEF OpenInv, Prepared
      <4>1. CASE g = h
        BY <2>1, <2>2, <2>6, <2>7, <2>8, <2>9, <4>1
      <4>2. CASE g # h
        <5>1. v # owner
          BY <1>t, <2>1, <4>2 DEF SessionInv, OneHandleEach
        <5>2. \/ handle[v] = g /\ table[g].of = v /\ table[g].cursor = Len(given[v])
              \/ handle[v] = 0 /\ Prepared(v)
          BY <1>t DEF SessionInv, OpenInv
        <5>3. Prepared(v) => Prepared(v)'
          BY <1>s, <2>q DEF Prepared
        <5> QED
          BY <2>8, <2>9, <4>2, <5>1, <5>2, <5>3
      <4> QED
        BY <4>1, <4>2
    <3>3. TableInv'
      BY <1>t, <2>7, <2>8 DEF SessionInv, TableInv
    <3>4. EachRowOnce'
      BY <1>t, <2>6, <2>9 DEF SessionInv, EachRowOnce
    <3>5. ClosedInv'
      BY <1>t, <1>s, <2>u, <2>q DEF SessionInv, ClosedInv
    <3> QED
      BY <3>1, <3>2, <3>3, <3>4, <3>5 DEF SessionInv
  <2>15. CloseInv'
    <3>0. stage'[Closing] = stage[Closing] /\ handle'[Closing] = handle[Closing]
      BY <1>s, <2>u, <2>q
    <3>1. stage'[Closing] = "closing" => link' = "shared" \/ \A v \in Users : ~InFlight(v)'
      BY <1>t, <1>s, <2>u, <2>q, <3>0 DEF CloseInv, InFlight
    <3>p. \A g \in Handles : table'[g].of = table[g].of
      BY <2>2, <2>7, <2>8
    <3>2. TableIsOpen => TableIsOpen'
      BY <2>u, <3>p DEF TableIsOpen
    <3>3. SweepFinds => SweepFinds'
      <4> SUFFICES ASSUME SweepFinds PROVE SweepFinds'
        OBVIOUS
      <4>1. \A v \in Queries : (stage'[v] = stage[v] /\ handle'[v] = handle[v]) \/ handle'[v] \notin ToSweep
        BY <1>s, <2>u, <2>q DEF SweepFinds, Elsewhere, AtRest, Stopped
      <4> QED
        BY <2>u, <2>q, <3>0, <3>p, <4>1, SweepKept
    <3> QED
      BY <1>t, <2>u, <2>q, <3>0, <3>1, <3>2, <3>3 DEF CloseInv
  <2> QED
    BY <2>12, <2>13, <2>14, <2>15, <2>q DEF IInv
<1> QED
  BY <1>1, <1>2

\* closeQuery() is answered: the handle is free again, and out of the table.
LEMMA CloseQueryResponseKeeps ==
    ASSUME NEW u \in Users, IInv, Answering, CloseQueryResponse(u)
    PROVE  IInv'
<1> USE UsersProperties
<1>t. TypeOK /\ QueueInv /\ CallInv /\ SessionInv /\ CloseInv
  BY DEF IInv
<1>s. stage[u] = "sent" /\ doing[u] = "closeQuery" /\ InFlight(u) /\ stage[u] \in Running
  BY DEF CloseQueryResponse, InFlight, Running
<1>h. PICK h \in Handles : h = handle[u]
  BY <1>t, <1>s, UserTypes DEF CallInv, CallOf, ClosingInv
<1>1. CASE Refuse(u)
  BY <1>s, <1>1, RefuseKeeps
<1>2. CASE /\ server' = [server EXCEPT ![handle[u]] = NoQuery] /\ Forget(u)
           /\ stage' = [stage EXCEPT ![u] = "answered"]
           /\ UNCHANGED <<link, losses, handle, rows, given>>
  <2>1. /\ server' \in [Handles -> Queries \cup {NoQuery}]
        /\ \A g \in Handles : server'[g] = IF g = h THEN NoQuery ELSE server[g]
    BY <1>t, <1>h, <1>2, TableTypes
  <2>2. /\ NoPacket \in [of : Queries \cup {NoQuery}, total : Nat, cursor : Nat]
        /\ NoPacket.of = NoQuery
    BY DEF NoPacket
  <2>3. /\ table' \in [Handles -> [of : Queries \cup {NoQuery}, total : Nat, cursor : Nat]]
        /\ \A g \in Handles : table'[g] = IF g = h THEN NoPacket ELSE table[g]
    BY <1>t, <1>h, <1>2, <2>2, TableTypes DEF Forget
  <2>q. /\ QueueInv' /\ stage' \in [Users -> Stages]
        /\ \A v \in Users : stage'[v] = IF v = u THEN "answered" ELSE stage[v]
        /\ UNCHANGED <<waiting, active, finished, discarded, protocol, sweep, overtaken, rivals, doing, step>>
    <3>1. "answered" \in Running
      BY DEF Running
    <3> QED
      BY <1>t, <1>s, <1>2, <3>1, AnswersQueue
  <2>4. TypeOK'
    BY <1>t, <1>2, <2>1, <2>3, <2>q DEF TypeOK, Stages
  <2>5. CallInv'
    <3>1. ClosingInv'
      <4>1. CASE u = Closing
        BY <1>t, <1>s, <1>2, <2>q, <4>1 DEF CallInv, ClosingInv, Running
      <4>2. CASE u # Closing
        BY <1>t, <1>2, <2>q, <4>2, ClosingKept DEF CallInv
      <4> QED
        BY <4>1, <4>2
    <3>2. \A v \in Queries : v # u => CallOf(v)'
      <4> SUFFICES ASSUME NEW v \in Queries, v # u PROVE CallOf(v)'
        OBVIOUS
      <4>1. stage[v] \notin Running
        BY <1>t, <1>s, OneRuns
      <4>2. stage[v] # "executing"
        BY <4>1 DEF Running
      <4> QED
        BY <1>t, <1>2, <2>q, <4>2, CallKept DEF CallInv
    <3>3. u \in Queries => CallOf(u)'
      BY <1>t, <1>s, <1>2, <2>q DEF CallInv, CallOf
    <3> QED
      BY <3>1, <3>2, <3>3 DEF CallInv
  <2>6. SessionInv'
    <3>1. OneHandleEach'
      BY <1>t, <2>1 DEF SessionInv, OneHandleEach
    <3>2. OpenInv'
      <4> SUFFICES ASSUME NEW g \in Handles, NEW v \in Queries, server'[g] = v
                   PROVE  \/ handle[v] = g /\ table'[g].of = v /\ table'[g].cursor = Len(given[v])
                          \/ handle[v] = 0 /\ Prepared(v)'
        BY <1>2, <2>1 DEF OpenInv, Prepared
      <4>1. g # h /\ server[g] = v
        BY <2>1
      <4>2. \/ handle[v] = g /\ table[g].of = v /\ table[g].cursor = Len(given[v])
            \/ handle[v] = 0 /\ Prepared(v)
        BY <1>t, <4>1 DEF SessionInv, OpenInv
      <4>3. Prepared(v) => Prepared(v)'
        BY <1>s, <2>q DEF Prepared
      <4> QED
        BY <2>3, <4>1, <4>2, <4>3
    <3>3. TableInv'
      BY <1>t, <2>3 DEF SessionInv, TableInv
    <3>4. EachRowOnce'
      BY <1>t, <1>2 DEF SessionInv, EachRowOnce
    <3>5. ClosedInv'
      <4> SUFFICES ASSUME NEW v \in Queries, doing[v] = "closeQuery", stage'[v] \in {"answered", "resumed", "ok"},
                          NEW g \in Handles, server'[g] = v
                   PROVE  FALSE
        BY <2>q DEF ClosedInv
      <4>1. g # h /\ server[g] = v
        BY <2>1
      <4>2. CASE v = u
        BY <1>t, <1>h, <4>1, <4>2 DEF SessionInv, OpenInv, Prepared
      <4>3. CASE v # u
        BY <1>t, <2>q, <4>1, <4>3 DEF SessionInv, ClosedInv
      <4> QED
        BY <4>2, <4>3
    <3> QED
      BY <3>1, <3>2, <3>3, <3>4, <3>5 DEF SessionInv
  <2>7. CloseInv'
    <3>0. /\ handle'[Closing] = handle[Closing]
          /\ \/ u # Closing /\ stage'[Closing] = stage[Closing]
             \/ u = Closing /\ stage[Closing] = "sent" /\ stage'[Closing] = "answered"
      BY <1>s, <1>2, <2>q
    <3>1. stage'[Closing] = "closing" => link' = "shared" \/ \A v \in Users : ~InFlight(v)'
      BY <1>t, <1>2, <2>q, <3>0 DEF CloseInv, InFlight
    <3>2. losses > MaxLosses => stage'[Closing] \in {"ok", "failed"}
      BY <1>t, <3>0 DEF CloseInv
    <3>3. TableIsOpen => TableIsOpen'
      BY <1>2, <2>1, <2>2, <2>3 DEF TableIsOpen
    <3>4. SweepFinds => SweepFinds'
      <4> SUFFICES ASSUME SweepFinds PROVE SweepFinds'
        OBVIOUS
      <4>1. ToSweep' \subseteq ToSweep /\ h \notin ToSweep'
        <5>1. CASE u = Closing
          BY <1>t, <1>h, <2>q, <3>0, <5>1 DEF ToSweep, Unswept, CallInv, ClosingInv
        <5>2. CASE u # Closing
          <6>1. ToSweep' = ToSweep
            BY <2>q, <3>0, <5>2 DEF ToSweep
          <6> QED
            BY <1>s, <1>h, <5>2, <6>1 DEF SweepFinds, Elsewhere, AtRest, Stopped
        <5> QED
          BY <5>1, <5>2
      <4>2. ToSweep' \subseteq Handles
        BY <4>1 DEF SweepFinds
      <4>3. \A g \in ToSweep' : table'[g].of # NoQuery
        BY <2>3, <4>1, <4>2 DEF SweepFinds
      <4>4. ASSUME NEW v \in Queries PROVE Elsewhere(v)'
        <5>1. CASE v = u
          BY <1>h, <1>2, <4>1, <5>1 DEF Elsewhere
        <5>2. CASE v # u
          BY <1>2, <2>q, <4>1, <5>2 DEF SweepFinds, Elsewhere
        <5> QED
          BY <5>1, <5>2
      <4> QED
        BY <4>2, <4>3, <4>4 DEF SweepFinds
    <3>5. /\ stage'[Closing] \notin {"idle", "ok"} <=> stage[Closing] \notin {"idle", "ok"}
          /\ stage'[Closing] # "idle" <=> stage[Closing] # "idle"
      BY <3>0
    <3> QED
      BY <1>t, <1>2, <2>q, <3>1, <3>2, <3>3, <3>4, <3>5 DEF CloseInv
  <2> QED
    BY <2>4, <2>5, <2>6, <2>7, <2>q DEF IInv
<1> QED
  BY <1>1, <1>2 DEF CloseQueryResponse

LEMMA RespondKeeps == \A u \in Users : IInv /\ Respond(u) => IInv'
<1> SUFFICES ASSUME NEW u \in Users, IInv, Respond(u) PROVE IInv'
  OBVIOUS
<1>1. Answering
  BY DEF Respond, Answering
<1> QED
  BY <1>1, QueryResponseKeeps, PrepareResponseKeeps, ExecuteResponseKeeps, FetchResponseKeeps,
     CloseQueryResponseKeeps DEF Respond
-----------------------------------------------------------------------------
(* The theorems.                                                             *)

LEMMA InitHolds == Init => IInv
<1> SUFFICES ASSUME Init PROVE IInv
  OBVIOUS
<1> USE UsersProperties
<1>1. /\ waiting = <<>> /\ active = {} /\ finished = {} /\ discarded = {}
      /\ protocol \in {"new", "old"} /\ link = "down"
      /\ table = [h \in Handles |-> NoPacket] /\ server = [h \in Handles |-> NoQuery] /\ sweep = {}
      /\ stage = [u \in Users |-> "idle"]
      /\ doing = [u \in Users |-> IF u = Closing THEN "closeQuery" ELSE "query"]
      /\ step = [u \in Users |-> 1] /\ handle = [u \in Users |-> 0]
      /\ rows = [q \in Queries |-> <<>>] /\ given = [q \in Queries |-> <<>>]
      /\ overtaken = {} /\ rivals = {} /\ losses = 0
  BY DEF Init, Executor!Init
<1>2. NoPacket \in [of : Queries \cup {NoQuery}, total : Nat, cursor : Nat] /\ NoPacket.of = NoQuery
  BY DEF NoPacket
<1>3. MaxStep \in Nat /\ MaxStep >= 3 /\ MaxLosses \in Nat
  BY HandlesAssumption DEF HandlesAssumption
<1>4. TypeOK
  BY <1>1, <1>2, <1>3 DEF TypeOK
<1>5. QueueInv
  <2>1. Len(waiting) = 0 /\ \A u \in Users : stage[u] = "idle"
    BY <1>1
  <2>2. \A u \in Users : active # {<<u, step[u]>>}
    BY <1>1
  <2>3. \A u \in Users : stage[u] \in Running <=> active = {<<u, step[u]>>}
    BY <2>1, <2>2 DEF Running
  <2> QED
    BY <1>1, <2>1, <2>3 DEF QueueInv
<1>6. CallInv
  <2>1. Cardinality({}) = 0 /\ Cardinality(Queries) \in Nat
    BY FS_EmptySet, HandlesProperties
  <2>2. ClosingInv
    BY <1>1, <2>1 DEF ClosingInv, Running
  <2>3. \A q \in Queries : CallOf(q)
    BY <1>1, <1>3 DEF CallOf
  <2> QED
    BY <2>2, <2>3 DEF CallInv
<1>7. SessionInv
  <2>1. OneHandleEach /\ OpenInv /\ ClosedInv
    BY <1>1 DEF OneHandleEach, OpenInv, ClosedInv
  <2>2. TableInv
    BY <1>1 DEF TableInv
  <2>3. EachRowOnce
    <3> SUFFICES ASSUME NEW q \in Queries PROVE given[q] = RowsOf(q, 1, Len(given[q]))
      BY DEF EachRowOnce
    <3>1. given[q] = <<>> /\ Len(given[q]) = 0
      BY <1>1
    <3>2. RowsOf(q, 1, 0) = <<>>
      BY DEF RowsOf
    <3> QED
      BY <3>1, <3>2
  <2> QED
    BY <2>1, <2>2, <2>3 DEF SessionInv
<1>8. CloseInv
  BY <1>1, <1>2, <1>3 DEF CloseInv, TableIsOpen
<1> QED
  BY <1>4, <1>5, <1>6, <1>7, <1>8 DEF IInv

LEMMA StepHolds == IInv /\ [Next]_vars => IInv'
<1> SUFFICES ASSUME IInv, [Next]_vars PROVE IInv'
  OBVIOUS
<1>1. CASE UNCHANGED vars
  <2>1. UNCHANGED <<waiting, active, finished, discarded, protocol, link, server, losses, table, sweep,
                    overtaken, rivals, stage, doing, step, handle, rows, given>>
    BY <1>1 DEF vars, execVars, serverVars, closeVars, userVars
  <2>2. TypeOK' /\ QueueInv'
    BY <2>1 DEF IInv, TypeOK, QueueInv
  <2>3. CallInv'
    BY <2>1 DEF IInv, CallInv, ClosingInv, CallOf
  <2>4. SessionInv'
    <3> SUFFICES \A q \in Queries : Prepared(q) => Prepared(q)'
      BY <2>1, SessionKept DEF IInv
    <3> QED
      BY <2>1 DEF Prepared
  <2>5. CloseInv'
    BY <2>1 DEF IInv, CloseInv, TableIsOpen, SweepFinds, Elsewhere, ToSweep, InFlight
  <2> QED
    BY <2>2, <2>3, <2>4, <2>5 DEF IInv
<1>2. CASE Next
  BY <1>2, QueryKeeps, ContinueKeeps, RespondKeeps, DoneKeeps, StartKeeps, SocketErrorKeeps,
     SocketEndKeeps, CloseKeeps, SweepKeeps, CloseResponseKeeps DEF Next
<1> QED
  BY <1>1, <1>2

\* The inductive invariant: places in the queue, calls, the table against the
\* server's session, and what close() still has to close.
THEOREM InvariantHolds == Spec => []IInv
<1> QED
  BY InitHolds, StepHolds, PTL DEF Spec

\* The variables keep their types: no handle outside the server's, no call past
\* the bound, no more losses than the model allows.
THEOREM TypeCorrect == Spec => []TypeOK
<1>1. IInv => TypeOK
  BY DEF IInv
<1> QED
  BY <1>1, InvariantHolds, PTL

\* fetch() reads every row of a statement once and in order, whoever asks and
\* however many sessions are lost between.
THEOREM EachRowReadOnce == Spec => []EachRowOnce
<1>1. IInv => EachRowOnce
  BY DEF IInv, SessionInv
<1> QED
  BY <1>1, InvariantHolds, PTL

\* The table has the packet of every open statement under its handle, stale
\* entries of earlier sessions notwithstanding; the old protocol's prepared and
\* not executed statements are all that is missing.
THEOREM OpenFound == Spec => []OpenIsRegistered
<1>1. IInv => OpenIsRegistered
  BY DEF IInv, SessionInv, OpenInv, Prepared, OpenIsRegistered, GetMetaData
<1> QED
  BY <1>1, InvariantHolds, PTL

\* Who ends with success has left nothing open on the server.
THEOREM ClosedAtTheEnd == Spec => []ClosedInTheEnd
<1>1. ASSUME IInv PROVE ClosedInTheEnd
  <2> SUFFICES ASSUME NEW q \in Queries, stage[q] = "ok", q \in Range(server) PROVE FALSE
    BY DEF ClosedInTheEnd
  <2>1. DOMAIN server = Handles
    BY <1>1, TableTypes DEF IInv
  <2>2. PICK h \in Handles : server[h] = q
    BY <2>1 DEF Range
  <2>3. doing[q] = "closeQuery"
    BY <1>1 DEF IInv, CallInv, CallOf
  <2> QED
    BY <1>1, <2>2, <2>3 DEF IInv, SessionInv, ClosedInv
<1> QED
  BY <1>1, InvariantHolds, PTL

\* A close() beside which nobody calls, and that loses no session, finds each handle
\* it noted in the table and open on the server: it stops over nothing but the
\* server's refusal to close one of them.
THEOREM CloseFailsOnlyForAReason == Spec => []CloseFailsForAReason
<1>1. ASSUME IInv PROVE CloseFailsForAReason
  <2> SUFFICES ASSUME stage[Closing] = "failed", losses = 0, rivals = {}
               PROVE  server[handle[Closing]] # NoQuery
    BY DEF CloseFailsForAReason
  <2>1. TableIsOpen /\ SweepFinds
    BY <1>1 DEF IInv, CloseInv
  <2>2. handle[Closing] \in ToSweep
    BY DEF ToSweep, Unswept
  <2>3. handle[Closing] \in Handles /\ table[handle[Closing]].of # NoQuery
    BY <2>1, <2>2 DEF SweepFinds
  <2> QED
    BY <2>1, <2>3 DEF TableIsOpen
<1> QED
  BY <1>1, InvariantHolds, PTL

-----------------------------------------------------------------------------
(* A queryAll() has all its rows and no others unless a session is lost or   *)
(* close() overtakes a user who pages: for any number of statements, users   *)
(* and rows.                                                                 *)

-----------------------------------------------------------------------------
(* The inductive invariant.                                                  *)

Live == {"waiting", "sent", "answered", "resumed"}

\* What a close() that goes on has to close.
ToClose == sweep \cup (IF stage[Closing] \in {"waiting", "sent"} THEN {handle[Closing]} ELSE {})

\* The server is to open the statement with its next response.
Opening(q) == stage[q] = "sent" /\ doing[q] = "query"

\* One user's call waits before another's.
Precedes(a, b) ==
    \E i, j \in 1..Len(waiting) : i < j /\ waiting[i][1] = a /\ waiting[j][1] = b

Overtakes(q, u) == doing[q] = "query" /\ Precedes(q, u)

\* Behind an item that is claimed, and everywhere while one runs, the urgent calls
\* come before those of query().
UrgentFirst ==
    \A i, j \in 1..Len(waiting) :
        i < j /\ (i > 1 \/ active # {}) /\ waiting[j][2] > 1 => waiting[i][2] > 1

OrderInv ==
    /\ UrgentFirst
    /\ \A q \in Queries : doing[q] # "query" => step[q] > 1
    /\ stage[Closing] = "waiting" => step[Closing] > 1
    /\ stage[Closing] = "idle" => overtaken = {}

TotalInv == \A h \in Handles : table[h].of # NoQuery => table[h].total = Rows[table[h].of]

\* A query() that comes before the next closeQuery() of close().
Ahead(q) ==
    \/ Opening(q)
    \/ Overtakes(q, Closing)
    \/ stage[Closing] \in {"answered", "resumed"} /\ stage[q] = "waiting" /\ doing[q] = "query"

\* Who called query() before close() or will not call again.
Old(q) == q \in overtaken \/ stage[q] \in {"dropped", "ok", "failed"}

\* The statements close() has yet to close were there when it was called: a later
\* one finds a lower handle, which close() has closed before.
SweepInv ==
    stage[Closing] \in Live =>
        /\ stage[Closing] \in {"waiting", "sent"} => \A h \in sweep : handle[Closing] < h
        /\ \A h \in ToClose : server[h] # NoQuery => Old(server[h])
        /\ \A q \in Queries \ overtaken : Ahead(q) =>
              \E g \in Handles : server[g] = NoQuery /\ \A h \in ToClose : g < h

\* A user who has a handle and goes on to use it.
GoesOn(q) ==
    /\ handle[q] # 0 /\ stage[q] \in Live
    /\ doing[q] # "closeQuery" \/ stage[q] \in {"waiting", "sent"}

\* close() has closed its statement, and no other can come under the handle before
\* it is told so.
Gone(q) ==
    /\ stage[q] = "waiting" /\ server[handle[q]] = NoQuery
    /\ \A r \in Queries : ~Opening(r) /\ ~Overtakes(r, q)

OwnInv == \A q \in Queries : GoesOn(q) => server[handle[q]] = q \/ Gone(q)

\* A queryAll() has the rows that were given out of its statement; when it closes
\* that, these are all.
HasItsRows(q) ==
    /\ handle[q] # 0 /\ stage[q] \in Live /\ doing[q] # "closeQuery" => rows[q] = given[q]
    /\ doing[q] = "fetch" /\ stage[q] \in {"answered", "resumed"} => Len(given[q]) = Rows[q]
    /\ doing[q] = "closeQuery" /\ stage[q] \in Live \cup {"ok"} => rows[q] = RowsOf(q, 1, Rows[q])

RowsInv == \A q \in Queries \ Paging : HasItsRows(q)

Undisturbed == losses = 0 /\ overtaken \cap Paging = {}

OwnRowsInv == SweepInv /\ OwnInv /\ RowsInv

FullInv == IInv /\ OrderInv /\ TotalInv /\ (Undisturbed => OwnRowsInv)
-----------------------------------------------------------------------------
(* The line of waiting calls.                                                *)

\* A call that comes into the line leaves the others in their order.
LEMMA InsertedBetween ==
    ASSUME TypeOK, NEW u, NEW s, NEW k, Inserted(<<u, s>>, k), NEW a, NEW b, a # u, b # u, Precedes(a, b)'
    PROVE  Precedes(a, b)
<1> DEFINE n == Len(waiting)
<1>1. n \in Nat
  BY QueueTypes
<1>2. /\ k \in 1..(n + 1) /\ Len(waiting') = n + 1
      /\ \A i \in 1..(n + 1) :
            waiting'[i] = IF i < k THEN waiting[i] ELSE IF i = k THEN <<u, s>> ELSE waiting[i - 1]
  BY DEF Inserted
<1>3. PICK i \in 1..(n + 1), j \in 1..(n + 1) : i < j /\ waiting'[i][1] = a /\ waiting'[j][1] = b
  BY <1>2 DEF Precedes
<1> HIDE DEF n
<1>4. i # k /\ j # k
  BY <1>2, <1>3
<1>5. ASSUME NEW m \in 1..(n + 1), m # k
      PROVE  \E l \in 1..n : waiting'[m] = waiting[l] /\ l = IF m < k THEN m ELSE m - 1
  <2>1. CASE m < k
    BY <1>1, <1>2, <2>1
  <2>2. CASE ~(m < k)
    BY <1>1, <1>2, <1>5, <2>2
  <2> QED
    BY <2>1, <2>2
<1>6. PICK x \in 1..n : waiting'[i] = waiting[x] /\ x = IF i < k THEN i ELSE i - 1
  BY <1>4, <1>5
<1>7. PICK y \in 1..n : waiting'[j] = waiting[y] /\ y = IF j < k THEN j ELSE j - 1
  BY <1>4, <1>5
<1>8. x < y
  BY <1>1, <1>2, <1>3, <1>4, <1>6, <1>7
<1> QED
  BY <1>3, <1>6, <1>7, <1>8 DEF Precedes, n

\* A call at the end of the line is before nobody.
LEMMA InsertedLast ==
    ASSUME TypeOK, NEW u, NEW s, Inserted(<<u, s>>, Len(waiting) + 1), NEW a, NEW b, b # u, Precedes(a, b)'
    PROVE  Precedes(a, b)
<1> DEFINE n == Len(waiting)
<1>1. n \in Nat
  BY QueueTypes
<1>2. /\ Len(waiting') = n + 1
      /\ \A i \in 1..n : waiting'[i] = waiting[i]
      /\ waiting'[n + 1] = <<u, s>>
  BY <1>1 DEF Inserted
<1>3. PICK i \in 1..(n + 1), j \in 1..(n + 1) : i < j /\ waiting'[i][1] = a /\ waiting'[j][1] = b
  BY <1>2 DEF Precedes
<1>4. i \in 1..n /\ j \in 1..n
  BY <1>1, <1>2, <1>3
<1> QED
  BY <1>2, <1>3, <1>4 DEF Precedes

\* The first in line is called; it was before all others.
LEMMA StartBefore ==
    ASSUME TypeOK, Executor!Start
    PROVE  /\ active = {} /\ waiting # <<>>
           /\ \A a, b : Precedes(a, b)' => Precedes(a, b)
           /\ \A j \in 1..Len(waiting) :
                 waiting[j] # Head(waiting) => Precedes(Head(waiting)[1], waiting[j][1])
<1>1. waiting \in Seq(Tasks) /\ Len(waiting) \in Nat
  BY QueueTypes
<1>2. active = {} /\ waiting # <<>> /\ waiting' = Tail(waiting)
  BY DEF Executor!Start
<1>3. /\ Len(waiting') = Len(waiting) - 1 /\ Len(waiting) >= 1
      /\ \A i \in 1..Len(waiting') : waiting'[i] = waiting[i + 1]
      /\ Head(waiting) = waiting[1]
  BY <1>1, <1>2
<1>4. ASSUME NEW a, NEW b, Precedes(a, b)' PROVE Precedes(a, b)
  <2>1. PICK i \in 1..Len(waiting'), j \in 1..Len(waiting') :
           i < j /\ waiting'[i][1] = a /\ waiting'[j][1] = b
    BY <1>4 DEF Precedes
  <2>2. i + 1 \in 1..Len(waiting) /\ j + 1 \in 1..Len(waiting) /\ i + 1 < j + 1
    BY <1>1, <1>3, <2>1
  <2>3. waiting[i + 1][1] = a /\ waiting[j + 1][1] = b
    BY <1>3, <2>1
  <2> QED
    BY <2>2, <2>3 DEF Precedes
<1>5. ASSUME NEW j \in 1..Len(waiting), waiting[j] # Head(waiting)
      PROVE  Precedes(Head(waiting)[1], waiting[j][1])
  <2>1. 1 \in 1..Len(waiting) /\ 1 < j
    BY <1>1, <1>3, <1>5
  <2> QED
    BY <1>3, <2>1 DEF Precedes
<1> QED
  BY <1>2, <1>4, <1>5

LEMMA StartKeepsOrder ==
    ASSUME TypeOK, UrgentFirst, Executor!Start
    PROVE  UrgentFirst'
<1>1. waiting \in Seq(Tasks) /\ Len(waiting) \in Nat
  BY QueueTypes
<1>2. waiting # <<>> /\ waiting' = Tail(waiting)
  BY DEF Executor!Start
<1>3. /\ Len(waiting') = Len(waiting) - 1
      /\ \A i \in 1..Len(waiting') : waiting'[i] = waiting[i + 1]
  BY <1>1, <1>2
<1> SUFFICES ASSUME NEW i \in 1..Len(waiting'), NEW j \in 1..Len(waiting'), i < j, waiting'[j][2] > 1
             PROVE  waiting'[i][2] > 1
  BY DEF UrgentFirst
<1>4. i + 1 \in 1..Len(waiting) /\ j + 1 \in 1..Len(waiting) /\ i + 1 < j + 1 /\ i + 1 > 1
  BY <1>1, <1>3
<1>5. waiting[j + 1][2] > 1
  BY <1>3
<1>6. waiting[i + 1][2] > 1
  BY <1>4, <1>5 DEF UrgentFirst
<1> QED
  BY <1>3, <1>6

\* query() goes to the end of the line.
LEMMA SubmitKeepsOrder ==
    ASSUME TypeOK, UrgentFirst, NEW u, Inserted(<<u, 1>>, Len(waiting) + 1), UNCHANGED active
    PROVE  UrgentFirst'
<1> DEFINE n == Len(waiting)
<1>1. n \in Nat
  BY QueueTypes
<1>2. /\ Len(waiting') = n + 1
      /\ \A i \in 1..n : waiting'[i] = waiting[i]
      /\ waiting'[n + 1] = <<u, 1>>
  BY <1>1 DEF Inserted
<1> SUFFICES ASSUME NEW i \in 1..(n + 1), NEW j \in 1..(n + 1), i < j, i > 1 \/ active # {},
                    waiting'[j][2] > 1
             PROVE  waiting'[i][2] > 1
  BY <1>2 DEF UrgentFirst
<1>3. j # n + 1
  BY <1>2
<1>4. i \in 1..n /\ j \in 1..n
  BY <1>1, <1>3
<1>5. waiting[i][2] > 1
  BY <1>2, <1>4 DEF UrgentFirst
<1> QED
  BY <1>2, <1>4, <1>5

\* The others go to its front, or behind the one that is claimed.
LEMMA UnshiftKeepsOrder ==
    ASSUME TypeOK, UrgentFirst, NEW t \in Tasks, t[2] > 1, Unshift(t)
    PROVE  UrgentFirst'
<1> DEFINE n == Len(waiting)
<1>1. n \in Nat /\ waiting \in Seq(Tasks) /\ (waiting # <<>> => n >= 1 /\ Head(waiting) = waiting[1])
  BY QueueTypes
<1>2. /\ Inserted(t, 1) \/ (waiting # <<>> /\ Inserted(t, 2))
      /\ Executor!Fresh(t) /\ UNCHANGED active
  BY UnshiftInserts
<1>3. Head(waiting') = IF active = {} /\ waiting # <<>> THEN Head(waiting) ELSE t
  BY DEF Unshift
<1>4. waiting' \in Seq(Tasks) /\ Len(waiting') = n + 1 /\ Head(waiting') = waiting'[1]
  BY <1>1, <1>2 DEF Inserted
<1>5. waiting # <<>> => waiting[1] # t
  BY <1>1, <1>2 DEF Executor!Fresh
<1>6. CASE active = {} /\ waiting # <<>>
  <2>1. waiting'[1] = waiting[1] /\ n >= 1
    BY <1>1, <1>3, <1>4, <1>6
  <2>2. ~Inserted(t, 1)
    BY <1>1, <1>5, <1>6, <2>1 DEF Inserted
  <2>3. \A i \in 1..(n + 1) :
           waiting'[i] = IF i < 2 THEN waiting[i] ELSE IF i = 2 THEN t ELSE waiting[i - 1]
    BY <1>2, <2>2 DEF Inserted
  <2> SUFFICES ASSUME NEW i \in 1..(n + 1), NEW j \in 1..(n + 1), i < j, i > 1, waiting'[j][2] > 1
               PROVE  waiting'[i][2] > 1
    BY <1>2, <1>4, <1>6 DEF UrgentFirst
  <2>4. CASE i = 2
    BY <2>3, <2>4
  <2>5. CASE i # 2
    <3>1. /\ i - 1 \in 1..n /\ j - 1 \in 1..n /\ i - 1 < j - 1 /\ i - 1 > 1
          /\ waiting'[i] = waiting[i - 1] /\ waiting'[j] = waiting[j - 1]
      BY <1>1, <2>3, <2>5
    <3> QED
      BY <3>1 DEF UrgentFirst
  <2> QED
    BY <2>4, <2>5
<1>7. CASE ~(active = {} /\ waiting # <<>>)
  <2>1. waiting'[1] = t
    BY <1>3, <1>4, <1>7
  <2>2. Inserted(t, 1)
    <3>1. waiting # <<>> => ~Inserted(t, 2)
      BY <1>1, <1>5, <2>1 DEF Inserted
    <3> QED
      BY <1>2, <3>1
  <2>3. \A i \in 1..(n + 1) : waiting'[i] = IF i = 1 THEN t ELSE waiting[i - 1]
    BY <1>1, <2>2 DEF Inserted
  <2> SUFFICES ASSUME NEW i \in 1..(n + 1), NEW j \in 1..(n + 1), i < j, waiting'[j][2] > 1
               PROVE  waiting'[i][2] > 1
    BY <1>4 DEF UrgentFirst
  <2>4. CASE i = 1
    BY <2>3, <2>4
  <2>5. CASE i # 1
    <3>1. n # 0
      BY <1>1, <2>5
    <3>2. active # {}
      BY <1>1, <1>7, <3>1
    <3>3. /\ i - 1 \in 1..n /\ j - 1 \in 1..n /\ i - 1 < j - 1
          /\ waiting'[i] = waiting[i - 1] /\ waiting'[j] = waiting[j - 1]
      BY <1>1, <2>3, <2>5
    <3> QED
      BY <3>2, <3>3 DEF UrgentFirst
  <2> QED
    BY <2>4, <2>5
<1> QED
  BY <1>6, <1>7

\* While a call runs, no query() waits before an urgent call.
LEMMA NoneOvertakes ==
    ASSUME TypeOK, QueueInv, CallInv, OrderInv, active # {},
           NEW q \in Queries, NEW u \in Users, Overtakes(q, u), step[u] > 1
    PROVE  FALSE
<1>1. PICK i \in 1..Len(waiting), j \in 1..Len(waiting) : i < j /\ waiting[i][1] = q /\ waiting[j][1] = u
  BY DEF Overtakes, Precedes
<1>2. waiting[i][2] = step[q] /\ waiting[j][2] = step[u]
  BY <1>1 DEF QueueInv
<1>3. waiting[i][2] > 1
  BY <1>1, <1>2 DEF OrderInv, UrgentFirst
<1>4. step[q] = 1
  BY DEF CallInv, CallOf, Overtakes
<1> QED
  BY <1>2, <1>3, <1>4

\* Who waits before another waits.
LEMMA WhoOvertakesWaits ==
    ASSUME QueueInv, NEW q, NEW u, Overtakes(q, u)
    PROVE  stage[q] = "waiting" /\ stage[u] = "waiting"
<1>1. PICK i \in 1..Len(waiting), j \in 1..Len(waiting) : waiting[i][1] = q /\ waiting[j][1] = u
  BY DEF Overtakes, Precedes
<1> QED
  BY <1>1 DEF QueueInv

\* Only a user who runs leaves `active` not empty.
LEMMA RunningIsActive ==
    ASSUME QueueInv, NEW u \in Users, stage[u] \in Running
    PROVE  active # {}
  BY DEF QueueInv
-----------------------------------------------------------------------------
(* What steps that leave a user alone keep.                                  *)

LEMMA RowsKept ==
    ASSUME NEW q, HasItsRows(q), stage'[q] = stage[q], doing'[q] = doing[q], handle'[q] = handle[q],
           rows'[q] = rows[q], given'[q] = given[q]
    PROVE  HasItsRows(q)'
  BY DEF HasItsRows

\* Steps of the queue: the server and the statements' handles stay.
LEMMA OwnKept ==
    ASSUME OwnInv, UNCHANGED server, \A q \in Queries : handle'[q] = handle[q],
           \A q \in Queries : GoesOn(q)' =>
              \/ server[handle[q]] = q
              \/ GoesOn(q) /\ (Gone(q) => Gone(q)')
    PROVE  OwnInv'
  BY DEF OwnInv

LEMMA ToCloseHandles ==
    ASSUME TypeOK, ClosingInv
    PROVE  ToClose \subseteq Handles
  BY TableTypes, UserTypes, UsersProperties DEF ToClose, ClosingInv, Running

LEMMA SweepStays ==
    ASSUME TypeOK, ClosingInv, SweepInv, UNCHANGED <<server, overtaken>>,
           stage'[Closing] \in Live =>
              /\ stage[Closing] \in Live
              /\ ToClose' = ToClose
              /\ stage'[Closing] \in {"waiting", "sent"} => \A h \in sweep' : handle'[Closing] < h,
           \A q \in Queries : stage[q] \in {"dropped", "ok", "failed"} => stage'[q] = stage[q],
           stage'[Closing] \in Live => \A q \in Queries \ overtaken : Ahead(q)' => Ahead(q)
    PROVE  SweepInv'
<1> SUFFICES ASSUME stage'[Closing] \in Live
             PROVE  /\ \A h \in ToClose : server[h] # NoQuery => Old(server[h])'
                    /\ \A q \in Queries \ overtaken : Ahead(q)' =>
                          \E g \in Handles : server[g] = NoQuery /\ \A h \in ToClose : g < h
  BY DEF SweepInv
<1>1. ASSUME NEW h \in ToClose, server[h] # NoQuery PROVE Old(server[h])'
  <2>1. h \in Handles
    BY ToCloseHandles
  <2>2. server[h] \in Queries
    BY <1>1, <2>1, TableTypes
  <2>3. Old(server[h])
    BY <1>1 DEF SweepInv
  <2> QED
    BY <2>2, <2>3 DEF Old
<1>2. ASSUME NEW q \in Queries \ overtaken, Ahead(q)'
      PROVE  \E g \in Handles : server[g] = NoQuery /\ \A h \in ToClose : g < h
  BY <1>2 DEF SweepInv
<1> QED
  BY <1>1, <1>2

LEMMA OrderKept ==
    ASSUME OrderInv, UNCHANGED <<waiting, doing, step, overtaken>>,
           active' # {} => active # {},
           stage'[Closing] \in {"waiting", "idle"} => stage'[Closing] = stage[Closing]
    PROVE  OrderInv'
<1>1. UrgentFirst'
  BY DEF OrderInv, UrgentFirst
<1> QED
  BY <1>1 DEF OrderInv

\* Steps that neither put a call into the line nor open or close a statement.
LEMMA MovesOwn ==
    ASSUME TypeOK, ClosingInv, SweepInv, OwnInv,
           UNCHANGED <<waiting, server, overtaken, sweep, doing, handle>>,
           \A u \in Users :
              /\ stage'[u] = "waiting" <=> stage[u] = "waiting"
              /\ stage'[u] = "sent" => stage[u] = "sent"
              /\ stage'[u] \in Live => stage[u] \in Live
              /\ stage[u] \in {"dropped", "ok", "failed"} => stage'[u] = stage[u],
           stage'[Closing] \in {"answered", "resumed"} => stage[Closing] \in {"answered", "resumed"}
    PROVE  SweepInv' /\ OwnInv'
<1> USE UsersProperties
<1>1. SweepInv'
  <2>1. stage'[Closing] \in Live =>
           /\ stage[Closing] \in Live
           /\ ToClose' = ToClose
           /\ stage'[Closing] \in {"waiting", "sent"} => \A h \in sweep' : handle'[Closing] < h
    BY DEF ToClose, SweepInv, Live
  <2>2. \A q \in Queries : Ahead(q)' => Ahead(q)
    BY DEF Ahead, Opening, Overtakes, Precedes
  <2> QED
    BY <2>1, <2>2, SweepStays
<1>2. OwnInv'
  <2>1. \A q \in Queries : GoesOn(q)' => GoesOn(q)
    BY DEF GoesOn
  <2>2. \A q \in Queries : Gone(q) => Gone(q)'
    BY DEF Gone, Opening, Overtakes, Precedes
  <2> QED
    BY <2>1, <2>2, OwnKept
<1> QED
  BY <1>1, <1>2
-----------------------------------------------------------------------------
(* query(), and a task that is called or done.                               *)

Undone == IInv /\ OrderInv /\ TotalInv

LEMMA QueryOrdered == \A q \in Queries : Undone /\ Query(q) => OrderInv' /\ TotalInv'
<1> USE UsersProperties
<1> SUFFICES ASSUME NEW q \in Queries, Undone, Query(q) PROVE OrderInv' /\ TotalInv'
  OBVIOUS
<1>t. TypeOK /\ UrgentFirst
  BY DEF Undone, IInv, OrderInv
<1>1. <<q, 1>> \in Tasks
  BY HandlesAssumption DEF HandlesAssumption, Tasks
<1>2. Inserted(<<q, 1>>, Len(waiting) + 1) /\ UNCHANGED active
  BY <1>t, <1>1, SubmitInserts DEF Query
<1>3. UrgentFirst'
  BY <1>t, <1>2, SubmitKeepsOrder
<1>4. UNCHANGED <<doing, step, overtaken, table>> /\ stage'[Closing] = stage[Closing]
  BY <1>t, UserTypes DEF Query, closeVars
<1> QED
  BY <1>3, <1>4 DEF Undone, OrderInv, TotalInv

LEMMA QueryOwns == \A q \in Queries : Undone /\ OwnRowsInv /\ Query(q) => OwnRowsInv'
<1> USE UsersProperties
<1> SUFFICES ASSUME NEW q \in Queries, Undone, OwnRowsInv, Query(q) PROVE OwnRowsInv'
  OBVIOUS
<1>t. TypeOK /\ CallInv /\ ClosingInv /\ SweepInv /\ OwnInv /\ RowsInv
  BY DEF Undone, IInv, CallInv, OwnRowsInv
<1>1. <<q, 1>> \in Tasks
  BY HandlesAssumption DEF HandlesAssumption, Tasks
<1>2. Inserted(<<q, 1>>, Len(waiting) + 1)
  BY <1>t, <1>1, SubmitInserts DEF Query
<1>3. /\ stage[q] = "idle" /\ stage'[q] = "waiting"
      /\ \A u \in Users : u # q => stage'[u] = stage[u]
      /\ UNCHANGED <<server, sweep, overtaken, rivals, doing, handle, rows, given>>
  BY <1>t, UserTypes DEF Query, closeVars, serverVars
<1>4. handle[q] = 0 /\ doing[q] = "query"
  BY <1>t, <1>3 DEF CallInv, CallOf
<1>5. stage[Closing] \notin {"answered", "resumed"}
  BY HandlesAssumption DEF HandlesAssumption, Query, Quiet, Pending
<1>6. ASSUME NEW u \in Users, u # q, NEW v \in Queries, Overtakes(v, u)' PROVE Overtakes(v, u)
  BY <1>t, <1>2, <1>3, <1>6, InsertedLast DEF Overtakes
<1>7. SweepInv'
  <2>1. stage'[Closing] \in Live =>
           /\ stage[Closing] \in Live
           /\ ToClose' = ToClose
           /\ stage'[Closing] \in {"waiting", "sent"} => \A h \in sweep' : handle'[Closing] < h
    BY <1>t, <1>3 DEF ToClose, SweepInv
  <2>2. \A v \in Queries : Ahead(v)' => Ahead(v)
    BY <1>3, <1>5, <1>6 DEF Ahead, Opening
  <2>3. \A v \in Queries : stage[v] \in {"dropped", "ok", "failed"} => stage'[v] = stage[v]
    BY <1>3
  <2> QED
    BY <1>t, <1>3, <2>1, <2>2, <2>3, SweepStays
<1>8. OwnInv'
  <2>1. \A v \in Queries : GoesOn(v)' => v # q /\ GoesOn(v)
    BY <1>3, <1>4 DEF GoesOn
  <2>2. \A v \in Queries : v # q /\ Gone(v) => Gone(v)'
    BY <1>3, <1>6 DEF Gone, Opening
  <2> QED
    BY <1>t, <1>3, <2>1, <2>2, OwnKept
<1>9. RowsInv'
  <2> SUFFICES ASSUME NEW v \in Queries \ Paging PROVE HasItsRows(v)'
    BY DEF RowsInv
  <2>1. CASE v = q
    BY <1>3, <1>4, <2>1 DEF HasItsRows
  <2>2. CASE v # q
    BY <1>t, <1>3, <2>2, RowsKept DEF RowsInv
  <2> QED
    BY <2>1, <2>2
<1> QED
  BY <1>7, <1>8, <1>9 DEF OwnRowsInv

LEMMA DoneOrdered == \A u \in Users : Undone /\ Done(u) => OrderInv' /\ TotalInv'
<1> SUFFICES ASSUME NEW u \in Users, Undone, Done(u) PROVE OrderInv' /\ TotalInv'
  OBVIOUS
<1>1. UNCHANGED <<waiting, doing, step, overtaken, table>> /\ active' = {}
  BY DEF Done, Executor!Finish, closeVars
<1>2. stage'[Closing] \in {"waiting", "idle"} => stage'[Closing] = stage[Closing]
  BY UserTypes, UsersProperties DEF Undone, IInv, Done
<1> QED
  BY <1>1, <1>2, OrderKept DEF Undone, TotalInv

LEMMA DoneOwns == \A u \in Users : Undone /\ OwnRowsInv /\ Done(u) => OwnRowsInv'
<1> USE UsersProperties
<1> SUFFICES ASSUME NEW u \in Users, Undone, OwnRowsInv, Done(u) PROVE OwnRowsInv'
  OBVIOUS
<1>t. TypeOK /\ ClosingInv /\ SweepInv /\ OwnInv /\ RowsInv
  BY DEF Undone, IInv, CallInv, OwnRowsInv
<1>1. /\ UNCHANGED <<waiting, server, overtaken, sweep, doing, handle, rows, given>>
      /\ \/ stage[u] = "answered" /\ stage'[u] = "resumed"
         \/ stage[u] = "refused" /\ stage'[u] = "rejected"
      /\ \A v \in Users : v # u => stage'[v] = stage[v]
  BY <1>t, UserTypes DEF Done, Executor!Finish, closeVars, serverVars
<1>2. SweepInv' /\ OwnInv'
  <2>1. \A v \in Users :
           /\ stage'[v] = "waiting" <=> stage[v] = "waiting"
           /\ stage'[v] = "sent" => stage[v] = "sent"
           /\ stage'[v] \in Live => stage[v] \in Live
           /\ stage[v] \in {"dropped", "ok", "failed"} => stage'[v] = stage[v]
           /\ stage'[v] \in {"answered", "resumed"} => stage[v] \in {"answered", "resumed"}
    BY <1>1 DEF Live
  <2> QED
    BY <1>t, <1>1, <2>1, MovesOwn
<1>3. RowsInv'
  BY <1>t, <1>1 DEF RowsInv, HasItsRows, Live
<1> QED
  BY <1>2, <1>3 DEF OwnRowsInv

\* The packet under a handle that is not in the server's session is lost, unless a
\* session was.
LEMMA NotOpenNotFound ==
    ASSUME IInv, losses = 0, NEW h \in Handles, server[h] = NoQuery
    PROVE  table[h] = NoPacket
<1>1. TableIsOpen /\ TableInv /\ table[h].of \in Queries \cup {NoQuery}
  BY TableTypes DEF IInv, CloseInv, SessionInv
<1> QED
  BY <1>1 DEF TableIsOpen, TableInv

LEMMA OpenIsFound ==
    ASSUME IInv, TotalInv, NEW q \in Queries, NEW h \in Handles, handle[q] = h, server[h] = q
    PROVE  table[h].total = Rows[q] /\ table[h].cursor = Len(given[q])
<1>1. q # NoQuery /\ h # 0
  BY UsersProperties
<1>2. table[h].of = q /\ table[h].cursor = Len(given[q])
  BY <1>1 DEF IInv, SessionInv, OpenInv
<1> QED
  BY <1>1, <1>2 DEF TotalInv

LEMMA StartOrdered == Undone /\ Start => OrderInv' /\ TotalInv'
<1> USE UsersProperties
<1> SUFFICES ASSUME Undone, Start PROVE OrderInv' /\ TotalInv'
  OBVIOUS
<1>t. TypeOK /\ UrgentFirst
  BY DEF Undone, IInv, OrderInv
<1>1. UrgentFirst'
  BY <1>t, StartKeepsOrder DEF Start
<1>2. UNCHANGED <<doing, step, overtaken, table>>
  BY DEF Start, closeVars
<1>3. stage'[Closing] \in {"waiting", "idle"} => stage'[Closing] = stage[Closing]
  <2>1. waiting # <<>>
    BY DEF Start, Executor!Start
  <2>2. Head(waiting) = waiting[1] /\ 1 \in 1..Len(waiting)
    BY <1>t, <2>1, QueueTypes
  <2>3. Head(waiting)[1] \in Users
    BY <1>t, <2>2, QueueTypes
  <2> QED
    BY <1>t, <2>3, UserTypes DEF Start
<1> QED
  BY <1>1, <1>2, <1>3 DEF Undone, OrderInv, TotalInv

LEMMA StartOwns == Undone /\ losses = 0 /\ OwnRowsInv /\ Start => OwnRowsInv'
<1> USE UsersProperties
<1> SUFFICES ASSUME Undone, losses = 0, OwnRowsInv, Start PROVE OwnRowsInv'
  OBVIOUS
<1>t. TypeOK /\ QueueInv /\ CallInv /\ ClosingInv /\ SweepInv /\ OwnInv /\ RowsInv /\ IInv /\ TotalInv
  BY DEF Undone, IInv, CallInv, OwnRowsInv
<1>b. /\ active = {} /\ waiting # <<>>
      /\ \A a, b : Precedes(a, b)' => Precedes(a, b)
      /\ \A j \in 1..Len(waiting) :
            waiting[j] # Head(waiting) => Precedes(Head(waiting)[1], waiting[j][1])
  BY <1>t, StartBefore DEF Start
<1>u. PICK u \in Users : u = Head(waiting)[1]
  BY <1>t, <1>b, QueueTypes
<1>h. Head(waiting) = <<u, step[u]>> /\ stage[u] = "waiting"
  <2>1. Head(waiting) = waiting[1] /\ 1 \in 1..Len(waiting)
    BY <1>t, <1>b, QueueTypes
  <2>2. waiting[1] = <<waiting[1][1], waiting[1][2]>>
    BY <1>t, <2>1, QueueTypes
  <2> QED
    BY <1>t, <1>u, <2>1, <2>2 DEF QueueInv
<1>1. UNCHANGED <<server, overtaken, sweep, doing, handle, rows, given, table>>
  BY DEF Start, closeVars
<1>2. /\ \A v \in Users : v # u => stage'[v] = stage[v]
      /\ stage'[u] \in {"sent", "refused", "answered"}
      /\ stage'[u] = "answered" => doing[u] = "fetch"
      /\ doing[u] # "query" /\ table[handle[u]] = NoPacket => stage'[u] = "refused"
      /\ stage'[u] = "answered" => Exhausted(table[handle[u]])
  <2> DEFINE called == CASE doing[u] = "query" -> "sent"
                         [] doing[u] # "query" /\ table[handle[u]] = NoPacket -> "refused"
                         [] doing[u] = "fetch" /\ table[handle[u]] # NoPacket /\ Exhausted(table[handle[u]]) ->
                               "answered"
                         [] OTHER -> "sent"
  <2>1. /\ called \in {"sent", "refused", "answered"}
        /\ called = "answered" => doing[u] = "fetch" /\ Exhausted(table[handle[u]])
    OBVIOUS
  <2>5. doing[u] # "query" /\ table[handle[u]] = NoPacket => called = "refused"
    OBVIOUS
  <2>4. stage' = [stage EXCEPT ![u] = called] \/ stage' = [stage EXCEPT ![u] = "refused"]
    BY <1>u DEF Start
  <2> HIDE DEF called
  <2>2. CASE stage' = [stage EXCEPT ![u] = called]
    BY <1>t, <2>1, <2>2, <2>5, UserTypes
  <2>3. CASE stage' = [stage EXCEPT ![u] = "refused"]
    BY <1>t, <2>3, UserTypes
  <2> QED
    BY <2>2, <2>3, <2>4
<1>3. \A v \in Users : stage[v] \notin Running
  BY <1>t, <1>b, RunningIsActive
<1>4. stage[Closing] \notin {"sent", "answered", "resumed"}
  BY <1>3, HandlesAssumption DEF HandlesAssumption, Start, Quiet, Pending, Running
<1>5. ASSUME NEW v \in Queries, NEW w, Overtakes(v, w)' PROVE Overtakes(v, w)
  BY <1>b, <1>1, <1>5 DEF Overtakes
<1>6. ASSUME NEW v \in Users, v # u, stage[v] = "waiting", doing[u] = "query" PROVE Overtakes(u, v)
  <2>1. PICK j \in 1..Len(waiting) : waiting[j] = <<v, step[v]>>
    BY <1>t, <1>6 DEF QueueInv
  <2> QED
    BY <1>b, <1>h, <1>6, <2>1 DEF Overtakes
<1>7. \A v \in Queries : Opening(v)' => v = u /\ doing[u] = "query"
  BY <1>1, <1>2, <1>3 DEF Opening, Running
<1>8. SweepInv'
  <2>1. stage'[Closing] \in Live =>
           /\ stage[Closing] \in Live
           /\ ToClose' = ToClose
           /\ stage'[Closing] \in {"waiting", "sent"} => \A h \in sweep' : handle'[Closing] < h
    <3>1. CASE u = Closing
      BY <1>t, <1>h, <1>1, <1>2, <3>1 DEF ToClose, SweepInv, Live, ClosingInv
    <3>2. CASE u # Closing
      BY <1>t, <1>1, <1>2, <3>2 DEF ToClose, SweepInv
    <3> QED
      BY <3>1, <3>2
  <2>2. ASSUME stage'[Closing] \in Live, NEW v \in Queries, Ahead(v)' PROVE Ahead(v)
    <3>1. CASE Opening(v)'
      <4>1. v = u /\ doing[u] = "query" /\ Closing # u
        BY <1>7, <3>1
      <4>2. stage[Closing] = "waiting"
        BY <1>2, <1>4, <2>2, <4>1 DEF Live
      <4> QED
        BY <1>6, <4>1, <4>2 DEF Ahead
    <3>2. CASE Overtakes(v, Closing)'
      BY <1>5, <3>2 DEF Ahead
    <3>3. CASE stage'[Closing] \in {"answered", "resumed"}
      BY <1>t, <1>2, <1>4, <3>3 DEF ClosingInv
    <3> QED
      BY <2>2, <3>1, <3>2, <3>3 DEF Ahead
  <2>3. \A v \in Queries : stage[v] \in {"dropped", "ok", "failed"} => stage'[v] = stage[v]
    BY <1>h, <1>2
  <2> QED
    BY <1>t, <1>1, <2>1, <2>2, <2>3, SweepStays
<1>9. u \in Queries /\ stage'[u] # "refused" /\ doing[u] # "query" => handle[u] \in Handles /\ server[handle[u]] = u
  <2> SUFFICES ASSUME u \in Queries, stage'[u] # "refused", doing[u] # "query"
               PROVE  handle[u] \in Handles /\ server[handle[u]] = u
    OBVIOUS
  <2>1. handle[u] \in Handles /\ handle[u] # 0
    BY <1>t, UserTypes DEF CallInv, CallOf
  <2>2. GoesOn(u)
    BY <1>h, <2>1 DEF GoesOn, Live
  <2>3. ~Gone(u)
    BY <1>t, <1>2, <2>1, NotOpenNotFound DEF Gone
  <2> QED
    BY <1>t, <2>1, <2>2, <2>3 DEF OwnInv
<1>10. OwnInv'
  <2> SUFFICES ASSUME NEW v \in Queries, GoesOn(v)' PROVE server[handle[v]] = v \/ Gone(v)'
    BY <1>1 DEF OwnInv
  <2>1. CASE v = u
    <3>1. doing[u] # "query" /\ stage'[u] # "refused"
      BY <1>t, <1>h, <1>1, <2>1 DEF GoesOn, Live, CallInv, CallOf
    <3> QED
      BY <1>9, <2>1, <3>1
  <2>2. CASE v # u
    <3>1. GoesOn(v)
      BY <1>1, <1>2, <2>2 DEF GoesOn
    <3>2. Gone(v) => Gone(v)'
      BY <1>1, <1>2, <1>5, <1>6, <1>7, <2>2 DEF Gone
    <3> QED
      BY <1>t, <3>1, <3>2 DEF OwnInv
  <2> QED
    BY <2>1, <2>2
<1>11. RowsInv'
  <2> SUFFICES ASSUME NEW v \in Queries \ Paging PROVE HasItsRows(v)'
    BY DEF RowsInv
  <2>0. HasItsRows(v)
    BY <1>t DEF RowsInv
  <2>1. CASE v = u
    <3>1. doing[u] = "fetch" /\ stage'[u] = "answered" => Len(given[u]) = Rows[u]
      BY <1>t, <1>2, <1>9, <2>1, OpenIsFound DEF Exhausted
    <3> QED
      BY <1>h, <1>1, <1>2, <2>0, <2>1, <3>1 DEF HasItsRows, Live
  <2>2. CASE v # u
    BY <1>1, <1>2, <2>0, <2>2, RowsKept
  <2> QED
    BY <2>1, <2>2
<1> QED
  BY <1>8, <1>10, <1>11 DEF OwnRowsInv
-----------------------------------------------------------------------------
(* A user goes on to the next call, and close() to the next handle.          *)

\* What ends a chain of calls.
LEMMA EndOwns ==
    ASSUME Undone, OwnRowsInv, NEW u \in Users, NEW new \in {"ok", "failed", "closing", "hung"},
           stage[u] \in {"idle", "rejected", "resumed"}, stage' = [stage EXCEPT ![u] = new],
           new = "ok" => u = Closing \/ stage[u] = "resumed",
           UNCHANGED <<waiting, server, overtaken, sweep, doing, handle, rows, given>>
    PROVE  OwnRowsInv'
<1> USE UsersProperties
<1>t. TypeOK /\ ClosingInv /\ SweepInv /\ OwnInv /\ RowsInv
  BY DEF Undone, IInv, CallInv, OwnRowsInv
<1>1. \A v \in Users : stage'[v] = IF v = u THEN new ELSE stage[v]
  BY <1>t, UserTypes
<1>2. SweepInv' /\ OwnInv'
  <2>1. \A v \in Users :
           /\ stage'[v] = "waiting" <=> stage[v] = "waiting"
           /\ stage'[v] = "sent" => stage[v] = "sent"
           /\ stage'[v] \in Live => stage[v] \in Live
           /\ stage[v] \in {"dropped", "ok", "failed"} => stage'[v] = stage[v]
           /\ stage'[v] \in {"answered", "resumed"} => stage[v] \in {"answered", "resumed"}
    BY <1>1 DEF Live
  <2> QED
    BY <1>t, <2>1, MovesOwn
<1>3. RowsInv'
  BY <1>t, <1>1 DEF RowsInv, HasItsRows, Live
<1> QED
  BY <1>2, <1>3 DEF OwnRowsInv

LEMMA ContinueOrdered == \A q \in Queries : Undone /\ Continue(q) => OrderInv' /\ TotalInv'
<1> USE UsersProperties
<1> SUFFICES ASSUME NEW q \in Queries, Undone, Continue(q) PROVE OrderInv' /\ TotalInv'
  OBVIOUS
<1>t. TypeOK /\ OrderInv /\ UrgentFirst /\ IInv /\ CallOf(q)
  BY DEF Undone, IInv, OrderInv, CallInv
<1>1. UNCHANGED <<overtaken, table>> /\ stage'[Closing] = stage[Closing]
  BY <1>t, UserTypes DEF Continue, closeVars
<1>2. CASE UNCHANGED <<execVars, doing, step>>
  BY <1>t, <1>1, <1>2, OrderKept DEF Undone, TotalInv, execVars
<1>3. CASE /\ ~Ends(q)
           /\ step' = [step EXCEPT ![q] = @ + 1]
           /\ \E call \in FollowUps(q) : doing' = [doing EXCEPT ![q] = call]
           /\ Unshift(<<q, step'[q]>>)
  <2>1. step'[q] = step[q] + 1 /\ \A u \in Users : u # q => step'[u] = step[u] /\ doing'[u] = doing[u]
    BY <1>t, <1>3, UserTypes
  <2>2. step[q] + 1 \in 1..MaxStep /\ step[q] \in 1..MaxStep
    BY <1>t, <1>3, FollowUpsProperties, UserTypes
  <2>3. <<q, step'[q]>> \in Tasks /\ <<q, step'[q]>>[2] > 1
    BY <2>1, <2>2, HandlesAssumption DEF Tasks, HandlesAssumption
  <2>4. UrgentFirst'
    BY <1>t, <1>3, <2>3, UnshiftKeepsOrder
  <2> QED
    BY <1>t, <1>1, <2>1, <2>3, <2>4 DEF Undone, OrderInv, TotalInv
<1> QED
  BY <1>2, <1>3 DEF Continue

LEMMA ContinueOwns == \A q \in Queries : Undone /\ OwnRowsInv /\ Continue(q) => OwnRowsInv'
<1> USE UsersProperties
<1> SUFFICES ASSUME NEW q \in Queries, Undone, OwnRowsInv, Continue(q) PROVE OwnRowsInv'
  OBVIOUS
<1>t. TypeOK /\ CallOf(q) /\ ClosingInv /\ SweepInv /\ OwnInv /\ RowsInv /\ EachRowOnce
  BY DEF Undone, IInv, CallInv, SessionInv, OwnRowsInv
<1>1. UNCHANGED <<server, sweep, overtaken, handle, rows, given>>
  BY DEF Continue, serverVars
<1>2. CASE \/ stage[q] = "rejected" /\ stage' = [stage EXCEPT ![q] = "failed"]
              /\ UNCHANGED <<execVars, doing, step>>
           \/ stage[q] = "resumed" /\ stage' = [stage EXCEPT ![q] = "ok"]
              /\ UNCHANGED <<execVars, doing, step>>
  BY <1>1, <1>2, EndOwns DEF execVars
<1>3. CASE /\ stage[q] = "resumed" /\ ~Ends(q)
           /\ step' = [step EXCEPT ![q] = @ + 1]
           /\ \E call \in FollowUps(q) : doing' = [doing EXCEPT ![q] = call]
           /\ Unshift(<<q, step'[q]>>)
           /\ stage' = [stage EXCEPT ![q] = "waiting"]
  <2>1. /\ stage'[q] = "waiting" /\ step'[q] = step[q] + 1
        /\ \A u \in Users : u # q => stage'[u] = stage[u] /\ doing'[u] = doing[u]
    BY <1>t, <1>3, UserTypes
  <2>2. /\ doing'[q] \in {"fetch", "closeQuery"} /\ doing[q] \in {"query", "fetch"}
        /\ doing[q] = "query" => doing'[q] = "fetch"
    <3>1. PICK call \in FollowUps(q) : doing' = [doing EXCEPT ![q] = call]
      BY <1>3
    <3>2. doing'[q] = call /\ doing[q] \in {"query", "fetch", "closeQuery"}
      BY <1>t, <3>1, UserTypes
    <3>3. call \in {"fetch", "closeQuery"} /\ (doing[q] = "query" => call = "fetch")
      BY <1>t, <1>3, <3>1, FollowUpsProperties DEF FollowUps
    <3> QED
      BY <1>3, <3>2, <3>3 DEF Ends
  <2>3. <<q, step'[q]>> \in Tasks
    BY <1>t, <1>3, <2>1, FollowUpsProperties DEF Tasks
  <2>4. PICK k : Inserted(<<q, step'[q]>>, k)
    BY <1>t, <1>3, <2>3, UnshiftInserts
  <2>5. ASSUME NEW v \in Queries, NEW u \in Users, u # q, Overtakes(v, u)' PROVE Overtakes(v, u)
    <3>1. v # q
      BY <2>2, <2>5 DEF Overtakes
    <3>2. Precedes(v, u)
      BY <1>t, <2>4, <2>5, <3>1, InsertedBetween DEF Overtakes
    <3> QED
      BY <2>1, <2>5, <3>1, <3>2 DEF Overtakes
  <2>6. \A v \in Queries : Opening(v)' => Opening(v)
    BY <2>1 DEF Opening
  <2>7. SweepInv'
    <3>1. stage'[Closing] \in Live =>
             /\ stage[Closing] \in Live
             /\ ToClose' = ToClose
             /\ stage'[Closing] \in {"waiting", "sent"} => \A h \in sweep' : handle'[Closing] < h
      BY <1>t, <1>1, <2>1 DEF ToClose, SweepInv
    <3>2. \A v \in Queries : Ahead(v)' => Ahead(v)
      BY <2>1, <2>2, <2>5, <2>6 DEF Ahead
    <3>3. \A v \in Queries : stage[v] \in {"dropped", "ok", "failed"} => stage'[v] = stage[v]
      BY <1>3, <2>1
    <3> QED
      BY <1>t, <1>1, <3>1, <3>2, <3>3, SweepStays
  <2>8. OwnInv'
    <3> SUFFICES ASSUME NEW v \in Queries, GoesOn(v)' PROVE server[handle[v]] = v \/ Gone(v)'
      BY <1>1 DEF OwnInv
    <3>1. CASE v = q
      BY <1>t, <1>1, <1>3, <2>2, <3>1 DEF OwnInv, GoesOn, Gone, Live
    <3>2. CASE v # q
      <4>1. GoesOn(v)
        BY <1>1, <2>1, <3>2 DEF GoesOn
      <4>2. Gone(v) => Gone(v)'
        BY <1>1, <2>1, <2>5, <2>6, <3>2 DEF Gone
      <4> QED
        BY <1>t, <4>1, <4>2 DEF OwnInv
    <3> QED
      BY <3>1, <3>2
  <2>9. RowsInv'
    <3> SUFFICES ASSUME NEW v \in Queries \ Paging PROVE HasItsRows(v)'
      BY DEF RowsInv
    <3>0. HasItsRows(v)
      BY <1>t DEF RowsInv
    <3>1. CASE v = q
      <4>1. handle[q] # 0
        BY <1>t, <1>3 DEF CallOf
      <4>2. rows[q] = given[q] /\ (doing[q] = "fetch" => Len(given[q]) = Rows[q])
        BY <1>3, <2>2, <3>0, <3>1, <4>1 DEF HasItsRows, Live
      <4>3. doing'[q] = "closeQuery" => rows[q] = RowsOf(q, 1, Rows[q])
        BY <1>t, <2>2, <4>2 DEF EachRowOnce
      <4> QED
        BY <1>1, <2>1, <3>1, <4>2, <4>3 DEF HasItsRows
    <3>2. CASE v # q
      BY <1>1, <2>1, <3>0, <3>2, RowsKept
    <3> QED
      BY <3>1, <3>2
  <2> QED
    BY <2>7, <2>8, <2>9 DEF OwnRowsInv
<1> QED
  BY <1>2, <1>3 DEF Continue

\* The next task of close() is one that the queue can take.
LEMMA UnshiftedTask ==
    ASSUME Undone, Sweep, stage[Closing] = "resumed", sweep # {}
    PROVE  <<Closing, step'[Closing]>> \in Tasks
<1>1. TypeOK'
  BY SweepKeeps DEF Undone, IInv
<1> QED
  BY <1>1, UserTypes, UsersProperties DEF TypeOK, Tasks

LEMMA SweepOrdered == Undone /\ Sweep => OrderInv' /\ TotalInv'
<1> USE UsersProperties
<1> SUFFICES ASSUME Undone, Sweep PROVE OrderInv' /\ TotalInv'
  OBVIOUS
<1>t. TypeOK /\ OrderInv /\ UrgentFirst
  BY DEF Undone, IInv, OrderInv
<1>1. UNCHANGED <<overtaken, table, doing>>
  BY DEF Sweep
<1>2. CASE /\ UNCHANGED <<execVars, step>>
           /\ \E new \in {"failed", "closing", "hung"} : stage' = [stage EXCEPT ![Closing] = new]
  <2>1. stage'[Closing] \notin {"waiting", "idle"}
    BY <1>t, <1>2, UserTypes
  <2> QED
    BY <1>t, <1>1, <1>2, <2>1, OrderKept DEF Undone, TotalInv, execVars
<1>3. CASE /\ stage[Closing] = "resumed" /\ sweep # {}
           /\ step' = [step EXCEPT ![Closing] = @ + 1]
           /\ Unshift(<<Closing, step'[Closing]>>)
           /\ stage' = [stage EXCEPT ![Closing] = "waiting"]
  <2>1. /\ step'[Closing] = step[Closing] + 1 /\ stage'[Closing] = "waiting"
        /\ \A u \in Users : u # Closing => step'[u] = step[u]
    BY <1>t, <1>3, UserTypes
  <2>2. <<Closing, step'[Closing]>> \in Tasks /\ <<Closing, step'[Closing]>>[2] > 1
    <3>1. <<Closing, step'[Closing]>> \in Tasks
      BY <1>3, UnshiftedTask
    <3>2. step[Closing] \in Nat /\ step[Closing] >= 1
      BY <1>t, UserTypes, HandlesAssumption DEF HandlesAssumption
    <3> QED
      BY <2>1, <3>1, <3>2
  <2>3. UrgentFirst'
    BY <1>t, <1>3, <2>2, UnshiftKeepsOrder
  <2> QED
    BY <1>t, <1>1, <2>1, <2>2, <2>3 DEF Undone, OrderInv, TotalInv
<1> QED
  BY <1>2, <1>3 DEF Sweep

LEMMA SweepOwns == Undone /\ OwnRowsInv /\ Sweep => OwnRowsInv'
<1> USE UsersProperties
<1> SUFFICES ASSUME Undone, OwnRowsInv, Sweep PROVE OwnRowsInv'
  OBVIOUS
<1>t. TypeOK /\ QueueInv /\ ClosingInv /\ SweepInv /\ OwnInv /\ RowsInv
  BY DEF Undone, IInv, CallInv, OwnRowsInv
<1>1. UNCHANGED <<server, overtaken, doing, rows, given>>
  BY DEF Sweep
<1>2. CASE /\ UNCHANGED <<execVars, sweep, handle>>
           /\ stage[Closing] \in {"rejected", "resumed"}
           /\ \E new \in {"failed", "closing", "hung"} : stage' = [stage EXCEPT ![Closing] = new]
  BY <1>1, <1>2, EndOwns DEF execVars
<1>3. CASE /\ stage[Closing] = "resumed" /\ sweep # {}
           /\ handle' = [handle EXCEPT ![Closing] = Min(sweep)]
           /\ sweep' = sweep \ {Min(sweep)}
           /\ step' = [step EXCEPT ![Closing] = @ + 1]
           /\ Unshift(<<Closing, step'[Closing]>>)
           /\ stage' = [stage EXCEPT ![Closing] = "waiting"]
  <2>1. sweep \subseteq Nat /\ Min(sweep) \in sweep /\ \A h \in sweep : Min(sweep) <= h
    <3>1. sweep \subseteq Nat
      BY <1>t, TableTypes, HandlesProperties
    <3> QED
      BY <1>3, <3>1, MinOfSome
  <2>2. /\ stage'[Closing] = "waiting" /\ handle'[Closing] = Min(sweep)
        /\ \A u \in Users : u # Closing => stage'[u] = stage[u] /\ handle'[u] = handle[u]
    <3>1. Min(sweep) \in Handles \cup {0}
      BY <1>t, <2>1, TableTypes
    <3> QED
      BY <1>t, <1>3, <3>1, UserTypes
  <2>3. <<Closing, step'[Closing]>> \in Tasks
    BY <1>3, UnshiftedTask
  <2>4. PICK k : Inserted(<<Closing, step'[Closing]>>, k)
    BY <1>t, <1>3, <2>3, UnshiftInserts
  <2>5. ASSUME NEW v \in Queries, NEW u \in Queries, Overtakes(v, u)' PROVE Overtakes(v, u)
    BY <1>t, <1>1, <2>4, <2>5, InsertedBetween DEF Overtakes
  <2>6. ASSUME NEW v \in Queries, Overtakes(v, Closing)' PROVE stage[v] = "waiting" /\ doing[v] = "query"
    <3>1. PICK i \in 1..Len(waiting') : waiting'[i][1] = v
      BY <2>6 DEF Overtakes, Precedes
    <3>2. i # k /\ Len(waiting) \in Nat
      BY <1>t, <2>4, <3>1, QueueTypes DEF Inserted
    <3>3. PICK j \in 1..Len(waiting) : waiting'[i] = waiting[j]
      <4>1. CASE i < k
        BY <2>4, <3>1, <3>2, <4>1 DEF Inserted
      <4>2. CASE ~(i < k)
        <5>1. i - 1 \in 1..Len(waiting) /\ waiting'[i] = waiting[i - 1]
          BY <2>4, <3>1, <3>2, <4>2 DEF Inserted
        <5> QED
          BY <5>1
      <4> QED
        BY <4>1, <4>2
    <3> QED
      BY <1>t, <1>1, <2>6, <3>1, <3>3 DEF QueueInv, Overtakes
  <2>7. SweepInv'
    <3>1. ToClose' = ToClose /\ stage[Closing] \in Live
      BY <1>3, <2>1, <2>2 DEF ToClose, Live
    <3>2. ASSUME NEW h \in sweep' PROVE handle'[Closing] < h
      <4>1. h \in sweep /\ h # Min(sweep) /\ h \in Nat /\ Min(sweep) \in Nat
        BY <1>3, <2>1, <3>2
      <4>2. Min(sweep) <= h
        BY <2>1, <4>1
      <4> QED
        BY <2>2, <4>1, <4>2
    <3>3. \A v \in Queries : Ahead(v)' => Ahead(v)
      BY <1>1, <1>3, <2>2, <2>6 DEF Ahead, Opening
    <3>4. \A v \in Queries : stage'[v] = stage[v]
      BY <2>2
    <3> QED
      BY <1>t, <1>1, <3>1, <3>2, <3>3, <3>4, SweepStays
  <2>8. OwnInv'
    <3>1. \A v \in Queries : GoesOn(v)' => GoesOn(v)
      BY <1>1, <2>2 DEF GoesOn
    <3>2. \A v \in Queries : Gone(v) => Gone(v)'
      BY <1>1, <2>2, <2>5 DEF Gone, Opening
    <3>3. \A v \in Queries : handle'[v] = handle[v]
      BY <2>2
    <3> QED
      BY <1>t, <1>1, <3>1, <3>2, <3>3, OwnKept
  <2>9. RowsInv'
    BY <1>t, <1>1, <2>2, RowsKept DEF RowsInv
  <2> QED
    BY <2>7, <2>8, <2>9 DEF OwnRowsInv
<1> QED
  BY <1>2, <1>3 DEF Sweep
-----------------------------------------------------------------------------
(* close() is called, and sessions end.                                      *)

LEMMA CloseOrdered == Undone /\ Close => OrderInv' /\ TotalInv'
<1> USE UsersProperties
<1> SUFFICES ASSUME Undone, Close PROVE OrderInv' /\ TotalInv'
  OBVIOUS
<1>t. TypeOK /\ OrderInv
  BY DEF Undone, IInv
<1>1. UNCHANGED <<table, doing, step>> /\ stage'[Closing] \notin {"idle", "waiting"}
  BY <1>t, UserTypes DEF Close
<1>2. UrgentFirst'
  <2>1. CASE UNCHANGED execVars
    BY <1>t, <2>1 DEF execVars, OrderInv, UrgentFirst
  <2>2. CASE waiting' = IF active = {} /\ waiting # <<>> THEN <<Head(waiting)>> ELSE <<>>
    <3>1. Len(waiting') \in {0, 1}
      BY <2>2
    <3> QED
      BY <3>1 DEF UrgentFirst
  <2> QED
    BY <2>1, <2>2 DEF Close
<1> QED
  BY <1>t, <1>1, <1>2 DEF Undone, OrderInv, TotalInv

LEMMA CloseOwns == Undone /\ losses = 0 /\ OwnRowsInv /\ Close => OwnRowsInv'
<1> USE UsersProperties
<1> SUFFICES ASSUME Undone, losses = 0, OwnRowsInv, Close PROVE OwnRowsInv'
  OBVIOUS
<1>t. TypeOK /\ QueueInv /\ CallInv /\ ClosingInv /\ SweepInv /\ OwnInv /\ RowsInv /\ TableIsOpen
  BY DEF Undone, IInv, CallInv, OwnRowsInv, CloseInv
<1>1. /\ UNCHANGED <<server, doing, handle, rows, given>> /\ stage[Closing] = "idle"
  BY DEF Close, serverVars
<1>2. CASE stage' = [stage EXCEPT ![Closing] = "ok"] /\ UNCHANGED <<execVars, closeVars>>
  BY <1>1, <1>2, EndOwns DEF execVars, closeVars
<1>3. CASE /\ waiting' = IF active = {} /\ waiting # <<>> THEN <<Head(waiting)>> ELSE <<>>
           /\ stage' = [u \in Users |-> IF u = Closing THEN "resumed"
                                        ELSE IF <<u, step[u]>> \in discarded' THEN "dropped"
                                        ELSE stage[u]]
           /\ sweep' = Registered
           /\ overtaken' = {q \in Queries : stage'[q] \notin {"idle", "dropped", "ok", "failed"}}
  <2>1. /\ stage'[Closing] = "resumed"
        /\ \A v \in Queries : stage'[v] = stage[v] \/ stage'[v] = "dropped"
    BY <1>3
  <2>2. \A v, u : ~Overtakes(v, u)'
    <3>1. Len(waiting') \in {0, 1}
      BY <1>3
    <3> QED
      BY <3>1 DEF Overtakes, Precedes
  <2>3. SweepInv'
    <3>1. ToClose' = Registered
      BY <1>3, <2>1 DEF ToClose
    <3>2. ASSUME NEW h \in Registered PROVE Old(server[h])'
      <4>1. h \in Handles /\ h # 0 /\ table[h].of # NoQuery
        BY <1>t, <3>2, RegisteredProperties DEF Registered, Undone, IInv, SessionInv, TableInv
      <4>2. server[h] \in Queries /\ handle[server[h]] = h
        BY <1>t, <4>1, TableTypes DEF TableIsOpen
      <4>3. stage[server[h]] # "idle"
        BY <1>t, <4>1, <4>2 DEF CallInv, CallOf
      <4>4. stage'[server[h]] \in {"dropped", "ok", "failed"} \/ server[h] \in overtaken'
        <5>1. stage'[server[h]] # "idle"
          BY <2>1, <4>2, <4>3
        <5> QED
          BY <1>3, <4>2, <5>1
      <4> QED
        BY <1>1, <4>4 DEF Old
    <3>3. \A v \in Queries \ overtaken' : ~Ahead(v)'
      BY <1>3, <2>1, <2>2 DEF Ahead, Opening
    <3> QED
      BY <1>1, <2>1, <3>1, <3>2, <3>3 DEF SweepInv
  <2>4. OwnInv'
    <3>1. \A v \in Queries : GoesOn(v)' => stage'[v] = stage[v] /\ GoesOn(v)
      BY <1>1, <2>1 DEF GoesOn, Live
    <3>2. \A v \in Queries : stage'[v] = stage[v] /\ Gone(v) => Gone(v)'
      BY <1>1, <2>1, <2>2 DEF Gone, Opening
    <3> QED
      BY <1>t, <1>1, <3>1, <3>2, OwnKept
  <2>5. RowsInv'
    BY <1>t, <1>1, <2>1 DEF RowsInv, HasItsRows, Live
  <2> QED
    BY <2>3, <2>4, <2>5 DEF OwnRowsInv
<1> QED
  BY <1>2, <1>3 DEF Close
-----------------------------------------------------------------------------
(* The server answers.                                                       *)

LEMMA RespondOrdered == \A u \in Users : Undone /\ Respond(u) => OrderInv'
<1> USE UsersProperties
<1> SUFFICES ASSUME NEW u \in Users, Undone, Respond(u) PROVE OrderInv'
  OBVIOUS
<1>1. /\ UNCHANGED <<waiting, active, doing, step, overtaken>>
  BY DEF Respond, execVars, closeVars
<1>2. \/ UNCHANGED stage
      \/ \E new \in {"refused", "executing", "answered"} : stage' = [stage EXCEPT ![u] = new]
  <2>1. CASE CloseQueryResponse(u)
    BY <2>1 DEF CloseQueryResponse, Refuse
  <2>2. CASE QueryResponse(u) \/ ExecuteResponse(u)
    BY <2>2 DEF QueryResponse, ExecuteResponse, FirstRows, Refuse
  <2>3. CASE PrepareResponse(u)
    BY <2>3 DEF PrepareResponse, Refuse
  <2>4. CASE FetchResponse(u)
    BY <2>4 DEF FetchResponse, Refuse
  <2> QED
    BY <2>1, <2>2, <2>3, <2>4 DEF Respond
<1>3. stage'[Closing] \in {"waiting", "idle"} => stage'[Closing] = stage[Closing]
  BY <1>2, UserTypes DEF Undone, IInv
<1> QED
  BY <1>1, <1>3, OrderKept DEF Undone

LEMMA TotalsKept ==
    ASSUME TypeOK, TotalInv, NEW h, NEW p, table' = [table EXCEPT ![h] = p],
           p.of # NoQuery => p.total = Rows[p.of]
    PROVE  TotalInv'
<1>1. \A g \in Handles : table'[g] = table[g] \/ table'[g] = p
  BY TableTypes
<1> QED
  BY <1>1 DEF TotalInv

LEMMA RespondTotals == \A u \in Users : Undone /\ Respond(u) => TotalInv'
<1> SUFFICES ASSUME NEW u \in Users, Undone, Respond(u) PROVE TotalInv'
  OBVIOUS
<1>t. TypeOK /\ TotalInv
  BY DEF Undone, IInv
<1>1. CASE UNCHANGED table
  BY <1>t, <1>1 DEF TotalInv
<1>2. CASE FirstRows(u)
  <2>1. PICK first, h : table' = [table EXCEPT ![h] = Packet(u, first)]
    BY <1>2 DEF FirstRows, Register
  <2>2. Packet(u, first).total = Rows[Packet(u, first).of]
    BY DEF Packet
  <2> QED
    BY <1>t, <2>1, <2>2, TotalsKept
<1>3. CASE Forget(u)
  <2>1. NoPacket.of = NoQuery
    BY DEF NoPacket
  <2> QED
    BY <1>t, <1>3, <2>1, TotalsKept DEF Forget
<1>4. CASE \E n : table' = [table EXCEPT ![handle[u]].cursor = @ + n]
  <2>1. PICK n : table' = [table EXCEPT ![handle[u]].cursor = @ + n]
    BY <1>4
  <2>2. \A g \in Handles : table'[g].of = table[g].of /\ table'[g].total = table[g].total
    BY <1>t, <2>1, TableTypes
  <2> QED
    BY <1>t, <2>2 DEF TotalInv
<1>5. CASE QueryResponse(u)
  BY <1>1, <1>2, <1>5 DEF QueryResponse, Refuse
<1>6. CASE PrepareResponse(u)
  BY <1>1, <1>6 DEF PrepareResponse, Refuse
<1>7. CASE ExecuteResponse(u)
  BY <1>1, <1>2, <1>7 DEF ExecuteResponse, Refuse
<1>8. CASE FetchResponse(u)
  BY <1>1, <1>4, <1>8 DEF FetchResponse, Refuse
<1>9. CASE CloseQueryResponse(u)
  BY <1>1, <1>3, <1>9 DEF CloseQueryResponse, Refuse
<1> QED
  BY <1>5, <1>6, <1>7, <1>8, <1>9 DEF Respond

LEMMA RefuseOwns ==
    ASSUME NEW u \in Users, Undone, OwnRowsInv, InFlight(u), Answering, Refuse(u)
    PROVE  OwnRowsInv'
<1> USE UsersProperties
<1>t. TypeOK /\ ClosingInv /\ SweepInv /\ OwnInv /\ RowsInv
  BY DEF Undone, IInv, CallInv, OwnRowsInv
<1>1. /\ UNCHANGED <<waiting, server, overtaken, sweep, doing, handle, rows, given>>
      /\ stage[u] \in {"sent", "executing"} /\ stage'[u] = "refused"
      /\ \A v \in Users : v # u => stage'[v] = stage[v]
  BY <1>t, UserTypes DEF Refuse, Answering, execVars, closeVars, serverVars, InFlight
<1>2. SweepInv' /\ OwnInv'
  <2>1. \A v \in Users :
           /\ stage'[v] = "waiting" <=> stage[v] = "waiting"
           /\ stage'[v] = "sent" => stage[v] = "sent"
           /\ stage'[v] \in Live => stage[v] \in Live
           /\ stage[v] \in {"dropped", "ok", "failed"} => stage'[v] = stage[v]
           /\ stage'[v] \in {"answered", "resumed"} => stage[v] \in {"answered", "resumed"}
    BY <1>1 DEF Live
  <2> QED
    BY <1>t, <1>1, <2>1, MovesOwn
<1>3. RowsInv'
  BY <1>t, <1>1 DEF RowsInv, HasItsRows, Live
<1> QED
  BY <1>2, <1>3 DEF OwnRowsInv

\* A statement is opened under the lowest handle that is free.
LEMMA OpenLowest ==
    ASSUME NEW q \in Queries, IInv, Opening(q), Open(q)
    PROVE  \E h \in Handles :
              /\ server[h] = NoQuery /\ server'[h] = q
              /\ \A g \in Handles : g # h => server'[g] = server[g]
              /\ \A g \in Handles : server[g] = NoQuery => h <= g
<1> DEFINE Free == {g \in Handles : server[g] = NoQuery}
<1>1. server \in [Handles -> Queries \cup {NoQuery}]
  BY TableTypes DEF IInv
<1>2. \A h \in Handles : server[h] # q
  BY NothingOpen DEF IInv, Opening
<1>3. Min(Free) \in Free
  BY <1>1, <1>2, FreeHandle DEF IInv, SessionInv, OneHandleEach
<1>4. \A g \in Free : Min(Free) <= g
  <2>1. Free \subseteq Nat /\ Free # {}
    BY <1>3, HandlesProperties
  <2> HIDE DEF Free
  <2> QED
    BY <2>1, MinOfSome
<1>5. server' = [server EXCEPT ![Min(Free)] = q]
  BY DEF Open
<1>6. PICK h \in Handles : h = Min(Free)
  BY <1>3
<1>7. server[h] = NoQuery /\ (\A g \in Handles : server[g] = NoQuery => h <= g)
  BY <1>3, <1>4, <1>6
<1> HIDE DEF Free
<1> QED
  BY <1>1, <1>5, <1>6, <1>7

\* Nobody runs beside a user in flight, and who is no page reader does not linger.
LEMMA OthersWait ==
    ASSUME Undone, Quiet, NEW u \in Users, stage[u] \in Running
    PROVE  /\ \A v \in Users : v # u => stage[v] \notin Running
           /\ \A v \in Users \ Paging : stage[v] # "resumed"
           /\ \A v \in Queries, w \in Users : step[w] > 1 => ~Overtakes(v, w)
           /\ \A v \in Queries : ~Overtakes(v, Closing)
<1>t. TypeOK /\ QueueInv /\ CallInv /\ OrderInv
  BY DEF Undone, IInv
<1>1. active # {}
  BY <1>t, RunningIsActive
<1>2. \A v \in Users : v # u => stage[v] \notin Running
  BY <1>t, OneRuns
<1>3. \A v \in Queries, w \in Users : step[w] > 1 => ~Overtakes(v, w)
  BY <1>t, <1>1, NoneOvertakes
<1>4. ASSUME NEW v \in Queries, Overtakes(v, Closing) PROVE FALSE
  <2>1. step[Closing] > 1
    BY <1>t, <1>4, WhoOvertakesWaits DEF OrderInv
  <2> QED
    BY <1>3, <1>4, <2>1, UsersProperties
<1>5. \A v \in Users \ Paging : stage[v] # "resumed"
  BY DEF Quiet, Pending
<1> QED
  BY <1>2, <1>3, <1>4, <1>5

\* A new statement comes under none of the handles close() is to close, and under
\* none that anybody still uses.
LEMMA OpenOwns ==
    ASSUME NEW q \in Queries, Undone, SweepInv, OwnInv, Quiet, Opening(q), Answering, Open(q),
           NEW new \in {"executing", "answered"}, stage' = [stage EXCEPT ![q] = new],
           \A u \in Users : u # q => handle'[u] = handle[u],
           new = "answered" => server'[handle'[q]] = q
    PROVE  SweepInv' /\ OwnInv'
<1> USE UsersProperties
<1>t. TypeOK /\ QueueInv /\ ClosingInv /\ IInv
  BY DEF Undone, IInv, CallInv
<1>1. /\ UNCHANGED <<waiting, sweep, overtaken, rivals, doing, step>>
      /\ stage[q] = "sent" /\ doing[q] = "query" /\ stage'[q] = new
      /\ \A u \in Users : u # q => stage'[u] = stage[u]
  BY <1>t, UserTypes DEF Answering, execVars, closeVars, Opening
<1>2. PICK h \in Handles : /\ server[h] = NoQuery /\ server'[h] = q
                           /\ \A g \in Handles : g # h => server'[g] = server[g]
                           /\ \A g \in Handles : server[g] = NoQuery => h <= g
  BY <1>t, OpenLowest
<1>3. stage[q] \in Running
  BY <1>1 DEF Running
<1>4. /\ \A v \in Users : v # q => stage[v] \notin Running
      /\ stage[Closing] # "resumed"
      /\ \A v \in Queries : ~Overtakes(v, Closing)
  <2>1. Closing \notin Paging
    BY HandlesAssumption DEF HandlesAssumption
  <2> QED
    BY <1>3, <2>1, OthersWait
<1>5. SweepInv'
  <2> SUFFICES ASSUME stage'[Closing] \in Live
               PROVE  /\ stage'[Closing] \in {"waiting", "sent"} => \A g \in sweep' : handle'[Closing] < g
                      /\ \A g \in ToClose' : server'[g] # NoQuery => Old(server[g])'
                      /\ \A v \in Queries \ overtaken' : Ahead(v)' =>
                            \E g \in Handles : server'[g] = NoQuery /\ \A k \in ToClose' : g < k
    BY DEF SweepInv
  <2>1. stage'[Closing] = stage[Closing] /\ handle'[Closing] = handle[Closing] /\ ToClose' = ToClose
    BY <1>1 DEF ToClose
  <2>2. stage'[Closing] \in {"waiting", "sent"} => \A g \in sweep' : handle'[Closing] < g
    BY <1>1, <2>1 DEF SweepInv
  <2>3. ASSUME NEW g \in ToClose', server'[g] # NoQuery PROVE Old(server[g])'
    <3>1. g \in ToClose /\ g \in Handles
      BY <1>t, <2>1, ToCloseHandles
    <3>2. CASE g = h
      <4>1. q \in overtaken
        <5> SUFFICES ASSUME q \notin overtaken PROVE FALSE
          OBVIOUS
        <5>1. PICK f \in Handles : server[f] = NoQuery /\ \A k \in ToClose : f < k
          BY <2>1 DEF Ahead, SweepInv
        <5>2. h <= f /\ f < h
          BY <1>2, <3>1, <3>2, <5>1
        <5>3. h \in Nat /\ f \in Nat
          BY HandlesProperties
        <5> QED
          BY <5>2, <5>3
      <4> QED
        BY <1>1, <1>2, <3>2, <4>1 DEF Old
    <3>3. CASE g # h
      <4>1. server'[g] = server[g] /\ server[g] \in Queries
        BY <1>t, <1>2, <2>3, <3>1, <3>3, TableTypes
      <4>2. Old(server[g])
        BY <2>1, <2>3, <3>1, <4>1 DEF SweepInv
      <4> QED
        BY <1>1, <4>1, <4>2 DEF Old
    <3> QED
      BY <3>2, <3>3
  <2>4. ASSUME NEW v \in Queries, Ahead(v)' PROVE FALSE
    <3>1. ~Opening(v)'
      BY <1>1, <1>4 DEF Opening, Running
    <3>2. ~Overtakes(v, Closing)'
      BY <1>1, <1>4 DEF Overtakes, Precedes
    <3>3. stage'[Closing] \notin {"answered", "resumed"}
      BY <1>4, <2>1 DEF Running
    <3> QED
      BY <2>4, <3>1, <3>2, <3>3 DEF Ahead
  <2> QED
    BY <2>2, <2>3, <2>4
<1>6. OwnInv'
  <2> SUFFICES ASSUME NEW v \in Queries, GoesOn(v)' PROVE server'[handle'[v]] = v
    BY DEF OwnInv
  <2>1. CASE v = q
    BY <1>1, <2>1 DEF GoesOn, Live
  <2>2. CASE v # q
    <3>1. GoesOn(v)
      BY <1>1, <2>2 DEF GoesOn
    <3>2. server[handle[v]] = v
      BY <3>1 DEF OwnInv, Gone
    <3>3. handle[v] \in Handles
      BY <1>t, <3>1, UserTypes DEF GoesOn
    <3> QED
      BY <1>2, <2>2, <3>2, <3>3
  <2> QED
    BY <2>1, <2>2
<1> QED
  BY <1>5, <1>6

LEMMA FirstRowsOwn ==
    ASSUME NEW q \in Queries, Undone, RowsInv, Answering, FirstRows(q), doing[q] = "query"
    PROVE  RowsInv'
<1> USE UsersProperties
<1>t. TypeOK
  BY DEF Undone, IInv
<1>1. PICK first, h : /\ handle' = [handle EXCEPT ![q] = h]
                      /\ rows' = [rows EXCEPT ![q] = RowsOf(q, 1, first)]
                      /\ given' = [given EXCEPT ![q] = RowsOf(q, 1, first)]
                      /\ stage' = [stage EXCEPT ![q] = "answered"]
  BY DEF FirstRows
<1>2. UNCHANGED doing
  BY DEF Answering
<1>3. rows'[q] = given'[q]
  BY <1>t, <1>1, UserTypes
<1> SUFFICES ASSUME NEW v \in Queries \ Paging PROVE HasItsRows(v)'
  BY DEF RowsInv
<1>4. CASE v = q
  BY <1>2, <1>3, <1>4 DEF HasItsRows
<1>5. CASE v # q
  BY <1>t, <1>1, <1>2, <1>5, UserTypes, RowsKept DEF RowsInv
<1> QED
  BY <1>4, <1>5

LEMMA QueryResponseOwns ==
    ASSUME NEW q \in Queries, Undone, OwnRowsInv, Quiet, Answering, QueryResponse(q)
    PROVE  OwnRowsInv'
<1> USE UsersProperties
<1>t. TypeOK /\ IInv
  BY DEF Undone, IInv
<1>s. Opening(q) /\ InFlight(q) /\ q \in Users
  BY DEF QueryResponse, Opening, InFlight
<1>1. CASE Refuse(q)
  BY <1>s, <1>1, RefuseOwns
<1>2. CASE Open(q) /\ FirstRows(q)
  <2> DEFINE chosen == CHOOSE g \in Handles : server'[g] = q
  <2>1. stage' = [stage EXCEPT ![q] = "answered"] /\ handle' = [handle EXCEPT ![q] = chosen]
    BY <1>2 DEF FirstRows
  <2>2. server'[chosen] = q
    <3>1. \E g \in Handles : server'[g] = q
      BY <1>t, <1>s, <1>2, OpenLowest
    <3> QED
      BY <3>1
  <2> HIDE DEF chosen
  <2>3. handle'[q] = chosen /\ \A u \in Users : u # q => handle'[u] = handle[u]
    BY <1>t, <1>s, <2>1, UserTypes
  <2>4. SweepInv' /\ OwnInv'
    BY <1>s, <1>2, <2>1, <2>2, <2>3, OpenOwns DEF OwnRowsInv
  <2>5. RowsInv'
    BY <1>s, <1>2, FirstRowsOwn DEF OwnRowsInv, Opening
  <2> QED
    BY <2>4, <2>5 DEF OwnRowsInv
<1> QED
  BY <1>1, <1>2 DEF QueryResponse

LEMMA PrepareResponseOwns ==
    ASSUME NEW q \in Queries, Undone, OwnRowsInv, Quiet, Answering, PrepareResponse(q)
    PROVE  OwnRowsInv'
<1> USE UsersProperties
<1>t. TypeOK /\ RowsInv
  BY DEF Undone, IInv, OwnRowsInv
<1>s. Opening(q) /\ InFlight(q) /\ q \in Users
  BY DEF PrepareResponse, Opening, InFlight
<1>1. CASE Refuse(q)
  BY <1>s, <1>1, RefuseOwns
<1>2. CASE /\ Open(q) /\ stage' = [stage EXCEPT ![q] = "executing"]
           /\ UNCHANGED <<handle, rows, given>>
  <2>1. SweepInv' /\ OwnInv'
    BY <1>s, <1>2, OpenOwns DEF OwnRowsInv
  <2>2. RowsInv'
    <3>1. UNCHANGED doing /\ doing[q] = "query"
      BY <1>s DEF Answering, Opening
    <3>2. \A v \in Users : stage'[v] = IF v = q THEN "executing" ELSE stage[v]
      BY <1>t, <1>2, UserTypes
    <3> QED
      BY <1>t, <1>2, <3>1, <3>2 DEF RowsInv, HasItsRows, Live
  <2> QED
    BY <2>1, <2>2 DEF OwnRowsInv
<1> QED
  BY <1>1, <1>2 DEF PrepareResponse

LEMMA ExecuteResponseOwns ==
    ASSUME NEW q \in Queries, Undone, OwnRowsInv, Answering, ExecuteResponse(q)
    PROVE  OwnRowsInv'
<1> USE UsersProperties
<1>t. TypeOK /\ CallOf(q) /\ ClosingInv /\ SweepInv /\ OwnInv /\ RowsInv
  BY DEF Undone, IInv, CallInv, OwnRowsInv
<1>s. stage[q] = "executing" /\ InFlight(q) /\ q \in Users /\ doing[q] = "query"
  BY <1>t DEF ExecuteResponse, InFlight, CallOf
<1>1. CASE Refuse(q)
  BY <1>s, <1>1, RefuseOwns
<1>2. CASE UNCHANGED serverVars /\ FirstRows(q)
  <2> DEFINE chosen == CHOOSE g \in Handles : server'[g] = q
  <2>1. stage' = [stage EXCEPT ![q] = "answered"] /\ handle' = [handle EXCEPT ![q] = chosen]
    BY <1>2 DEF FirstRows
  <2>2. UNCHANGED <<server, waiting, sweep, overtaken, rivals, doing>>
    BY <1>2 DEF serverVars, Answering, execVars, closeVars
  <2>3. server[chosen] = q
    <3>1. \E g \in Handles : server'[g] = q
      BY <1>t, <1>s, <2>2 DEF CallOf
    <3> QED
      BY <2>2, <3>1
  <2> HIDE DEF chosen
  <2>4. /\ handle'[q] = chosen /\ stage'[q] = "answered"
        /\ \A u \in Users : u # q => handle'[u] = handle[u] /\ stage'[u] = stage[u]
    BY <1>t, <1>s, <2>1, UserTypes
  <2>5. SweepInv'
    <3>1. ToClose' = ToClose
      BY <2>2, <2>4 DEF ToClose
    <3>2. \A v \in Queries : Ahead(v)' => Ahead(v)
      BY <2>2, <2>4 DEF Ahead, Opening, Overtakes, Precedes
    <3>3. \A v \in Queries : stage[v] \in {"dropped", "ok", "failed"} => stage'[v] = stage[v]
      BY <1>s, <2>4
    <3>4. /\ stage'[Closing] \in Live => stage[Closing] \in Live
          /\ stage'[Closing] \in {"waiting", "sent"} => \A h \in sweep' : handle'[Closing] < h
      BY <1>t, <2>2, <2>4 DEF SweepInv, Live
    <3> QED
      BY <1>t, <2>2, <3>1, <3>2, <3>3, <3>4, SweepStays
  <2>6. OwnInv'
    <3> SUFFICES ASSUME NEW v \in Queries, GoesOn(v)' PROVE server[handle'[v]] = v \/ Gone(v)'
      BY <2>2 DEF OwnInv
    <3>1. CASE v = q
      BY <2>3, <2>4, <3>1
    <3>2. CASE v # q
      <4>1. GoesOn(v) /\ handle'[v] = handle[v]
        BY <2>2, <2>4, <3>2 DEF GoesOn
      <4>2. Gone(v) => Gone(v)'
        BY <2>2, <2>4, <3>2 DEF Gone, Opening, Overtakes, Precedes
      <4> QED
        BY <1>t, <4>1, <4>2 DEF OwnInv
    <3> QED
      BY <3>1, <3>2
  <2>7. RowsInv'
    BY <1>t, <1>s, <1>2, FirstRowsOwn
  <2> QED
    BY <2>5, <2>6, <2>7 DEF OwnRowsInv
<1> QED
  BY <1>1, <1>2 DEF ExecuteResponse

LEMMA FetchResponseOwns ==
    ASSUME NEW q \in Queries, Undone, OwnRowsInv, Answering, FetchResponse(q)
    PROVE  OwnRowsInv'
<1> USE UsersProperties
<1>t. TypeOK /\ IInv /\ TotalInv /\ CallOf(q) /\ ClosingInv /\ SweepInv /\ OwnInv /\ RowsInv
  BY DEF Undone, IInv, CallInv, OwnRowsInv
<1>s. stage[q] = "sent" /\ doing[q] = "fetch" /\ InFlight(q) /\ q \in Users
  BY DEF FetchResponse, InFlight
<1>h. handle[q] \in Handles /\ server[handle[q]] = q
  <2>1. handle[q] \in Handles
    BY <1>t, <1>s, UserTypes DEF CallOf
  <2>2. GoesOn(q) /\ ~Gone(q)
    BY <1>s, <2>1 DEF GoesOn, Gone, Live
  <2> QED
    BY <1>t, <2>1, <2>2 DEF OwnInv
<1>1. CASE Refuse(q)
  BY <1>s, <1>1, RefuseOwns
<1>2. ASSUME ~Refuse(q) PROVE OwnRowsInv'
  <2> DEFINE h == handle[q]
             start == StartPosition(table[h])
  <2>1. /\ UNCHANGED <<server, handle, waiting, sweep, overtaken, rivals, doing>>
        /\ \E n \in 1..Min({PageSize, Rows[q] + 1 - start}) :
              /\ rows' = [rows EXCEPT ![q] = @ \o RowsOf(q, start, n)]
              /\ given' = [given EXCEPT ![q] = @ \o RowsOf(q, start, n)]
              /\ table' = [table EXCEPT ![h].cursor = @ + n]
              /\ stage' = IF q \in Paging \/ Exhausted(table'[h]) THEN [stage EXCEPT ![q] = "answered"] ELSE stage
    BY <1>h, <1>2 DEF FetchResponse, serverVars, Answering, execVars, closeVars
  <2>2. PICK n \in 1..Min({PageSize, Rows[q] + 1 - start}) :
              /\ rows' = [rows EXCEPT ![q] = @ \o RowsOf(q, start, n)]
              /\ given' = [given EXCEPT ![q] = @ \o RowsOf(q, start, n)]
              /\ table' = [table EXCEPT ![h].cursor = @ + n]
              /\ stage' = IF q \in Paging \/ Exhausted(table'[h]) THEN [stage EXCEPT ![q] = "answered"] ELSE stage
    BY <2>1
  <2>3. /\ table[h].total = Rows[q] /\ table[h].cursor = Len(given[q])
        /\ table'[h].total = table[h].total /\ table'[h].cursor = table[h].cursor + n
        /\ table[h].cursor \in Nat /\ Rows[q] \in Nat /\ PageSize \in Nat
    <3>1. /\ table \in [Handles -> [of : Queries \cup {NoQuery}, total : Nat, cursor : Nat]]
          /\ table[h].total = Rows[q] /\ table[h].cursor = Len(given[q])
      BY <1>t, <1>h, OpenIsFound, TableTypes
    <3>2. table[h].cursor \in Nat /\ Rows[q] \in Nat /\ PageSize \in Nat
      BY <1>h, <3>1, HandlesAssumption DEF HandlesAssumption
    <3> QED
      BY <1>h, <2>2, <3>1, <3>2
  <2>4. n \in Nat /\ start \in Nat \ {0}
    <3>1. Rows[q] + 1 - start \in Int /\ start \in Nat \ {0} /\ PageSize \in Int
      BY <2>3 DEF StartPosition
    <3>2. Min({PageSize, Rows[q] + 1 - start}) \in Int
      BY <3>1, MinOfTwo
    <3> QED
      BY <3>1, <3>2
  <2> HIDE DEF start
  <2>5. /\ \A v \in Users : v # q => stage'[v] = stage[v]
        /\ \/ stage'[q] = "sent"
           \/ stage'[q] = "answered" /\ (q \in Paging \/ Exhausted(table'[h]))
    BY <1>t, <1>s, <2>2, UserTypes
  <2>6. /\ rows'[q] = rows[q] \o RowsOf(q, start, n) /\ given'[q] = given[q] \o RowsOf(q, start, n)
        /\ \A v \in Queries : v # q => rows'[v] = rows[v] /\ given'[v] = given[v]
    BY <1>t, <2>2, UserTypes
  <2>7. Len(given'[q]) = Len(given[q]) + n
    <3>1. given[q] \in Seq(Queries \X Nat)
      BY <1>t, UserTypes
    <3>2. RowsOf(q, start, n) \in Seq(Queries \X Nat) /\ Len(RowsOf(q, start, n)) = n
      BY <2>4, RowsOfProperties
    <3>3. \A a, b \in Seq(Queries \X Nat) : Len(a \o b) = Len(a) + Len(b)
      OBVIOUS
    <3> QED
      BY <2>6, <3>1, <3>2, <3>3
  <2>8. SweepInv' /\ OwnInv'
    <3>1. \A v \in Users :
             /\ stage'[v] = "waiting" <=> stage[v] = "waiting"
             /\ stage'[v] = "sent" => stage[v] = "sent"
             /\ stage'[v] \in Live => stage[v] \in Live
             /\ stage[v] \in {"dropped", "ok", "failed"} => stage'[v] = stage[v]
      BY <1>s, <2>5 DEF Live
    <3>2. stage'[Closing] = stage[Closing]
      BY <2>5
    <3> QED
      BY <1>t, <2>1, <3>1, <3>2, MovesOwn
  <2>9. RowsInv'
    <3> SUFFICES ASSUME NEW v \in Queries \ Paging PROVE HasItsRows(v)'
      BY DEF RowsInv
    <3>0. HasItsRows(v)
      BY <1>t DEF RowsInv
    <3>1. CASE v = q
      <4>1. rows[q] = given[q]
        BY <1>s, <1>h, <3>0, <3>1 DEF HasItsRows, Live
      <4>2. stage'[q] = "answered" => Len(given'[q]) = Rows[q]
        BY <2>3, <2>5, <2>7, <3>1 DEF Exhausted
      <4> QED
        BY <1>s, <2>1, <2>5, <2>6, <3>1, <4>1, <4>2 DEF HasItsRows
    <3>2. CASE v # q
      BY <2>1, <2>5, <2>6, <3>0, <3>2, RowsKept
    <3> QED
      BY <3>1, <3>2
  <2> QED
    BY <2>8, <2>9 DEF OwnRowsInv
<1> QED
  BY <1>1, <1>2

LEMMA CloseQueryResponseOwns ==
    ASSUME NEW u \in Users, Undone, overtaken \cap Paging = {}, OwnRowsInv, Quiet, Answering,
           CloseQueryResponse(u)
    PROVE  OwnRowsInv'
<1> USE UsersProperties
<1>t. TypeOK /\ IInv /\ CallInv /\ ClosingInv /\ SweepInv /\ OwnInv /\ RowsInv
  BY DEF Undone, IInv, CallInv, OwnRowsInv
<1>s. stage[u] = "sent" /\ doing[u] = "closeQuery" /\ InFlight(u) /\ stage[u] \in Running
  BY DEF CloseQueryResponse, InFlight, Running
<1>h. handle[u] \in Handles
  BY <1>t, <1>s, UserTypes DEF CallInv, CallOf, ClosingInv
<1>o. /\ \A v \in Users : v # u => stage[v] \notin Running
      /\ \A v \in Users \ Paging : stage[v] # "resumed"
      /\ \A v \in Queries, w \in Users : step[w] > 1 => ~Overtakes(v, w)
  BY <1>s, OthersWait
<1>1. CASE Refuse(u)
  BY <1>s, <1>1, RefuseOwns
<1>2. CASE /\ server' = [server EXCEPT ![handle[u]] = NoQuery]
           /\ stage' = [stage EXCEPT ![u] = "answered"]
           /\ UNCHANGED <<handle, rows, given>>
  <2>1. /\ UNCHANGED <<waiting, sweep, overtaken, rivals, doing>> /\ stage'[u] = "answered"
        /\ \A v \in Users : v # u => stage'[v] = stage[v]
    BY <1>t, <1>2, UserTypes DEF Answering, execVars, closeVars
  <2>2. \A g \in Handles : server'[g] = IF g = handle[u] THEN NoQuery ELSE server[g]
    BY <1>t, <1>h, <1>2, TableTypes
  <2>3. \A v \in Queries : (Opening(v)' => Opening(v)) /\ \A w : Overtakes(v, w)' => Overtakes(v, w)
    BY <2>1 DEF Opening, Overtakes, Precedes
  <2>4. \A v \in Queries : Gone(v) /\ handle[v] \in Handles => Gone(v)'
    BY <1>s, <1>2, <2>1, <2>2, <2>3 DEF Gone
  <2>5. \A v \in Queries : GoesOn(v)' => v # u /\ GoesOn(v) /\ handle[v] \in Handles
    BY <1>t, <1>s, <1>2, <2>1, UserTypes DEF GoesOn
  <2>6. RowsInv'
    BY <1>t, <1>s, <1>2, <2>1 DEF RowsInv, HasItsRows, Live
  <2>7. \A g \in Handles : server'[g] # NoQuery => server'[g] = server[g]
    BY <2>2
  <2>8. \A v \in Queries : Old(v) => Old(v)'
    BY <1>s, <2>1 DEF Old
  <2>9. CASE u = Closing
    <3>1. stage[Closing] \in Live /\ handle[u] \in ToClose /\ (\A h \in sweep : handle[u] < h)
      BY <1>t, <1>s, <2>9 DEF Live, ToClose, SweepInv
    <3>2. ToClose' = sweep /\ sweep \subseteq ToClose
      BY <2>1, <2>9 DEF ToClose
    <3>3. SweepInv'
      <4>1. ASSUME NEW h \in ToClose', server'[h] # NoQuery PROVE Old(server[h])'
        <5>1. h \in ToClose /\ h \in Handles
          BY <1>t, <3>2, ToCloseHandles
        <5>2. server'[h] = server[h] /\ server[h] \in Queries
          BY <1>t, <2>7, <4>1, <5>1, TableTypes
        <5>3. Old(server[h])
          BY <1>t, <3>1, <4>1, <5>1, <5>2 DEF SweepInv
        <5> QED
          BY <2>8, <5>2, <5>3 DEF Old
      <4>2. server'[handle[u]] = NoQuery /\ \A h \in ToClose' : handle[u] < h
        BY <1>h, <2>2, <3>1, <3>2
      <4>3. stage'[Closing] \notin {"waiting", "sent"}
        BY <2>1, <2>9
      <4> QED
        BY <1>h, <4>1, <4>2, <4>3 DEF SweepInv
    <3>4. OwnInv'
      <4> SUFFICES ASSUME NEW v \in Queries, GoesOn(v)' PROVE server'[handle[v]] = v \/ Gone(v)'
        BY <1>2 DEF OwnInv
      <4>0. GoesOn(v) /\ handle[v] \in Handles
        BY <2>5
      <4>1. CASE handle[v] # handle[u]
        BY <1>t, <2>2, <2>4, <4>0, <4>1 DEF OwnInv
      <4>2. CASE handle[v] = handle[u]
        <5>1. server'[handle[v]] = NoQuery
          BY <1>h, <2>2, <4>2
        <5>2. CASE server[handle[v]] = v
          <6>1. Old(v)
            BY <1>t, <3>1, <4>2, <5>2 DEF SweepInv
          <6>2. v \notin Paging /\ stage[v] = "waiting" /\ doing[v] # "query"
            <7>1. v \notin Paging /\ stage[v] \in Live
              BY <4>0, <6>1 DEF Old, GoesOn, Live
            <7>2. stage[v] = "waiting"
              BY <1>o, <2>9, <7>1 DEF Live, Running
            <7> QED
              BY <1>t, <4>0, <7>1, <7>2 DEF GoesOn, CallInv, CallOf
          <6>3. step[v] > 1
            BY <6>2 DEF Undone, OrderInv
          <6>4. \A r \in Queries : ~Opening(r)' /\ ~Overtakes(r, v)'
            BY <1>o, <2>3, <2>9, <6>3 DEF Opening, Running
          <6> QED
            BY <1>2, <2>1, <2>9, <5>1, <6>2, <6>4 DEF Gone
        <5>3. CASE Gone(v)
          BY <2>4, <4>0, <5>3
        <5> QED
          BY <1>t, <4>0, <5>2, <5>3 DEF OwnInv
      <4> QED
        BY <4>1, <4>2
    <3> QED
      BY <2>6, <3>3, <3>4 DEF OwnRowsInv
  <2>10. CASE u \in Queries
    <3>1. server[handle[u]] = u
      BY <1>t, <1>s, <1>h, <2>10 DEF OwnInv, GoesOn, Gone, Live
    <3>2. /\ stage'[Closing] = stage[Closing] /\ handle'[Closing] = handle[Closing] /\ ToClose' = ToClose
      BY <1>2, <2>1, <2>10 DEF ToClose
    <3>3. SweepInv'
      <4> SUFFICES ASSUME stage[Closing] \in Live
                   PROVE  /\ \A h \in ToClose : server'[h] # NoQuery => Old(server[h])'
                          /\ \A v \in Queries \ overtaken : Ahead(v)' =>
                                \E g \in Handles : server'[g] = NoQuery /\ \A h \in ToClose : g < h
        BY <1>t, <2>1, <3>2 DEF SweepInv
      <4>1. ASSUME NEW h \in ToClose, server'[h] # NoQuery PROVE Old(server[h])'
        <5>1. h \in Handles
          BY <1>t, ToCloseHandles
        <5>2. server'[h] = server[h] /\ server[h] \in Queries
          BY <1>t, <2>7, <4>1, <5>1, TableTypes
        <5>3. Old(server[h])
          BY <1>t, <4>1, <5>2 DEF SweepInv
        <5> QED
          BY <2>8, <5>2, <5>3 DEF Old
      <4>2. ASSUME NEW v \in Queries \ overtaken, Ahead(v)'
            PROVE  \E g \in Handles : server'[g] = NoQuery /\ \A h \in ToClose : g < h
        <5>1. Ahead(v)
          BY <2>1, <2>3, <3>2, <4>2 DEF Ahead
        <5>2. PICK g \in Handles : server[g] = NoQuery /\ \A h \in ToClose : g < h
          BY <1>t, <5>1 DEF SweepInv
        <5> QED
          BY <2>2, <5>2
      <4> QED
        BY <4>1, <4>2
    <3>4. OwnInv'
      <4> SUFFICES ASSUME NEW v \in Queries, GoesOn(v)' PROVE server'[handle[v]] = v \/ Gone(v)'
        BY <1>2 DEF OwnInv
      <4>1. v # u /\ GoesOn(v) /\ handle[v] \in Handles
        BY <2>5
      <4>2. CASE server[handle[v]] = v
        BY <2>2, <3>1, <4>1, <4>2
      <4>3. CASE Gone(v)
        BY <2>4, <4>1, <4>3
      <4> QED
        BY <1>t, <4>1, <4>2, <4>3 DEF OwnInv
    <3> QED
      BY <2>6, <3>3, <3>4 DEF OwnRowsInv
  <2> QED
    BY <2>9, <2>10
<1> QED
  BY <1>1, <1>2 DEF CloseQueryResponse

LEMMA RespondOwns ==
    \A u \in Users : Undone /\ overtaken \cap Paging = {} /\ OwnRowsInv /\ Respond(u) => OwnRowsInv'
<1> SUFFICES ASSUME NEW u \in Users, Undone, overtaken \cap Paging = {}, OwnRowsInv, Respond(u) PROVE OwnRowsInv'
  OBVIOUS
<1>1. Answering /\ Quiet
  BY DEF Respond, Answering
<1> QED
  BY <1>1, QueryResponseOwns, PrepareResponseOwns, ExecuteResponseOwns, FetchResponseOwns,
     CloseQueryResponseOwns DEF Respond
-----------------------------------------------------------------------------
(* The theorem.                                                              *)

LEMMA InitUndisturbed == Init => FullInv
<1> SUFFICES ASSUME Init PROVE FullInv
  OBVIOUS
<1> USE UsersProperties
<1>1. IInv
  BY InitHolds
<1>2. /\ waiting = <<>> /\ overtaken = {}
      /\ table = [h \in Handles |-> NoPacket]
      /\ stage = [u \in Users |-> "idle"] /\ handle = [u \in Users |-> 0]
      /\ doing = [u \in Users |-> IF u = Closing THEN "closeQuery" ELSE "query"]
  BY DEF Init, Executor!Init
<1>3. OrderInv
  BY <1>2 DEF OrderInv, UrgentFirst
<1>4. TotalInv
  BY <1>2 DEF TotalInv, NoPacket
<1>5. SweepInv /\ OwnInv /\ RowsInv
  BY <1>2 DEF SweepInv, OwnInv, RowsInv, GoesOn, HasItsRows, Live
<1> QED
  BY <1>1, <1>3, <1>4, <1>5 DEF FullInv, OwnRowsInv

LEMMA StepUndisturbed == FullInv /\ [Next]_vars => FullInv'
<1> SUFFICES ASSUME FullInv, [Next]_vars PROVE FullInv'
  OBVIOUS
<1>t. Undone /\ IInv' /\ (Undisturbed => OwnRowsInv)
  BY StepHolds DEF FullInv, Undone
<1>1. CASE UNCHANGED vars
  <2>1. UNCHANGED <<waiting, active, server, losses, table, sweep, overtaken, rivals, stage, doing, step, handle, rows, given>>
    BY <1>1 DEF vars, execVars, serverVars, closeVars, userVars
  <2>2. OrderInv' /\ TotalInv'
    BY <1>t, <2>1 DEF Undone, OrderInv, UrgentFirst, TotalInv
  <2>3. OwnRowsInv => OwnRowsInv'
    BY <2>1 DEF OwnRowsInv, SweepInv, OwnInv, RowsInv, ToClose, Old, Ahead, Opening, Overtakes, Precedes,
                GoesOn, Gone, HasItsRows
  <2> QED
    BY <1>t, <2>1, <2>2, <2>3 DEF FullInv, Undisturbed
<1>2. CASE \/ \E q \in Queries : Query(q) \/ Continue(q)
           \/ \E u \in Users : Respond(u) \/ Done(u)
           \/ Start \/ Sweep
  <2>1. OrderInv' /\ TotalInv'
    BY <1>t, <1>2, QueryOrdered, ContinueOrdered, RespondOrdered, RespondTotals, DoneOrdered, StartOrdered,
       SweepOrdered
  <2>2. UNCHANGED <<losses, overtaken>>
    <3>1. ASSUME NEW u \in Users, Respond(u) PROVE UNCHANGED <<losses, overtaken>>
      BY <3>1 DEF Respond, closeVars, serverVars, QueryResponse, PrepareResponse, ExecuteResponse,
                  FetchResponse, CloseQueryResponse, Refuse
    <3>2. CASE \/ \E q \in Queries : Query(q) \/ Continue(q)
               \/ \E u \in Users : Done(u)
               \/ Start \/ Sweep
      BY <3>2 DEF Query, Continue, Done, Start, Sweep, closeVars, serverVars
    <3> QED
      BY <1>2, <3>1, <3>2
  <2>3. Undisturbed => OwnRowsInv'
    BY <1>t, <1>2, QueryOwns, ContinueOwns, RespondOwns, DoneOwns, StartOwns, SweepOwns DEF Undisturbed
  <2> QED
    BY <1>t, <2>1, <2>2, <2>3 DEF FullInv, Undone, Undisturbed
<1>3. CASE Close
  <2>1. OrderInv' /\ TotalInv' /\ UNCHANGED losses
    BY <1>t, <1>3, CloseOrdered DEF Close, serverVars
  <2>2. losses = 0 => Undisturbed
    BY <1>t, <1>3 DEF Close, Undone, OrderInv, Undisturbed
  <2> QED
    BY <1>t, <1>3, <2>1, <2>2, CloseOwns DEF FullInv, Undone, Undisturbed
<1>4. CASE SocketError \/ SocketEnd \/ CloseResponse
  <2>1. /\ UNCHANGED <<waiting, active, doing, step, overtaken>> /\ losses' = losses + 1 /\ losses \in Nat
        /\ UNCHANGED table \/ \E u \in Users : Forget(u)
    BY <1>t, <1>4, HandlesAssumption
       DEF HandlesAssumption, Undone, IInv, TypeOK, SocketError, SocketEnd, Lose, CloseQueryByLoss,
           CloseResponse, EndSession, execVars, closeVars
  <2>2. stage'[Closing] \in {"waiting", "idle"} => stage'[Closing] = stage[Closing]
    <3>1. CASE \/ \E end \in {"ok", "failed"} : stage' = [stage EXCEPT ![Closing] = end]
               \/ stage' = [stage EXCEPT ![Closing] = IF @ = "closing" THEN "failed" ELSE @]
      BY <1>t, <3>1, UserTypes, UsersProperties DEF Undone, IInv
    <3>2. CASE \E u \in Users : stage' = [stage EXCEPT ![u] = "answered"] \/ stage' = [stage EXCEPT ![u] = "refused"]
      BY <1>t, <3>2, UserTypes, UsersProperties DEF Undone, IInv
    <3>3. CASE stage' = [u \in Users |-> IF InFlight(u) THEN "cut"
                                        ELSE IF stage[u] = "closing" THEN "hung" ELSE stage[u]]
      BY <3>3, UsersProperties
    <3> QED
      BY <1>4, <3>1, <3>2, <3>3 DEF SocketError, SocketEnd, CloseQueryByLoss, CloseResponse
  <2>3. OrderInv'
    BY <1>t, <2>1, <2>2, OrderKept DEF Undone
  <2>4. TotalInv'
    <3>1. NoPacket.of = NoQuery
      BY DEF NoPacket
    <3>2. \A u \in Users : Forget(u) => TotalInv'
      BY <1>t, <3>1, TotalsKept DEF Undone, IInv, Forget
    <3> QED
      BY <1>t, <2>1, <3>2 DEF Undone, TotalInv
  <2>5. losses' # 0
    BY <2>1
  <2> QED
    BY <1>t, <2>3, <2>4, <2>5 DEF FullInv, Undisturbed
<1> QED
  BY <1>1, <1>2, <1>3, <1>4 DEF Next

\* A queryAll() that succeeds gives all rows of its statement, in order, and no
\* others, whatever calls and whatever close() come between, as long as no session
\* is lost and close() overtakes nobody who pages.
THEOREM AllRowsRead == Spec => []AllRowsUnlessLost
<1>1. FullInv => AllRowsUnlessLost
  BY DEF FullInv, Undisturbed, OwnRowsInv, RowsInv, HasItsRows, AllRowsUnlessLost, AllRows, IInv, CallInv, CallOf
<1> QED
  BY <1>1, InitUndisturbed, StepUndisturbed, PTL DEF Spec
=============================================================================

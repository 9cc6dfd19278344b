------------------------- MODULE LobTransferProofs --------------------------
(***************************************************************************)
(* Proofs about lobWrite() and lobRead(), for every size of the requests,   *)
(* every length of the data and any number of calls.                        *)
(***************************************************************************)
EXTENDS LobTransfer, SequenceTheorems, TLAPS

\* A write under way began at the end of the LOB and has not sent all its data;
\* in an empty LOB, what it has transferred is stored.
WriteInv ==
    call = "write" =>
        /\ calls > 0
        /\ start = lobLength
        /\ offset = start + total
        /\ offset <= Len(stored)
        /\ total < length
        /\ start = 0 => \A i \in 1..total : stored[i] = <<calls, i>>

\* A read under way has what it has transferred, from the content that succeeded
\* writes left, and will not ask for more than that.
ReadInv ==
    call = "read" =>
        /\ offset = start + total
        /\ offset <= lobLength
        /\ total <= length => start + length <= lobLength
        /\ phase = "sent" => total <= length
        /\ Len(buffers) = total
        /\ \A i \in 1..total : buffers[i] = written[start + i]

IInv == TypeOK /\ LengthIsStored /\ ReadBack /\ WriteInv /\ ReadInv
-----------------------------------------------------------------------------

\* Min of FiniteSetsExt, as the driver uses it: on two numbers.
LEMMA MinOfTwo ==
    ASSUME NEW a \in Int, NEW b \in Int
    PROVE  Min({a, b}) = IF a <= b THEN a ELSE b
  BY DEF Min

\* What Buffer.slice(first, past) returns, past the end of the data too.
LEMMA SliceProperties ==
    ASSUME NEW S, NEW data \in Seq(S), NEW first \in Nat, NEW past \in Nat, first <= past
    PROVE  /\ Slice(data, first, past) \in Seq(S)
           /\ Len(Slice(data, first, past)) =
                 IF past <= Len(data) THEN past - first
                 ELSE IF first <= Len(data) THEN Len(data) - first ELSE 0
           /\ \A i \in 1..Len(Slice(data, first, past)) :
                 Slice(data, first, past)[i] = data[first + i]
<1> DEFINE end == IF past <= Len(data) THEN past ELSE Len(data)
<1>1. Slice(data, first, past) = SubSeq(data, first + 1, end)
  BY MinOfTwo, LenProperties DEF Slice
<1>2. end \in Nat /\ \A i \in (first + 1)..end : data[i] \in S
  BY LenProperties
<1> HIDE DEF end
<1>3. /\ SubSeq(data, first + 1, end) \in Seq(S)
      /\ Len(SubSeq(data, first + 1, end)) = IF first + 1 <= end THEN end - (first + 1) + 1 ELSE 0
      /\ \A i \in 1..(end - (first + 1) + 1) : SubSeq(data, first + 1, end)[i] = data[(first + 1) + i - 1]
  BY <1>2, SubSeqProperties
<1> QED
  BY <1>1, <1>2, <1>3, LenProperties DEF end

\* IsPrefix, index by index.
LEMMA PrefixIsPointwise ==
    ASSUME NEW S, NEW s \in Seq(S), NEW t \in Seq(S)
    PROVE  IsPrefix(s, t) <=> Len(s) <= Len(t) /\ \A i \in 1..Len(s) : s[i] = t[i]
  BY SubSeqProperties, LenProperties, SeqEqual DEF IsPrefix

\* Slicing from an index to itself gives nothing.
LEMMA EmptySlice ==
    ASSUME NEW S, NEW data \in Seq(S), NEW at \in Nat
    PROVE  Slice(data, at, at) = <<>>
  BY SliceProperties, LenProperties, SeqEqual, EmptySeq

\* The data of the latest call.
LEMMA DataProperties ==
    ASSUME TypeOK, calls > 0, NEW n \in 0..MaxLength
    PROVE  /\ Data(n) \in Seq(Bytes)
           /\ Len(Data(n)) = n
           /\ \A i \in 1..n : Data(n)[i] = <<calls, i>>
  BY LobAssumption DEF Data, TypeOK, Bytes

\* What is stored where bytes were written over the content at an offset.
LEMMA OverwrittenProperties ==
    ASSUME NEW S, NEW content \in Seq(S), NEW bytes \in Seq(S), NEW at \in 0..Len(content)
    PROVE  /\ Overwritten(content, at, bytes) \in Seq(S)
           /\ Len(Overwritten(content, at, bytes)) =
                 IF at + Len(bytes) <= Len(content) THEN Len(content) ELSE at + Len(bytes)
           /\ \A i \in 1..Len(Overwritten(content, at, bytes)) :
                 Overwritten(content, at, bytes)[i] =
                    IF i \in (at + 1)..(at + Len(bytes)) THEN bytes[i - at] ELSE content[i]
<1> DEFINE before == SubSeq(content, 1, at)
           behind == SubSeq(content, at + Len(bytes) + 1, Len(content))
<1>1. /\ before \in Seq(S) /\ Len(before) = at
      /\ \A i \in 1..at : before[i] = content[i]
  BY SubSeqProperties, LenProperties
<1>2. /\ behind \in Seq(S)
      /\ Len(behind) = IF at + Len(bytes) <= Len(content) THEN Len(content) - at - Len(bytes) ELSE 0
      /\ \A i \in 1..Len(behind) : behind[i] = content[at + Len(bytes) + i]
  BY SubSeqProperties, LenProperties
<1> HIDE DEF before, behind
<1> DEFINE head == before \o bytes
<1>3. /\ head \in Seq(S) /\ Len(head) = at + Len(bytes)
      /\ \A i \in 1..(at + Len(bytes)) : head[i] = IF i <= at THEN before[i] ELSE bytes[i - at]
  BY <1>1, ConcatProperties
<1>4. Overwritten(content, at, bytes) = head \o behind
  BY DEF Overwritten, before, behind
<1> HIDE DEF head
<1>5. /\ head \o behind \in Seq(S)
      /\ Len(head \o behind) = Len(head) + Len(behind)
      /\ \A i \in 1..(Len(head) + Len(behind)) :
            (head \o behind)[i] = IF i <= Len(head) THEN head[i] ELSE behind[i - Len(head)]
  BY <1>2, <1>3, ConcatProperties
<1>6. Len(bytes) \in Nat /\ Len(content) \in Nat
  BY LenProperties
<1>7. Len(head \o behind) = IF at + Len(bytes) <= Len(content) THEN Len(content) ELSE at + Len(bytes)
  <2>1. /\ Len(head \o behind) = at + Len(bytes) + Len(behind)
        /\ Len(behind) = IF at + Len(bytes) <= Len(content) THEN Len(content) - at - Len(bytes) ELSE 0
    BY <1>2, <1>3, <1>5
  <2>2. \A a, b, c \in Nat : a + b + (IF a + b <= c THEN c - a - b ELSE 0) =
                               IF a + b <= c THEN c ELSE a + b
    OBVIOUS
  <2>3. at \in Nat
    BY <1>6
  <2> QED
    BY <1>6, <2>1, <2>2, <2>3, Zenon
<1>8. ASSUME NEW i \in 1..Len(head \o behind)
      PROVE  (head \o behind)[i] =
                IF i \in (at + 1)..(at + Len(bytes)) THEN bytes[i - at] ELSE content[i]
  <2>1. CASE i <= at
    BY <1>1, <1>3, <1>5, <1>6, <1>7, <2>1
  <2>2. CASE i \in (at + 1)..(at + Len(bytes))
    BY <1>3, <1>5, <1>6, <1>7, <2>2
  <2>3. CASE i > at + Len(bytes)
    <3>1. i - Len(head) \in 1..Len(behind)
      <4>1. /\ i \in 1..(Len(head) + Len(behind)) /\ Len(head) = at + Len(bytes)
            /\ Len(behind) \in Nat
        BY <1>2, <1>3, <1>5, LenProperties
      <4> QED
        BY <1>6, <2>3, <4>1
    <3>2. at + Len(bytes) + (i - Len(head)) = i
      BY <1>3, <1>6
    <3> QED
      <4>1. (head \o behind)[i] = behind[i - Len(head)]
        BY <1>6, <2>3, <3>1, <1>2, <1>3, <1>5
      <4>2. behind[i - Len(head)] = content[at + Len(bytes) + (i - Len(head))]
        BY <1>2, <1>3, <1>5, <3>1
      <4> QED
        BY <1>6, <2>3, <3>2, <4>1, <4>2
  <2> QED
    BY <1>6, <1>7, <2>1, <2>2, <2>3
<1> QED
  BY <1>4, <1>5, <1>7, <1>8

-----------------------------------------------------------------------------
\* The inductive invariant holds in every state lobWrite() and lobRead() reach.
THEOREM InvariantHolds == Spec => []IInv
<1> USE LobAssumption
<1>1. Init => IInv
  BY DEF Init, IInv, TypeOK, LengthIsStored, ReadBack, WriteInv, ReadInv, IsPrefix, NoAnswer
<1>2. IInv /\ [Next]_vars => IInv'
  <2> SUFFICES ASSUME IInv, [Next]_vars PROVE IInv'
    OBVIOUS
  <2>0. TypeOK /\ LengthIsStored /\ ReadBack /\ WriteInv /\ ReadInv
    BY DEF IInv
  <2>t. /\ stored \in Seq(Bytes) /\ written \in Seq(Bytes) /\ buffers \in Seq(Bytes)
        /\ Len(stored) \in Nat /\ Len(written) \in Nat /\ Len(buffers) \in Nat
        /\ lobLength \in Nat /\ calls \in 0..MaxCalls /\ length \in 0..MaxLength
        /\ start \in Nat /\ offset \in Nat /\ total \in Nat
        /\ calls \in Nat /\ length \in Nat /\ MaxIO \in Nat
    BY <2>0, LenProperties DEF TypeOK
  <2>e. /\ <<>> \in Seq(Bytes) /\ Len(<<>>) = 0
        /\ \A at \in Nat : <<>> = Slice(written, at, at + Len(<<>>))
    <3>1. \A at \in Nat : <<>> = Slice(written, at, at)
      BY <2>t, EmptySlice
    <3>2. \A at \in Nat : at + Len(<<>>) = at
      OBVIOUS
    <3> QED
      BY <3>1, <3>2
  <2>p. Len(written) <= Len(stored) /\ lobLength = Len(written)
        /\ \A i \in 1..Len(written) : written[i] = stored[i]
    BY <2>0, <2>t, PrefixIsPointwise DEF LengthIsStored
  <2>1. ASSUME NEW n \in 0..MaxLength, NEW at \in 0..MaxLength, Write(n, at) PROVE IInv'
    <3>1. CASE Refused(at)
      BY <2>0, <2>1, <3>1 DEF Write, Refused, callVars, IInv, TypeOK, LengthIsStored, ReadBack,
                              WriteInv, ReadInv
    <3>2. CASE InSequence(at) /\ Accepted("write", n, at)
      <4>1. TypeOK'
        <5>1. /\ at \in Nat /\ n \in 0..MaxLength /\ calls' \in 0..MaxCalls
              /\ answer' \in [status : {"none", "ok", "error"}, from : Nat, data : Seq(Bytes)]
          <6>1. at \in Nat /\ calls' \in 0..MaxCalls
            BY <2>t, <2>1, <3>2 DEF Write
          <6>2. answer' = [status |-> "ok", from |-> at, data |-> <<>>] \/ answer' = NoAnswer
            BY <3>2 DEF Accepted
          <6>3. <<>> \in Seq(Bytes) /\ 0 \in Nat
            BY <2>e
          <6>4. CASE answer' = NoAnswer
            BY <6>1, <6>3, <6>4, Zenon DEF NoAnswer
          <6>5. CASE answer' = [status |-> "ok", from |-> at, data |-> <<>>]
            BY <6>1, <6>3, <6>5, Zenon
          <6> QED
            BY <6>1, <6>2, <6>4, <6>5
        <5> QED
          BY <2>0, <2>e, <2>1, <3>2, <5>1 DEF Write, Accepted, TypeOK, Bytes
      <4>2. LengthIsStored'
        BY <2>0, <2>1, <3>2 DEF Write, Accepted, LengthIsStored
      <4>3. ReadBack'
        BY <2>1, <2>e, <3>2 DEF Write, Accepted, ReadBack, NoAnswer
      <4>4. WriteInv'
        BY <2>1, <2>t, <2>p, <3>2 DEF Write, Accepted, InSequence, WriteInv
      <4>5. ReadInv'
        BY <2>1, <3>2 DEF Accepted, ReadInv
      <4> QED
        BY <4>1, <4>2, <4>3, <4>4, <4>5 DEF IInv
    <3> QED
      BY <2>1, <3>1, <3>2 DEF Write
  <2>2. ASSUME NEW n \in 0..MaxLength, NEW at \in 0..MaxLength, Read(n, at) PROVE IInv'
    <3>1. CASE Refused(at)
      BY <2>0, <2>2, <3>1 DEF Read, Refused, callVars, IInv, TypeOK, LengthIsStored, ReadBack,
                              WriteInv, ReadInv
    <3>2. CASE Stored(n, at) /\ Accepted("read", n, at)
      <4>1. TypeOK'
        <5>1. /\ at \in Nat /\ n \in 0..MaxLength /\ calls' \in 0..MaxCalls
              /\ answer' \in [status : {"none", "ok", "error"}, from : Nat, data : Seq(Bytes)]
          <6>1. at \in Nat /\ calls' \in 0..MaxCalls
            BY <2>t, <2>2, <3>2 DEF Read
          <6>2. answer' = [status |-> "ok", from |-> at, data |-> <<>>] \/ answer' = NoAnswer
            BY <3>2 DEF Accepted
          <6>3. <<>> \in Seq(Bytes) /\ 0 \in Nat
            BY <2>e
          <6>4. CASE answer' = NoAnswer
            BY <6>1, <6>3, <6>4, Zenon DEF NoAnswer
          <6>5. CASE answer' = [status |-> "ok", from |-> at, data |-> <<>>]
            BY <6>1, <6>3, <6>5, Zenon
          <6> QED
            BY <6>1, <6>2, <6>4, <6>5
        <5> QED
          BY <2>0, <2>e, <2>2, <3>2, <5>1 DEF Read, Accepted, TypeOK, Bytes
      <4>2. LengthIsStored'
        BY <2>0, <2>2, <3>2 DEF Read, Accepted, LengthIsStored
      <4>3. ReadBack'
        BY <2>2, <2>e, <3>2 DEF Read, Accepted, ReadBack, NoAnswer
      <4>4. WriteInv'
        BY <2>2, <3>2 DEF Accepted, WriteInv
      <4>5. ReadInv'
        BY <2>2, <2>t, <2>e, <3>2 DEF Read, Accepted, Stored, ReadInv
      <4> QED
        BY <4>1, <4>2, <4>3, <4>4, <4>5 DEF IInv
    <3> QED
      BY <2>2, <3>1, <3>2 DEF Read
  <2>3. CASE WriteResponse
    <3> DEFINE size == Min({length, MaxIO})
               bytes == NextBytes(size)
    <3>0. /\ call = "write" /\ calls \in 1..MaxCalls
          /\ start = lobLength /\ offset = start + total /\ offset <= Len(stored)
          /\ total < length
          /\ start = 0 => \A i \in 1..total : stored[i] = <<calls, i>>
      <4>1. call = "write"
        BY <2>3 DEF WriteResponse
      <4> QED
        BY <2>0, <2>t, <4>1 DEF WriteInv
    <3>1. size \in Nat /\ size <= length
      BY <2>t, MinOfTwo
    <3>2. Data(length) \in Seq(Bytes) /\ Len(Data(length)) = length
          /\ \A i \in 1..length : Data(length)[i] = <<calls, i>>
      BY <2>0, <2>t, <3>0, DataProperties
    <3>3. /\ bytes \in Seq(Bytes)
          /\ Len(bytes) \in Nat
          /\ offset + Len(bytes) <= length \/ Len(bytes) = 0
          /\ \A i \in 1..Len(bytes) : bytes[i] = <<calls, offset + i>>
      <4> HIDE DEF size
      <4>1. /\ offset + size \in Nat /\ offset <= offset + size
            /\ bytes = Slice(Data(length), offset, offset + size)
        BY <2>t, <3>1 DEF NextBytes
      <4>d. /\ Slice(Data(length), offset, offset + size) \in Seq(Bytes)
            /\ Len(Slice(Data(length), offset, offset + size)) =
                  IF offset + size <= Len(Data(length)) THEN (offset + size) - offset
                  ELSE IF offset <= Len(Data(length)) THEN Len(Data(length)) - offset ELSE 0
            /\ \A i \in 1..Len(Slice(Data(length), offset, offset + size)) :
                  Slice(Data(length), offset, offset + size)[i] = Data(length)[offset + i]
        <5>1. /\ Data(length) \in Seq(Bytes)
              /\ offset \in Nat /\ offset + size \in Nat /\ offset <= offset + size
          BY <2>t, <3>2, <4>1
        <5> QED
          BY <5>1, SliceProperties
      <4>2. /\ bytes \in Seq(Bytes)
            /\ Len(bytes) = IF offset + size <= length THEN (offset + size) - offset
                            ELSE IF offset <= length THEN length - offset ELSE 0
            /\ \A i \in 1..Len(bytes) : bytes[i] = Data(length)[offset + i]
        BY <3>2, <4>1, <4>d
      <4> HIDE DEF bytes
      <4>3. Len(bytes) \in Nat /\ (offset + Len(bytes) <= length \/ Len(bytes) = 0)
        BY <2>t, <3>1, <4>2
      <4>4. \A i \in 1..Len(bytes) : offset + i \in 1..length
        BY <2>t, <4>3
      <4> QED
        BY <3>2, <4>2, <4>3, <4>4
    <3>4. PICK k \in IF bytes = <<>> THEN {0} ELSE 1..Len(bytes) :
             /\ stored' = Overwritten(stored, offset, SubSeq(bytes, 1, k))
             /\ offset' = offset + k
             /\ total' = total + k
      BY <2>3 DEF WriteResponse
    <3> HIDE DEF bytes, size
    <3>5. k \in 0..Len(bytes) /\ k \in Nat
      BY <3>3
    <3>6. stored' \in Seq(Bytes) /\ Len(stored') \in Nat
          /\ Len(stored') >= offset + k /\ Len(stored') >= Len(stored)
          /\ \A i \in 1..Len(stored') :
                stored'[i] = IF i \in (offset + 1)..(offset + k) THEN <<calls, i>> ELSE stored[i]
      <4> DEFINE part == SubSeq(bytes, 1, k)
      <4>1. part \in Seq(Bytes) /\ Len(part) = k /\ \A i \in 1..k : part[i] = <<calls, offset + i>>
        BY <3>3, <3>5, SubSeqProperties
      <4> HIDE DEF part
      <4>2. offset \in 0..Len(stored)
        BY <2>t, <3>0
      <4>3. stored' = Overwritten(stored, offset, part)
        BY <3>4 DEF part
      <4>o. /\ Overwritten(stored, offset, part) \in Seq(Bytes)
            /\ Len(Overwritten(stored, offset, part)) =
                  IF offset + Len(part) <= Len(stored) THEN Len(stored) ELSE offset + Len(part)
            /\ \A i \in 1..Len(Overwritten(stored, offset, part)) :
                  Overwritten(stored, offset, part)[i] =
                      IF i \in (offset + 1)..(offset + Len(part)) THEN part[i - offset] ELSE stored[i]
        <5>1. stored \in Seq(Bytes) /\ part \in Seq(Bytes) /\ offset \in 0..Len(stored)
          BY <2>t, <4>1, <4>2
        <5> QED
          BY <5>1, OverwrittenProperties
      <4>4. /\ stored' \in Seq(Bytes)
            /\ Len(stored') = IF offset + k <= Len(stored) THEN Len(stored) ELSE offset + k
            /\ \A i \in 1..Len(stored') :
                  stored'[i] = IF i \in (offset + 1)..(offset + k) THEN part[i - offset]
                               ELSE stored[i]
        BY <4>1, <4>3, <4>o
      <4>5. Len(stored') \in Nat /\ Len(stored') >= offset + k /\ Len(stored') >= Len(stored)
        BY <2>t, <3>5, <4>4
      <4>6. \A i \in (offset + 1)..(offset + k) : part[i - offset] = <<calls, i>>
        <5> SUFFICES ASSUME NEW i \in (offset + 1)..(offset + k)
                     PROVE  part[i - offset] = <<calls, i>>
          OBVIOUS
        <5>1. i - offset \in 1..k /\ offset + (i - offset) = i
          BY <2>t, <3>5
        <5> QED
          BY <4>1, <5>1
      <4> QED
        BY <4>4, <4>5, <4>6
    <3>t. /\ offset' \in Nat /\ total' \in Nat /\ offset' = start + total'
          /\ offset' <= Len(stored')
      BY <2>t, <3>0, <3>4, <3>5, <3>6
    <3>w. start = 0 => \A i \in 1..total' : stored'[i] = <<calls, i>>
      <4> SUFFICES ASSUME start = 0, NEW i \in 1..total' PROVE stored'[i] = <<calls, i>>
        OBVIOUS
      <4>1. /\ offset = total /\ total' = total + k /\ i \in Nat
            /\ i \in 1..total \/ i \in (offset + 1)..(offset + k)
            /\ i \in 1..Len(stored')
        BY <2>t, <3>0, <3>4, <3>5, <3>6, <3>t
      <4>2. i \in 1..total => i \notin (offset + 1)..(offset + k)
        BY <2>t, <4>1
      <4> QED
        BY <3>0, <3>6, <4>1, <4>2
    <3>7. CASE total' >= length
      <4>1. /\ lobLength' = offset'
            /\ written' = Slice(written, 0, start) \o Data(length)
            /\ call' = "none" /\ phase' = "none"
            /\ answer' = [status |-> "ok", from |-> start, data |-> <<>>]
            /\ UNCHANGED <<calls, start, length, buffers>>
        BY <2>3, <3>7 DEF WriteResponse, Finish, Answer
      <4>2. start = 0 /\ offset' = length
        <5>1. k # 0
          BY <2>t, <3>0, <3>4, <3>7
        <5>2. k <= Len(bytes) /\ offset + k <= length
          BY <2>t, <3>3, <3>5, <5>1
        <5> QED
          BY <2>t, <3>0, <3>4, <3>5, <3>7, <5>2
      <4>3. Slice(written, 0, start) = <<>>
        BY <2>t, <4>2, EmptySlice
      <4>4. written' = Data(length)
        BY <3>2, <4>1, <4>3, ConcatEmptySeq
      <4>5. LengthIsStored'
        <5>1. \A i \in 1..length : written'[i] = stored'[i]
          <6>1. \A i \in 1..total' : stored'[i] = <<calls, i>>
            BY <3>w, <4>2
          <6>2. total' = length
            <7>1. total' \in Nat /\ start = 0 /\ length = 0 + total'
              BY <3>t, <4>2
            <7>2. \A t \in Nat : 0 + t = t
              OBVIOUS
            <7> QED
              BY <7>1, <7>2, Zenon
          <6> QED
            BY <3>2, <4>4, <6>1, <6>2
        <5>2. IsPrefix(written', stored')
          BY <3>2, <3>6, <3>t, <4>2, <4>4, <5>1, PrefixIsPointwise
        <5> QED
          BY <3>2, <4>1, <4>2, <4>4, <5>2 DEF LengthIsStored
      <4>6. ReadBack'
        <5>1. Slice(written', start, start) = <<>> /\ start + Len(<<>>) = start
          BY <2>t, <3>2, <4>4, EmptySlice
        <5> QED
          BY <4>1, <5>1 DEF ReadBack
      <4>7. TypeOK'
        BY <2>0, <2>t, <2>e, <3>2, <3>6, <3>t, <4>1, <4>4 DEF TypeOK, Bytes
      <4> QED
        BY <4>1, <4>5, <4>6, <4>7 DEF IInv, WriteInv, ReadInv
    <3>8. CASE ~(total' >= length)
      <4>1. UNCHANGED <<lobLength, written, call, phase, answer, calls, start, length, buffers>>
        BY <2>3, <3>8 DEF WriteResponse
      <4>2. IsPrefix(written, stored')
        <5>1. \A i \in 1..Len(written) : i \notin (offset + 1)..(offset + k) /\ i \in 1..Len(stored')
          BY <2>t, <2>p, <3>0, <3>5, <3>6
        <5>2. \A i \in 1..Len(written) : written[i] = stored'[i]
          BY <2>p, <3>6, <5>1
        <5>3. Len(written) <= Len(stored')
          BY <2>t, <2>p, <3>6
        <5> QED
          BY <2>t, <3>6, <5>2, <5>3, PrefixIsPointwise
      <4>3. WriteInv'
        <5>1. calls > 0 /\ total' < length
          BY <2>t, <3>0, <3>t, <3>8
        <5> QED
          BY <3>0, <3>t, <3>w, <4>1, <5>1 DEF WriteInv
      <4>4. TypeOK'
        BY <2>0, <3>6, <3>t, <4>1 DEF TypeOK, Bytes
      <4> QED
        BY <2>0, <3>0, <4>1, <4>2, <4>3, <4>4 DEF IInv, LengthIsStored, ReadBack, ReadInv
    <3> QED
      BY <3>7, <3>8
  <2>4. CASE ReadResponse
    <3>0. /\ call = "read" /\ phase = "sent" /\ phase' = "due"
          /\ UNCHANGED <<stored, lobLength, calls, call, start, written, answer>>
      BY <2>4 DEF ReadResponse
    <3>1. /\ offset = start + total /\ offset <= lobLength
          /\ total <= length /\ start + length <= lobLength
          /\ Len(buffers) = total
          /\ \A i \in 1..total : buffers[i] = written[start + i]
      BY <2>0, <3>0 DEF ReadInv
    <3>2. PICK k \in 0..Min({length - total, Len(stored) - offset}) :
             /\ offset' = offset + k
             /\ total' = total + k
             /\ length' = UnlessEmpty(k)
             /\ buffers' = buffers \o SubSeq(stored, offset + 1, offset + k)
      BY <2>4 DEF ReadResponse
    <3>3. k \in Nat /\ k <= length - total /\ k <= Len(stored) - offset
      <4>1. length - total \in Int /\ Len(stored) - offset \in Int
        BY <2>t
      <4> QED
        BY <4>1, MinOfTwo
    <3> DEFINE more == SubSeq(stored, offset + 1, offset + k)
    <3>4. more \in Seq(Bytes) /\ Len(more) = k /\ \A i \in 1..k : more[i] = stored[offset + i]
      <4>1. offset + 1 \in 1..(Len(stored) + 1) /\ offset + k \in 0..Len(stored)
        BY <2>t, <2>p, <3>1, <3>3
      <4>2. \A a, b \in Nat : /\ (IF a + 1 <= a + b THEN (a + b) - (a + 1) + 1 ELSE 0) = b
                             /\ (a + b) - (a + 1) + 1 = b
                             /\ \A i \in 1..b : (a + 1) + i - 1 = a + i
        OBVIOUS
      <4>3. \A i \in (offset + 1)..(offset + k) : stored[i] \in Bytes
        BY <2>t, <4>1, LenProperties
      <4>4. /\ more \in Seq(Bytes)
            /\ Len(more) = IF offset + 1 <= offset + k THEN (offset + k) - (offset + 1) + 1 ELSE 0
            /\ \A i \in 1..((offset + k) - (offset + 1) + 1) :
                  more[i] = stored[(offset + 1) + i - 1]
        BY <2>t, <3>3, <4>1, <4>3, SubSeqProperties
      <4> HIDE DEF more
      <4> QED
        BY <2>t, <3>3, <4>2, <4>4
    <3> HIDE DEF more
    <3>5. /\ buffers' \in Seq(Bytes)
          /\ Len(buffers') = total + k
          /\ \A i \in 1..(total + k) : buffers'[i] = IF i <= total THEN buffers[i] ELSE more[i - total]
      <4>1. buffers' = buffers \o more
        BY <3>2 DEF more
      <4> QED
        <5>1. /\ buffers \o more \in Seq(Bytes)
              /\ Len(buffers \o more) = Len(buffers) + Len(more)
              /\ \A i \in 1..(Len(buffers) + Len(more)) :
                    (buffers \o more)[i] = IF i <= Len(buffers) THEN buffers[i]
                                           ELSE more[i - Len(buffers)]
          BY <2>t, <3>4, ConcatProperties
        <5> QED
          BY <3>1, <3>4, <4>1, <5>1
    <3>6. /\ offset' \in Nat /\ total' \in Nat /\ length' \in 0..MaxLength
          /\ offset' = start + total' /\ offset' <= lobLength
          /\ total' <= length' => start + length' <= lobLength
      BY <2>t, <3>1, <3>2, <3>3 DEF UnlessEmpty
    <3>7. \A i \in 1..(total + k) : buffers'[i] = written[start + i]
      <4> SUFFICES ASSUME NEW i \in 1..(total + k) PROVE buffers'[i] = written[start + i]
        OBVIOUS
      <4>1. CASE i <= total
        BY <2>t, <3>1, <3>3, <3>5, <4>1
      <4>2. CASE i > total
        <5>1. i - total \in 1..k /\ offset + (i - total) = start + i /\ start + i \in 1..Len(written)
          BY <2>t, <2>p, <3>1, <3>2, <3>3, <3>6, <4>2
        <5>2. ~(i <= total)
          BY <2>t, <3>3, <4>2
        <5> QED
          BY <2>p, <3>4, <3>5, <5>1, <5>2
      <4> QED
        BY <2>t, <3>3, <4>1, <4>2
    <3>8. TypeOK'
      BY <2>0, <3>0, <3>5, <3>6 DEF TypeOK, Bytes
    <3>9. ReadInv'
      BY <3>0, <3>2, <3>5, <3>6, <3>7 DEF ReadInv
    <3> QED
      BY <2>0, <3>0, <3>8, <3>9 DEF IInv, LengthIsStored, ReadBack, WriteInv
  <2>5. CASE ContinueReading
    <3>1. CASE length <= total
      <4>1. /\ call = "read" /\ call' = "none" /\ phase' = "none"
            /\ answer' = [status |-> "ok", from |-> start, data |-> buffers]
            /\ UNCHANGED <<stored, lobLength, calls, start, offset, length, total, buffers,
                           written>>
        BY <2>5, <3>1 DEF ContinueReading, Finish, Answer
      <4>2. buffers = Slice(written, start, start + Len(buffers))
        <5> DEFINE s == Slice(written, start, start + Len(buffers))
        <5>1. Len(buffers) = total /\ start + total <= Len(written)
              /\ \A i \in 1..total : buffers[i] = written[start + i]
          BY <2>0, <2>p, <4>1 DEF ReadInv
        <5>2. start + Len(buffers) \in Nat /\ start <= start + Len(buffers)
              /\ (start + Len(buffers)) - start = total
          BY <2>t, <5>1
        <5>3. s \in Seq(Bytes) /\ Len(s) = total
              /\ \A i \in 1..Len(s) : s[i] = written[start + i]
          BY <2>t, <5>1, <5>2, SliceProperties
        <5> HIDE DEF s
        <5>4. buffers = s
          BY <2>t, <5>1, <5>3, SeqEqual
        <5> QED
          BY <5>4 DEF s
      <4>3. TypeOK'
        BY <2>0, <2>t, <4>1 DEF TypeOK, Bytes
      <4> QED
        BY <2>0, <4>1, <4>2, <4>3 DEF IInv, LengthIsStored, ReadBack, WriteInv, ReadInv
    <3>2. CASE ~(length <= total)
      <4>1. /\ call = "read" /\ phase' = "sent"
            /\ UNCHANGED <<stored, lobLength, calls, call, start, offset, length, total, buffers,
                           written, answer>>
        BY <2>5, <3>2 DEF ContinueReading
      <4>2. total <= length
        BY <2>t, <3>2
      <4> QED
        BY <2>0, <4>1, <4>2
           DEF IInv, TypeOK, Bytes, LengthIsStored, ReadBack, WriteInv, ReadInv
    <3> QED
      BY <3>1, <3>2
  <2>6. CASE TransferError
    BY <2>0, <2>e, <2>6 DEF TransferError, Finish, LengthKept, Answer, IInv, TypeOK, Bytes,
                            LengthIsStored, ReadBack, WriteInv, ReadInv
  <2>7. CASE UNCHANGED vars
    BY <2>0, <2>7 DEF vars, callVars, IInv, TypeOK, Bytes, LengthIsStored, ReadBack, WriteInv,
                      ReadInv
  <2> QED
    BY <2>1, <2>2, <2>3, <2>4, <2>5, <2>6, <2>7 DEF Next
<1> QED
  BY <1>1, <1>2, PTL DEF Spec

\* Offsets and lengths stay numbers and what is stored stays data of the calls.
THEOREM TypeCorrect == Spec => []TypeOK
<1>1. IInv => TypeOK
  BY DEF IInv
<1> QED
  BY <1>1, InvariantHolds, PTL

\* However the server splits the requests, and whatever fails in between, a
\* lobRead() that succeeds gives what the successful lobWrite()s wrote there.
THEOREM ReadsBack == Spec => []ReadBack
<1>1. IInv => ReadBack
  BY DEF IInv
<1> QED
  BY <1>1, InvariantHolds, PTL

\* The length the LOB object keeps is stored on the server, with the content of
\* the writes that succeeded, after a failed call too.
THEOREM LengthIsTruthful == Spec => []LengthIsStored
<1>1. IInv => LengthIsStored
  BY DEF IInv
<1> QED
  BY <1>1, InvariantHolds, PTL
=============================================================================

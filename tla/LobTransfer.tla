---------------------------- MODULE LobTransfer -----------------------------
(***************************************************************************)
(* lobWrite() and lobRead() of one LOB object.  Both move their data in as   *)
(* many exchanges as the server makes of them, and both keep the books by    *)
(* themselves: the offset they are at, what is transferred, and lobLength,   *)
(* the length of the LOB as its object on the client has it.  The queue runs *)
(* one call at a time.                                                       *)
(*                                                                           *)
(* A byte is known by the call that wrote it and its place in the call's     *)
(* data.                                                                     *)
(***************************************************************************)
EXTENDS Naturals, Sequences, SequencesExt, FiniteSetsExt

CONSTANTS
    MaxIO,     \* _LOB_MAX_IO_LENGTH: the bytes one write carries at most
    MaxLength, \* bound: the length of the data of a call
    MaxCalls   \* bound: calls

ASSUME LobAssumption ==
    /\ MaxIO \in Nat \ {0}
    /\ MaxLength \in Nat
    /\ MaxCalls \in Nat

VARIABLES
    stored,    \* the content of the LOB on the server
    lobLength, \* lobObject.lobLength
    calls,     \* the calls so far; the latest is the one below
    call,      \* "none", "write" or "read" while it runs
    start,     \* the offset the call was given
    offset,    \* where it is now
    length,    \* the bytes it is to transfer
    total,     \* totalWriteLen, totalReadLen
    buffers,   \* the bytes read so far
    phase,     \* "sent" a request, or an immediate is "due" to send the next
    written,   \* history: the content as the calls that succeeded wrote it
    answer     \* history: what the latest call was told

callVars == <<call, start, offset, length, total, buffers, phase>>
vars == <<stored, lobLength, calls, callVars, written, answer>>

Bytes == (1..MaxCalls) \X (1..MaxLength)
NoAnswer == [status |-> "none", from |-> 0, data |-> <<>>]

TypeOK ==
    /\ stored \in Seq(Bytes)
    /\ lobLength \in Nat
    /\ calls \in 0..MaxCalls
    /\ call \in {"none", "write", "read"}
    /\ start \in Nat
    /\ offset \in Nat
    /\ length \in 0..MaxLength
    /\ total \in Nat
    /\ buffers \in Seq(Bytes)
    /\ phase \in {"none", "sent", "due"}
    /\ written \in Seq(Bytes)
    /\ answer \in [status : {"none", "ok", "error"}, from : Nat, data : Seq(Bytes)]

Init ==
    /\ stored = <<>>
    /\ lobLength = 0
    /\ calls = 0
    /\ call = "none"
    /\ start = 0
    /\ offset = 0
    /\ length = 0
    /\ total = 0
    /\ buffers = <<>>
    /\ phase = "none"
    /\ written = <<>>
    /\ answer = NoAnswer

-----------------------------------------------------------------------------
(* Operators named after a fault are mutants of the definition they precede; *)
(* Next uses none of them.                                                   *)

\* The data of the call, and Buffer.slice(first, past) of it.
Data(n) == [i \in 1..n |-> <<calls, i>>]
Slice(data, first, past) == SubSeq(data, first + 1, Min({past, Len(data)}))

NextBytesUnadvanced(size) == Slice(Data(length), 0, size)

\* The bytes of the next write: the data is sliced at the offset in the LOB.
NextBytes(size) == Slice(Data(length), offset, offset + size)

Answer(status, data) == [status |-> status, from |-> start, data |-> data]

\* The call is over; its callback takes _socketCurrentEventCallback away.
Finish(status, data) ==
    /\ call' = "none"
    /\ phase' = "none"
    /\ answer' = Answer(status, data)

Refused(at) ==
    /\ answer' = [status |-> "error", from |-> at, data |-> <<>>]
    /\ UNCHANGED <<lobLength, callVars, written>>

Accepted(kind, n, at) ==
    /\ start' = at
    /\ offset' = at
    /\ length' = n
    /\ total' = 0
    /\ buffers' = <<>>
    /\ IF n = 0
       THEN /\ call' = "none"
            /\ phase' = "none"
            /\ answer' = [status |-> "ok", from |-> at, data |-> <<>>]
       ELSE /\ call' = kind
            /\ phase' = "sent"
            /\ answer' = NoAnswer
    /\ UNCHANGED <<lobLength, written>>

InSequence(at) == lobLength = at
Stored(n, at) == lobLength >= at + n

\* lobWrite(lobObject, at, data of n bytes): only at the end of the LOB.
Write(n, at) ==
    /\ call = "none"
    /\ calls < MaxCalls
    /\ calls' = calls + 1
    /\ \/ ~InSequence(at) /\ Refused(at)
       \/ InSequence(at) /\ Accepted("write", n, at)
    /\ UNCHANGED stored

\* lobRead(lobObject, at, n): only what lobLength says is there.
Read(n, at) ==
    /\ call = "none"
    /\ calls < MaxCalls
    /\ calls' = calls + 1
    /\ \/ ~Stored(n, at) /\ Refused(at)
       \/ Stored(n, at) /\ Accepted("read", n, at)
    /\ UNCHANGED stored

-----------------------------------------------------------------------------
Overwritten(content, at, bytes) ==
    SubSeq(content, 1, at) \o bytes \o SubSeq(content, at + Len(bytes) + 1, Len(content))

\* The server wrote the first k bytes of a request, one at least unless the
\* request was empty, and the driver goes on behind them.
WriteResponse ==
    /\ call = "write"
    /\ LET size == Min({length, MaxIO})
           bytes == NextBytes(size)
       IN \E k \in IF bytes = <<>> THEN {0} ELSE 1..Len(bytes) :
          /\ stored' = Overwritten(stored, offset, SubSeq(bytes, 1, k))
          /\ offset' = offset + k
          /\ total' = total + k
    /\ IF total' >= length
       THEN /\ lobLength' = offset'
            /\ written' = Slice(written, 0, start) \o Data(length)
            /\ Finish("ok", <<>>)
       ELSE UNCHANGED <<lobLength, written, call, phase, answer>>
    /\ UNCHANGED <<calls, start, length, buffers>>

NoLess(k) == length
OneLess(k) == IF k = 0 THEN total - 1 ELSE length
UnlessEmpty(k) == IF k = 0 THEN 0 ELSE length

\* The server returned k bytes of those asked for; none if it finds the content
\* empty, which ends the read.  The next request waits for an immediate.
ReadResponse ==
    /\ call = "read"
    /\ phase = "sent"
    /\ \E k \in 0..Min({length - total, Len(stored) - offset}) :
       /\ offset' = offset + k
       /\ total' = total + k
       /\ length' = UnlessEmpty(k)
       /\ buffers' = buffers \o SubSeq(stored, offset + 1, offset + k)
    /\ phase' = "due"
    /\ UNCHANGED <<stored, lobLength, calls, call, start, written, answer>>

ContinueReading ==
    /\ call = "read"
    /\ phase = "due"
    /\ IF length <= total
       THEN Finish("ok", buffers)
       ELSE phase' = "sent" /\ UNCHANGED <<call, answer>>
    /\ UNCHANGED <<stored, lobLength, calls, start, offset, length, total, buffers, written>>

LengthAnyway == lobLength' = offset
LengthKept == lobLength' = lobLength

\* The server refuses a request, or the connection is reset: the call fails
\* with part of its data transferred.  (An immediate that is due then still
\* writes to the dead socket, which nobody answers.)
TransferError ==
    /\ call # "none"
    /\ Finish("error", <<>>)
    /\ LengthKept
    /\ UNCHANGED <<stored, calls, start, offset, length, total, buffers, written>>

Next ==
    \/ \E n, at \in 0..MaxLength : Write(n, at) \/ Read(n, at)
    \/ WriteResponse
    \/ ReadResponse
    \/ ContinueReading
    \/ TransferError

Spec == Init /\ [][Next]_vars

\* The server answers, and node runs its immediates.
FairSpec == Spec /\ WF_vars(WriteResponse) /\ WF_vars(ReadResponse) /\ WF_vars(ContinueReading)

-----------------------------------------------------------------------------
\* A lobRead() that succeeds gives what the lobWrite()s that succeeded wrote
\* there, from the offset asked for, however the server split both and whatever
\* failed in between.
ReadBack ==
    calls > 0 /\ answer.status = "ok" =>
        answer.data = Slice(written, answer.from, answer.from + Len(answer.data))

\* lobLength promises no more than the server has: its first lobLength bytes are
\* those of the writes that succeeded.
LengthIsStored ==
    /\ lobLength = Len(written)
    /\ IsPrefix(written, stored)

\* Every read, and every write into an empty LOB, comes to an end.  (A write
\* behind others never does: its data is sliced at the offset in the LOB.)
TransferEnds == (call = "read" \/ (call = "write" /\ start = 0)) ~> (call = "none")
=============================================================================

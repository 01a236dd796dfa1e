------------------------------- MODULE Writer -------------------------------
(***************************************************************************)
(* io.Writer of src/std/io.mesa over a Sink whose drain may take part of   *)
(* the bytes or fail.  The bytes a program writes are numbered in the      *)
(* order it writes them; buf holds the first `end` bytes of the buffer.    *)
(***************************************************************************)
EXTENDS Integers, Sequences, SequencesExt, FiniteSetsExt

CONSTANTS
    Cap,            \* the capacity given to Writer.init
    MaxBytes,       \* bound: bytes written
    MaxDrained      \* bound: bytes drained when a drain may still fail

VARIABLES
    buf,        \* what the buffer holds, its length being self.end
    data,       \* what is left of the argument of the writeAll (or writeByte) running
    pos,        \* flush's pos: what it has drained of buf
    pc,         \* the loop running, "idle" between calls
    cont,       \* where the caller of flush goes on
    next,       \* the number of the next byte written
    sent,       \* what the sink has taken, in order
    dropped,    \* bytes of calls that returned an error before using them
    failed      \* some drain has failed

vars == <<buf, data, pos, pc, cont, next, sent, dropped, failed>>

Init ==
    /\ buf = <<>> /\ data = <<>> /\ pos = 0
    /\ pc = "idle" /\ cont = "idle"
    /\ next = 1
    /\ sent = <<>> /\ dropped = {} /\ failed = FALSE

Bytes(n) == [i \in 1..n |-> next + i - 1]

\* Calling flush, to go on at k when it returns.
Flush(k) == pc' = "flush" /\ cont' = k /\ pos' = 0

-----------------------------------------------------------------------------
WriteByte ==
    /\ pc = "idle" /\ next <= MaxBytes
    /\ data' = Bytes(1)
    /\ next' = next + 1
    /\ IF Len(buf) >= Cap THEN Flush("byte") ELSE pc' = "byte" /\ UNCHANGED <<cont, pos>>
    /\ UNCHANGED <<buf, sent, dropped, failed>>

\* Storing the byte at self.end.
PutByte ==
    /\ pc = "byte"
    /\ buf' = buf \o data
    /\ data' = <<>>
    /\ pc' = "idle"
    /\ UNCHANGED <<pos, cont, next, sent, dropped, failed>>

\* writeAll, and write, with n bytes.
WriteAll(n) ==
    /\ pc = "idle" /\ next + n - 1 <= MaxBytes
    /\ data' = Bytes(n)
    /\ next' = next + n
    /\ IF n > Cap THEN Flush("direct") ELSE pc' = "copy" /\ UNCHANGED <<cont, pos>>
    /\ UNCHANGED <<buf, sent, dropped, failed>>

\* Mutant: the chunk is not cut to the space left.
CopyChunkWhole ==
    /\ pc = "copy" /\ data # <<>>
    /\ buf' = buf \o data
    /\ data' = <<>>
    /\ IF Len(buf') >= Cap THEN Flush("copy") ELSE UNCHANGED <<pc, cont, pos>>
    /\ UNCHANGED <<next, sent, dropped, failed>>

\* One round of the loop that stages bytes in the buffer.
CopyChunk ==
    LET chunk == Min({Len(data), Cap - Len(buf)}) IN
    /\ pc = "copy" /\ data # <<>>
    /\ buf' = buf \o SubSeq(data, 1, chunk)
    /\ data' = SubSeq(data, chunk + 1, Len(data))
    /\ IF Len(buf') >= Cap THEN Flush("copy") ELSE UNCHANGED <<pc, cont, pos>>
    /\ UNCHANGED <<next, sent, dropped, failed>>

CallFlush ==
    /\ pc = "idle"
    /\ Flush("idle")
    /\ UNCHANGED <<buf, data, next, sent, dropped, failed>>

\* Mutant: the drain is asked for more than what is left.
FlushDrainPast(n) ==
    /\ pc = "flush" /\ pos < Len(buf)
    /\ sent' = sent \o SubSeq(buf, pos + 1, Min({pos + n, Len(buf)}))
    /\ pos' = pos + n
    /\ UNCHANGED <<buf, data, pc, cont, next, dropped, failed>>

\* A drain of flush, of a large write, that takes n bytes.
FlushDrain(n) ==
    /\ pc = "flush" /\ n <= Len(buf) - pos
    /\ sent' = sent \o SubSeq(buf, pos + 1, pos + n)
    /\ pos' = pos + n
    /\ UNCHANGED <<buf, data, pc, cont, next, dropped, failed>>

DirectDrain(n) ==
    /\ pc = "direct" /\ n <= Len(data)
    /\ sent' = sent \o SubSeq(data, 1, n)
    /\ data' = SubSeq(data, n + 1, Len(data))
    /\ UNCHANGED <<buf, pos, pc, cont, next, dropped, failed>>

\* Mutants: the loop goes on while pos <= end; it stops after one drain.
FlushedPast ==
    /\ pc = "flush" /\ pos > Len(buf)
    /\ buf' = <<>> /\ pos' = 0
    /\ pc' = cont
    /\ UNCHANGED <<data, cont, next, sent, dropped, failed>>
FlushedShort ==
    /\ pc = "flush" /\ (pos > 0 \/ buf = <<>>)
    /\ buf' = <<>> /\ pos' = 0
    /\ pc' = cont
    /\ UNCHANGED <<data, cont, next, sent, dropped, failed>>

Flushed ==
    /\ pc = "flush" /\ pos = Len(buf)
    /\ buf' = <<>> /\ pos' = 0
    /\ pc' = cont
    /\ UNCHANGED <<data, cont, next, sent, dropped, failed>>

Written ==
    /\ pc \in {"copy", "direct"} /\ data = <<>>
    /\ pc' = "idle"
    /\ UNCHANGED <<buf, data, pos, cont, next, sent, dropped, failed>>

\* Mutant: the buffer is given up.
DrainFailsReset ==
    /\ \/ pc = "flush" /\ pos < Len(buf)
       \/ pc = "direct" /\ data # <<>>
    /\ Len(sent) <= MaxDrained
    /\ pc' = "idle" /\ pos' = 0 /\ buf' = <<>>
    /\ data' = <<>>
    /\ dropped' = dropped \cup ToSet(data)
    /\ failed' = TRUE
    /\ UNCHANGED <<cont, next, sent>>

\* A drain that returns an IoError: try leaves the call, whatever its caller.
DrainFails ==
    /\ \/ pc = "flush" /\ pos < Len(buf)
       \/ pc = "direct" /\ data # <<>>
    /\ Len(sent) <= MaxDrained
    /\ pc' = "idle" /\ pos' = 0
    /\ data' = <<>>
    /\ dropped' = dropped \cup ToSet(data)
    /\ failed' = TRUE
    /\ UNCHANGED <<buf, cont, next, sent>>

-----------------------------------------------------------------------------
\* A drain that succeeds has taken at least a byte: Sink's convention.
Running ==
    \/ PutByte \/ CopyChunk \/ Flushed \/ Written \/ DrainFails
    \/ \E n \in 1..MaxBytes : FlushDrain(n) \/ DirectDrain(n)

Next ==
    \/ WriteByte \/ CallFlush \/ Running
    \/ \E n \in 0..MaxBytes : WriteAll(n)

Spec == Init /\ [][Next]_vars

\* A call that has begun goes on: it is one thread of control.
FairSpec == Spec /\ WF_vars(Running)

-----------------------------------------------------------------------------
\* The variables have their types; flush never runs past the buffer's end.
TypeOK ==
    /\ buf \in Seq(1..MaxBytes) /\ data \in Seq(1..MaxBytes)
    /\ pos \in 0..Len(buf)
    /\ pc \in {"idle", "flush", "byte", "copy", "direct"}
    /\ cont \in {"idle", "byte", "copy", "direct"}
    /\ next \in 1..(MaxBytes + 1)
    /\ sent \in Seq(1..MaxBytes)
    /\ dropped \subseteq 1..MaxBytes
    /\ failed \in BOOLEAN

\* The buffer is never written past its capacity (writeByte and the chunks of
\* writeAll store at self.end).
WithinBuffer == Len(buf) <= Cap

\* While no drain fails, what the sink has taken followed by what is still in
\* the buffer and in the running call is what was written: no byte is lost,
\* repeated or overtaken, whatever the sizes of the short drains and of the
\* writes that bypass the buffer.
StreamExact ==
    ~failed => sent \o SubSeq(buf, pos + 1, Len(buf)) \o data
               = [i \in 1..(next - 1) |-> i]

\* Also after failures, which make a retry drain again what it had drained,
\* each byte reaches the sink for the first time after all those before it,
\* and none is lost but the unused rest of a failed call.
FirstInOrder ==
    /\ \A i, j \in DOMAIN sent :
           i < j /\ sent[j] < sent[i] => \E k \in 1..(i - 1) : sent[k] = sent[j]
    /\ 1..(next - 1) = ToSet(sent) \cup ToSet(buf) \cup ToSet(data) \cup dropped

\* With a capacity of zero every write hits drain: none stays in the writer.
Unbuffered == Cap = 0 /\ pc = "idle" /\ ~failed => buf = <<>>

\* Every call returns.
CallsReturn == pc # "idle" ~> pc = "idle"
=============================================================================

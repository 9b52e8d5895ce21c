------------------------------ MODULE RingBuf ------------------------------
(***************************************************************************)
(* The ring buffer of em_ringbuf, in which the serial client gathers the   *)
(* bytes of a response: an array, two indices and a flag that tells a full *)
(* buffer from an empty one.  It belongs to one task, so its calls do not  *)
(* interleave.  The write loop is one step per iteration; the other calls  *)
(* are one step each.                                                      *)
(***************************************************************************)
EXTENDS Integers, Sequences

CONSTANTS
  Size,     \* buf->size
  Bytes,    \* the values of a byte
  Lengths   \* the lengths that calls are made with

\* em_ringbuf_init asserts size > 0, and the calls assert len > 0.
ASSUME RingBufAssumption ==
  /\ Size \in Nat \ {0}
  /\ Lengths \subseteq Nat \ {0}

VARIABLES
  buffer, read, write, is_full,   \* em_ringbuf_t
  todo,   \* the bytes that the em_ringbuf_write under way has yet to write
  out,    \* what the last em_ringbuf_read has stored in data
  ret     \* what the last call has returned

ring == <<buffer, read, write, is_full>>
vars == <<buffer, read, write, is_full, todo, out, ret>>

\* The storage is on the task's stack: it holds anything.
Init ==
  /\ buffer \in [0..Size-1 -> Bytes]
  /\ read = 0 /\ write = 0 /\ is_full = FALSE
  /\ todo = <<>> /\ out = <<>> /\ ret = 0

\* em_ringbuf_len
Length ==
  IF is_full THEN Size
  ELSE IF write >= read THEN write - read ELSE Size - (read - write)

\* em_ringbuf_is_empty
IsEmpty == read = write /\ ~is_full

\* em_ringbuf_write ...
Write(data) ==
  /\ todo = <<>>
  /\ todo' = data /\ out' = <<>> /\ ret' = 0
  /\ UNCHANGED ring

\* Fault: the oldest byte is overwritten and read does not move on.
WriteByteKeepRead ==
  /\ todo # <<>>
  /\ UNCHANGED read
  /\ buffer' = [buffer EXCEPT ![write] = Head(todo)]
  /\ write' = (write + 1) % Size
  /\ is_full' = (read' = write')
  /\ todo' = Tail(todo) /\ ret' = ret + 1
  /\ UNCHANGED out

\* Fault: write wraps around one byte too late.
WriteByteWrapsLate ==
  /\ todo # <<>>
  /\ read' = IF is_full THEN (read + 1) % Size ELSE read
  /\ buffer' = [buffer EXCEPT ![write] = Head(todo)]
  /\ write' = IF write = Size THEN 0 ELSE write + 1
  /\ is_full' = (read' = write')
  /\ todo' = Tail(todo) /\ ret' = ret + 1
  /\ UNCHANGED out

\* ... and an iteration of its loop.
WriteByte ==
  /\ todo # <<>>
  /\ read' = IF is_full THEN (read + 1) % Size ELSE read
  /\ buffer' = [buffer EXCEPT ![write] = Head(todo)]
  /\ write' = (write + 1) % Size
  /\ is_full' = (read' = write')
  /\ todo' = Tail(todo) /\ ret' = ret + 1
  /\ UNCHANGED out

\* The loop of em_ringbuf_read goes on to i, the byte at read always copied.
Reaches(i) == \A j \in 1..i : (read + j) % Size # write

\* em_ringbuf_read copies the bytes and leaves them in the buffer.
Read(n) ==
  /\ todo = <<>>
  /\ ret' \in 0..n
  /\ IF IsEmpty THEN ret' = 0
     ELSE \A i \in 0..n-1 : i < ret' <=> Reaches(i)
  /\ out' = [i \in 1..ret' |-> buffer[(read + i - 1) % Size]]
  /\ UNCHANGED <<ring, todo>>

\* em_ringbuf_flush
Emptied == read' = 0 /\ write' = 0 /\ is_full' = FALSE

\* Fault: a buffer that was full still says so.
ClearKeepFull(n) ==
  /\ todo = <<>>
  /\ IF Length = 0 THEN ret' = 0 /\ UNCHANGED <<read, write, is_full>>
     ELSE /\ ret' = n
          /\ IF n >= Length THEN Emptied
             ELSE read' = (read + n) % Size /\ UNCHANGED <<write, is_full>>
  /\ out' = <<>>
  /\ UNCHANGED <<buffer, todo>>

\* em_ringbuf_clear
Clear(n) ==
  /\ todo = <<>>
  /\ IF Length = 0 THEN ret' = 0 /\ UNCHANGED <<read, write, is_full>>
     ELSE /\ ret' = n
          /\ IF n >= Length THEN Emptied
             ELSE read' = (read + n) % Size /\ is_full' = FALSE /\ UNCHANGED write
  /\ out' = <<>>
  /\ UNCHANGED <<buffer, todo>>

Flush ==
  /\ todo = <<>>
  /\ Emptied /\ out' = <<>> /\ ret' = 0
  /\ UNCHANGED <<buffer, todo>>

\* em_ringbuf_len and em_ringbuf_free_len
Measure ==
  /\ todo = <<>>
  /\ out' = <<>>
  /\ ret' \in {Length, Size - Length}
  /\ UNCHANGED <<ring, todo>>

Next ==
  \/ \E n \in Lengths : Read(n) \/ Clear(n) \/ \E data \in [1..n -> Bytes] : Write(data)
  \/ WriteByte \/ Flush \/ Measure

Spec == Init /\ [][Next]_vars
-----------------------------------------------------------------------------
(* Properties                                                              *)

TypeOK ==
  /\ buffer \in [0..Size-1 -> Bytes]
  /\ read \in 0..Size-1 /\ write \in 0..Size-1
  /\ is_full \in BOOLEAN
  /\ todo \in Seq(Bytes) /\ out \in Seq(Bytes)
  /\ ret \in Nat

\* The bytes that are in the buffer, the oldest first.
Contents == [k \in 1..Length |-> buffer[(read + k - 1) % Size]]

(***************************************************************************)
(* Indices that wrap around, overwriting, the flag and the early returns   *)
(* (ringbuf.c:27-127) amount to an overwriting queue: no call copies,      *)
(* keeps, loses or reorders other bytes than the queue would.              *)
(***************************************************************************)
Queue == INSTANCE OverwritingFifo WITH fifo <- Contents

ImplementsQueue == Queue!Spec
=============================================================================

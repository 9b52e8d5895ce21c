-------------------------- MODULE OverwritingFifo --------------------------
(***************************************************************************)
(* What em/ringbuf.h promises its users: a first-in first-out queue of     *)
(* bytes with a capacity.  A byte written to a full queue pushes the       *)
(* oldest one out; a read copies the oldest bytes and leaves them in       *)
(* place; a clear removes the oldest ones.                                 *)
(***************************************************************************)
EXTENDS Naturals, Sequences

CONSTANTS Size, Bytes, Lengths

VARIABLES
  fifo,   \* the bytes, the oldest first
  todo,   \* what the write call under way has yet to write
  out,    \* the bytes that the last call has copied
  ret     \* the number that the last call has returned

vars == <<fifo, todo, out, ret>>

Init == fifo = <<>> /\ todo = <<>> /\ out = <<>> /\ ret = 0

\* A write call starts ...
Write(data) ==
  /\ todo = <<>>
  /\ todo' = data /\ out' = <<>> /\ ret' = 0
  /\ UNCHANGED fifo

\* ... and puts its bytes one by one.
Put ==
  /\ todo # <<>>
  /\ fifo' = Append(IF Len(fifo) = Size THEN Tail(fifo) ELSE fifo, Head(todo))
  /\ todo' = Tail(todo)
  /\ ret' = ret + 1
  /\ UNCHANGED out

Read(n) ==
  /\ todo = <<>>
  /\ out' = SubSeq(fifo, 1, IF n < Len(fifo) THEN n ELSE Len(fifo))
  /\ ret' = IF n < Len(fifo) THEN n ELSE Len(fifo)
  /\ UNCHANGED <<fifo, todo>>

\* The number returned is the one asked for, even if there were fewer bytes.
Clear(n) ==
  /\ todo = <<>>
  /\ fifo' = IF n < Len(fifo) THEN SubSeq(fifo, n + 1, Len(fifo)) ELSE <<>>
  /\ out' = <<>>
  /\ ret' = IF fifo = <<>> THEN 0 ELSE n
  /\ UNCHANGED todo

Flush ==
  /\ todo = <<>>
  /\ fifo' = <<>> /\ out' = <<>> /\ ret' = 0
  /\ UNCHANGED todo

Measure ==
  /\ todo = <<>>
  /\ out' = <<>>
  /\ ret' \in {Len(fifo), Size - Len(fifo)}
  /\ UNCHANGED <<fifo, todo>>

Next ==
  \/ \E n \in Lengths : Read(n) \/ Clear(n) \/ \E data \in [1..n -> Bytes] : Write(data)
  \/ Put \/ Flush \/ Measure

Spec == Init /\ [][Next]_vars
=============================================================================

----------------------------- MODULE PartsProofs -----------------------------
(***************************************************************************)
(* The safety properties of the parts that run on their own: the ring      *)
(* buffer, the LED's scenes, the Wi-Fi station, provisioning and its       *)
(* characteristics, the measurements' history and averages, the button     *)
(* and its callbacks, the core dump's upload, SLIP, the inverter's         *)
(* energies and the decryption of images, for all values of their          *)
(* constants.  ProtocolProofs has the two protocols.                       *)
(*                                                                         *)
(* Each section has the part's types, what strengthens the property to an  *)
(* inductive invariant, one lemma for each action, and the theorem.  A     *)
(* step of another part leaves the part's variables alone.                 *)
(***************************************************************************)
EXTENDS Parts, BasicLemmas, SequenceTheorems, FiniteSetTheorems, TLAPS

-----------------------------------------------------------------------------
(* The ring buffer                                                         *)
(*                                                                         *)
(* RingBuf implements OverwritingFifo for every size, every set of bytes   *)
(* and every length of the calls.  The inductive invariant adds to the     *)
(* types that the flag is up only where the indices meet: without it a     *)
(* buffer whose flag is up could have a Length other than the distance of  *)
(* its indices, and the bytes copied, overwritten and cleared would not be *)
(* those of the queue.  The data argument is about indices modulo Size,    *)
(* all below 2 * Size: ModIs turns the remainder into a subtraction.       *)

LEMMA ModIs ==
  ASSUME NEW n \in Nat \ {0}, NEW x \in Int, 0 <= x, x < n + n
  PROVE  x % n = IF x < n THEN x ELSE x - n
<1>1. CASE x < n  BY <1>1, SMT
<1>2. CASE x >= n  BY <1>2, SMT
<1> QED  BY <1>1, <1>2

\* The index after i, and the index of the k-th byte of a buffer that starts at i.
LEMMA IndexAfter ==
  ASSUME NEW i \in 0..Size-1
  PROVE  (i + 1) % Size = IF i + 1 = Size THEN 0 ELSE i + 1
<1> DEFINE x == i + 1
<1>1. x \in Int /\ 0 <= x /\ x < Size + Size /\ (x < Size <=> i + 1 # Size)
  BY RingBufAssumption
<1>2. Size \in Nat \ {0}  BY RingBufAssumption
<1>3. x % Size = IF x < Size THEN x ELSE x - Size
  <2> HIDE DEF x
  <2> QED  BY <1>1, <1>2, ModIs
<1>4. x - Size = 0 \/ x < Size  BY RingBufAssumption
<1>5. x % Size = IF i + 1 = Size THEN 0 ELSE x
  <2> HIDE DEF x
  <2> QED  BY <1>1, <1>3, <1>4
<1> QED  BY <1>5

LEMMA IndexOfKth ==
  ASSUME NEW i \in 0..Size-1, NEW k \in 1..Size
  PROVE  (i + k - 1) % Size = IF i + k <= Size THEN i + k - 1 ELSE i + k - 1 - Size
<1> DEFINE x == i + k - 1
<1>1. x \in Int /\ 0 <= x /\ x < Size + Size /\ (x < Size <=> i + k <= Size)
  BY RingBufAssumption
<1>2. Size \in Nat \ {0}  BY RingBufAssumption
<1>3. x % Size = IF x < Size THEN x ELSE x - Size
  <2> HIDE DEF x
  <2> QED  BY <1>1, <1>2, ModIs
<1>4. x % Size = IF i + k <= Size THEN x ELSE x - Size
  <2> HIDE DEF x
  <2> QED  BY <1>1, <1>3
<1> QED  BY <1>4, RingBufAssumption

\* Overwriting the oldest byte moves the k-th one to where the next one was.
LEMMA ShiftedIndex ==
  ASSUME NEW i \in 0..Size-1, NEW k \in 1..Size, k < Size
  PROVE  /\ (((i + 1) % Size) + k - 1) % Size = (i + (k + 1) - 1) % Size
         /\ (i + (k + 1) - 1) % Size # i
<1> DEFINE next == (i + 1) % Size
<1>1. next = IF i + 1 = Size THEN 0 ELSE i + 1  BY IndexAfter
<1>2. next \in 0..Size-1 /\ k + 1 \in 1..Size  BY <1>1, RingBufAssumption
<1>3. (next + k - 1) % Size = IF next + k <= Size THEN next + k - 1 ELSE next + k - 1 - Size
  <2> HIDE DEF next
  <2> QED  BY <1>2, IndexOfKth
<1>4. (i + (k + 1) - 1) % Size
        = IF i + (k + 1) <= Size THEN i + (k + 1) - 1 ELSE i + (k + 1) - 1 - Size
  BY <1>2, IndexOfKth
<1> HIDE DEF next
<1> QED  BY <1>1, <1>3, <1>4, RingBufAssumption

IInv == TypeOK /\ (is_full => read = write)

LEMMA LengthType ==
  ASSUME IInv
  PROVE  /\ Length \in 0..Size
         /\ Length = Size <=> is_full
         /\ Length = 0 <=> IsEmpty
BY RingBufAssumption DEF IInv, TypeOK, Length, IsEmpty

\* The bytes of the queue, by position.
ByPosition ==
  /\ Contents \in Seq(Bytes)
  /\ Len(Contents) = Length
  /\ \A k \in 1..Length : Contents[k] = buffer[(read + k - 1) % Size]

LEMMA ContentsType == IInv => ByPosition
<1> SUFFICES ASSUME IInv PROVE ByPosition
  OBVIOUS
<1>1. Length \in Nat  BY LengthType, RingBufAssumption
<1>2. \A k \in 1..Length : (read + k - 1) % Size \in 0..Size-1
  BY <1>1, RingBufAssumption DEF IInv, TypeOK
<1>3. Contents \in [1..Length -> Bytes]
  BY <1>2 DEF Contents, IInv, TypeOK
<1> QED  BY <1>1, <1>3 DEF Contents, ByPosition

LEMMA ContentsTypeNext == IInv' => ByPosition'
BY ContentsType, PTL

LEMMA DataType ==
  ASSUME NEW n \in Lengths, NEW data \in [1..n -> Bytes]
  PROVE  data \in Seq(Bytes)
BY RingBufAssumption, SMT

LEMMA ReadType ==
  ASSUME IInv, NEW n \in Lengths, Read(n)
  PROVE  out' \in Seq(Bytes) /\ ret' \in Nat
<1>1. n \in Nat /\ ret' \in Nat  BY RingBufAssumption DEF Read
<1>2. \A i \in 1..ret' : (read + i - 1) % Size \in 0..Size-1
  BY <1>1, RingBufAssumption DEF IInv, TypeOK
<1>3. out' \in [1..ret' -> Bytes]
  BY <1>2 DEF Read, IInv, TypeOK
<1> QED  BY <1>1, <1>3

LEMMA IInvInit == Init => IInv
<1>1. <<>> \in Seq(Bytes)  OBVIOUS
<1> QED  BY <1>1, RingBufAssumption DEF Init, IInv, TypeOK

LEMMA IInvNext == IInv /\ [Next]_vars => IInv'
<1> SUFFICES ASSUME IInv, [Next]_vars PROVE IInv'
  OBVIOUS
<1> USE RingBufAssumption
<1>e. <<>> \in Seq(Bytes)  OBVIOUS
<1>1. ASSUME NEW n \in Lengths, Read(n) PROVE IInv'
  BY <1>1, ReadType DEF IInv, TypeOK, Read, ring
<1>2. ASSUME NEW n \in Lengths, Clear(n) PROVE IInv'
  <2>1. (read + n) % Size \in 0..Size-1  BY DEF IInv, TypeOK
  <2> QED  BY <1>2, <1>e, <2>1 DEF IInv, TypeOK, Clear, Emptied
<1>3. ASSUME NEW n \in Lengths, NEW data \in [1..n -> Bytes], Write(data) PROVE IInv'
  BY <1>3, <1>e, DataType DEF IInv, TypeOK, Write, ring
<1>4. ASSUME WriteByte PROVE IInv'
  <2>1. (read + 1) % Size \in 0..Size-1 /\ (write + 1) % Size \in 0..Size-1
    BY DEF IInv, TypeOK
  <2>2. Head(todo) \in Bytes /\ Tail(todo) \in Seq(Bytes)
    BY <1>4 DEF WriteByte, IInv, TypeOK
  <2>3. buffer' \in [0..Size-1 -> Bytes]
    BY <1>4, <2>2 DEF WriteByte, IInv, TypeOK
  <2> QED  BY <1>4, <2>1, <2>2, <2>3 DEF IInv, TypeOK, WriteByte
<1>5. CASE Flush  BY <1>5, <1>e DEF IInv, TypeOK, Flush, Emptied
<1>6. CASE Measure
  BY <1>6, <1>e, LengthType DEF IInv, TypeOK, Measure, ring
<1>7. CASE UNCHANGED vars  BY <1>7 DEF IInv, TypeOK, vars
<1> QED  BY <1>1, <1>2, <1>3, <1>4, <1>5, <1>6, <1>7 DEF Next

(***************************************************************************)
(* The invariant of every call sequence, and with it the types: the        *)
(* indices stay within the buffer (ringbuf.c:27-127).                      *)
(***************************************************************************)
THEOREM Invariance == Spec => []IInv
BY IInvInit, IInvNext, PTL DEF Spec

THEOREM TypeCorrect == Spec => []TypeOK
<1>1. IInv => TypeOK  BY DEF IInv
<1> QED  BY Invariance, <1>1, PTL

-----------------------------------------------------------------------------
(* Every step is a step of the queue                                       *)

LEMMA InitRefines == Init => Queue!Init
BY DEF Init, Queue!Init, Contents, Length

\* An iteration of the write loop: the buffer has room ...
LEMMA WriteByteWithRoom ==
  ASSUME IInv, IInv', WriteByte, ~is_full
  PROVE  /\ Len(Contents) # Size
         /\ Contents' = Append(Contents, Head(todo))
<1> USE RingBufAssumption
<1>1. ByPosition /\ ByPosition' /\ Length \in 0..Size /\ Length # Size
  BY ContentsType, ContentsTypeNext, LengthType
<1>2. read \in 0..Size-1 /\ write \in 0..Size-1 /\ Head(todo) \in Bytes
  BY DEF WriteByte, IInv, TypeOK
<1>3. read' = read /\ write' = (write + 1) % Size /\ is_full' = (read' = write')
  BY DEF WriteByte
<1>4. \A i \in 0..Size-1 : buffer'[i] = IF i = write THEN Head(todo) ELSE buffer[i]
  BY DEF WriteByte, IInv, TypeOK
<1>5. Length = IF write >= read THEN write - read ELSE Size - (read - write)
  BY DEF Length
<1>6. Length' = Length + 1
  <2>1. write' = IF write + 1 = Size THEN 0 ELSE write + 1  BY <1>2, <1>3, IndexAfter
  <2>2. Length' = IF read = write' THEN Size
                  ELSE IF write' >= read THEN write' - read ELSE Size - (read - write')
    BY <1>3 DEF Length
  <2> QED  BY <1>2, <1>5, <2>1, <2>2
<1> DEFINE New == Append(Contents, Head(todo))
<1>7. /\ New \in Seq(Bytes) /\ Len(New) = Length + 1
      /\ \A k \in 1..Length : New[k] = Contents[k]
      /\ New[Length + 1] = Head(todo)
  BY <1>1, <1>2 DEF ByPosition
<1>8. ASSUME NEW k \in 1..Length+1 PROVE Contents'[k] = New[k]
  <2> DEFINE at == (read + k - 1) % Size
  <2>1. k \in 1..Size  BY <1>1
  <2>2. at = IF read + k <= Size THEN read + k - 1 ELSE read + k - 1 - Size
    BY <1>2, <2>1, IndexOfKth
  <2>3. Contents'[k] = buffer'[at]  BY <1>1, <1>3, <1>6 DEF ByPosition
  <2>4. at \in 0..Size-1 /\ (at = write <=> k = Length + 1)
    <3> HIDE DEF at
    <3> QED  BY <1>1, <1>2, <1>5, <2>1, <2>2
  <2>5. CASE k = Length + 1  BY <1>4, <1>7, <2>3, <2>4, <2>5
  <2>6. CASE k # Length + 1
    <3>1. k \in 1..Length  BY <1>1, <2>6
    <3> QED  BY <1>1, <1>4, <1>7, <2>3, <2>4, <2>6, <3>1 DEF ByPosition
  <2> QED  BY <2>5, <2>6
<1>9. Contents' = New
  <2>1. Contents' \in Seq(Bytes) /\ Len(Contents') = Length + 1
    BY <1>1, <1>6 DEF ByPosition
  <2> HIDE DEF New
  <2> QED  BY <1>7, <1>8, <2>1, SeqEqual
<1> QED  BY <1>1, <1>9 DEF ByPosition

\* ... or it is full, and its oldest byte is pushed out.
LEMMA WriteByteWhenFull ==
  ASSUME IInv, IInv', WriteByte, is_full
  PROVE  /\ Len(Contents) = Size
         /\ Contents' = Append(Tail(Contents), Head(todo))
<1> USE RingBufAssumption
<1>1. ByPosition /\ ByPosition' /\ Length = Size
  BY ContentsType, ContentsTypeNext, LengthType
<1>2. read \in 0..Size-1 /\ write = read /\ Head(todo) \in Bytes
  BY DEF WriteByte, IInv, TypeOK
<1>3. read' = (read + 1) % Size /\ Length' = Size
  BY <1>2 DEF WriteByte, Length
<1>4. \A i \in 0..Size-1 : buffer'[i] = IF i = read THEN Head(todo) ELSE buffer[i]
  BY <1>2 DEF WriteByte, IInv, TypeOK
<1> DEFINE New == Append(Tail(Contents), Head(todo))
<1>5. /\ New \in Seq(Bytes) /\ Len(New) = Size
      /\ \A k \in 1..Size : New[k] = IF k = Size THEN Head(todo) ELSE Contents[k + 1]
  <2>1. Contents \in Seq(Bytes) /\ Len(Contents) = Size /\ Contents # <<>>
    BY <1>1 DEF ByPosition
  <2>2. /\ Tail(Contents) \in Seq(Bytes) /\ Len(Tail(Contents)) = Size - 1
        /\ \A k \in 1..Size-1 : Tail(Contents)[k] = Contents[k + 1]
    BY <2>1
  <2> QED  BY <1>2, <2>2
<1>6. ASSUME NEW k \in 1..Size PROVE Contents'[k] = New[k]
  <2>1. Contents'[k] = buffer'[(read' + k - 1) % Size]
    BY <1>1, <1>3 DEF ByPosition
  <2>2. CASE k = Size
    <3>1. read' = IF read + 1 = Size THEN 0 ELSE read + 1  BY <1>2, <1>3, IndexAfter
    <3>2. read' \in 0..Size-1 /\ Size \in 1..Size  BY <1>2, <3>1
    <3>3. (read' + Size - 1) % Size
            = IF read' + Size <= Size THEN read' + Size - 1 ELSE read' + Size - 1 - Size
      BY <3>2, IndexOfKth
    <3>4. (read' + Size - 1) % Size = read  BY <1>2, <3>1, <3>3
    <3> QED  BY <1>2, <1>4, <1>5, <2>1, <2>2, <3>4
  <2>3. CASE k < Size
    <3> DEFINE at == (read + (k + 1) - 1) % Size
    <3>1. (read' + k - 1) % Size = at /\ at # read  BY <1>2, <1>3, <2>3, ShiftedIndex
    <3>2. at \in 0..Size-1 /\ k + 1 \in 1..Size  BY <1>2, <2>3
    <3>3. Contents[k + 1] = buffer[at]  BY <1>1, <3>2 DEF ByPosition
    <3> QED  BY <1>4, <1>5, <2>1, <2>3, <3>1, <3>2, <3>3
  <2>4. k = Size \/ k < Size  OBVIOUS
  <2> HIDE DEF New
  <2> QED  BY <2>2, <2>3, <2>4
<1>7. Contents' = New
  <2>1. Contents' \in Seq(Bytes) /\ Len(Contents') = Size
    BY <1>1, <1>3 DEF ByPosition
  <2> HIDE DEF New
  <2> QED  BY <1>5, <1>6, <2>1, SeqEqual
<1> QED  BY <1>1, <1>7 DEF ByPosition

LEMMA WriteByteRefines == IInv /\ IInv' /\ WriteByte => Queue!Put
BY WriteByteWithRoom, WriteByteWhenFull DEF WriteByte, Queue!Put

\* em_ringbuf_read copies as many bytes as the queue would.
LEMMA ReadRefines ==
  ASSUME IInv, NEW n \in Lengths, Read(n)
  PROVE  Queue!Read(n)
<1> USE RingBufAssumption
<1> DEFINE m == IF n < Length THEN n ELSE Length
<1>1. ByPosition /\ Length \in 0..Size /\ (Length = Size <=> is_full)
      /\ (Length = 0 <=> IsEmpty)
  BY ContentsType, LengthType
<1>2. read \in 0..Size-1 /\ write \in 0..Size-1 /\ n \in Nat \ {0} /\ (is_full => read = write)
  BY DEF IInv, TypeOK
<1>3. ~is_full => Length = IF write >= read THEN write - read ELSE Size - (read - write)
  BY DEF Length
<1>4. ASSUME NEW j \in 1..Size-1 PROVE (read + j) % Size = write <=> j = Length
  <2> DEFINE at == (read + (j + 1) - 1) % Size
  <2>1. j + 1 \in 1..Size  OBVIOUS
  <2>2. at = IF read + (j + 1) <= Size THEN read + (j + 1) - 1
             ELSE read + (j + 1) - 1 - Size
    BY <1>2, <2>1, IndexOfKth
  <2>3. at = write <=> j = Length
    <3> HIDE DEF at
    <3> QED  BY <1>1, <1>2, <1>3, <2>1, <2>2
  <2>4. read + (j + 1) - 1 = read + j  BY <1>2
  <2> QED  BY <2>3, <2>4
<1>5. ASSUME Length # 0, NEW i \in 0..n-1 PROVE Reaches(i) <=> i < Length
  <2>1. CASE i < Length
    <3>1. \A j \in 1..i : j \in 1..Size-1 /\ j # Length  BY <1>1, <1>2, <2>1
    <3> QED  BY <1>4, <2>1, <3>1 DEF Reaches
  <2>2. CASE i >= Length /\ ~is_full
    <3>1. Length \in 1..i /\ Length \in 1..Size-1  BY <1>1, <1>2, <1>5, <2>2
    <3> QED  BY <1>1, <1>2, <1>4, <2>2, <3>1 DEF Reaches
  <2>3. CASE i >= Length /\ is_full
    <3>1. Size \in 1..i /\ read = write  BY <1>1, <1>2, <2>3
    <3>2. (read + Size) % Size = read
      <4> DEFINE x == read + Size
      <4>1. /\ x \in Int /\ 0 <= x /\ x < Size + Size
            /\ ~(x < Size) /\ x - Size = read
        BY <1>2
      <4>2. x % Size = x - Size
        <5> HIDE DEF x
        <5> QED  BY <4>1, ModIs
      <4> QED  BY <4>1, <4>2
    <3> QED  BY <1>1, <1>2, <2>3, <3>1, <3>2 DEF Reaches
  <2> QED  BY <1>1, <1>2, <2>1, <2>2, <2>3
<1>6. ret' = m
  <2>1. ret' \in 0..n  BY DEF Read
  <2>2. CASE Length = 0  BY <1>1, <1>2, <2>2 DEF Read
  <2>3. CASE Length # 0
    <3>1. \A i \in 0..n-1 : i < ret' <=> i < Length  BY <1>1, <1>5, <2>3 DEF Read
    <3>2. m \in 1..n  BY <1>1, <1>2, <2>3
    <3>3. CASE ret' < m
      <4>1. ret' \in 0..n-1 /\ ret' < Length  BY <1>1, <1>2, <2>1, <3>2, <3>3
      <4> QED  BY <3>1, <4>1
    <3>4. CASE ret' > m
      <4>1. m \in 0..n-1 /\ m < ret' /\ ~(m < Length)  BY <1>1, <1>2, <2>1, <3>2, <3>4
      <4> HIDE DEF m
      <4> QED  BY <3>1, <4>1
    <3> QED  BY <2>1, <3>2, <3>3, <3>4
  <2> QED  BY <2>2, <2>3
<1>7. out' = SubSeq(Contents, 1, m)
  <2>1. out' = [k \in 1..m |-> buffer[(read + k - 1) % Size]]  BY <1>6 DEF Read
  <2>2. m \in 0..Length  BY <1>1, <1>2
  <2>3. \A k \in 1..m : k \in 1..Length  BY <1>1, <2>2
  <2> HIDE DEF m
  <2>4. SubSeq(Contents, 1, m) = [k \in 1..m |-> Contents[k]]
    BY <1>1, <2>2 DEF ByPosition
  <2> QED  BY <1>1, <2>1, <2>3, <2>4 DEF ByPosition
<1>8. Contents' = Contents  BY DEF Read, ring, Contents, Length
<1> QED  BY <1>1, <1>6, <1>7, <1>8 DEF Read, Queue!Read, ByPosition

\* em_ringbuf_clear removes the bytes that the queue would.
LEMMA ClearRefines ==
  ASSUME IInv, IInv', NEW n \in Lengths, Clear(n)
  PROVE  Queue!Clear(n)
<1> USE RingBufAssumption
<1>1. ByPosition /\ ByPosition' /\ Length \in 0..Size /\ (Length = Size <=> is_full)
  BY ContentsType, ContentsTypeNext, LengthType
<1>2. read \in 0..Size-1 /\ write \in 0..Size-1 /\ n \in Nat \ {0} /\ (is_full => read = write)
  BY DEF IInv, TypeOK
<1>3. Contents = <<>> <=> Length = 0  BY <1>1 DEF ByPosition
<1>4. CASE Length = 0
  <2>1. Contents' = Contents  BY <1>4 DEF Clear, Contents, Length
  <2> QED  BY <1>1, <1>2, <1>3, <1>4, <2>1 DEF Clear, Queue!Clear, ByPosition
<1>5. CASE Length # 0 /\ n >= Length
  <2>1. Length' = 0  BY <1>5 DEF Clear, Emptied, Length
  <2>2. Contents' = <<>>  BY <1>1, <2>1 DEF ByPosition
  <2> QED  BY <1>1, <1>2, <1>3, <1>5, <2>2 DEF Clear, Queue!Clear, ByPosition
<1>6. CASE Length # 0 /\ n < Length
  <2>1. /\ read' = (read + n) % Size /\ is_full' = FALSE
        /\ write' = write /\ buffer' = buffer
    BY <1>1, <1>2, <1>6 DEF Clear
  <2>2. n + 1 \in 1..Size  BY <1>1, <1>2, <1>6
  <2> DEFINE first == read + (n + 1) - 1
  <2>3. first % Size = IF read + (n + 1) <= Size THEN first ELSE first - Size
    BY <1>2, <2>2, IndexOfKth
  <2>4. first = read + n  BY <1>2
  <2>5. read' = IF read + n < Size THEN read + n ELSE read + n - Size
    <3> HIDE DEF first
    <3> QED  BY <1>2, <2>1, <2>3, <2>4
  <2>6. read' \in 0..Size-1  BY <1>1, <1>2, <1>6, <2>5
  <2>7. Length = IF is_full THEN Size
                 ELSE IF write >= read THEN write - read ELSE Size - (read - write)
    BY DEF Length
  <2>8. Length' = IF write >= read' THEN write - read' ELSE Size - (read' - write)
    BY <2>1 DEF Length
  <2>9. Length' = Length - n
    BY <1>1, <1>2, <1>6, <2>5, <2>7, <2>8
  <2> DEFINE Rest == SubSeq(Contents, n + 1, Length)
  <2>10. /\ Rest \in Seq(Bytes) /\ Len(Rest) = Length - n
         /\ \A k \in 1..Length-n : Rest[k] = Contents[n + k]
    BY <1>1, <1>2, <1>6 DEF ByPosition
  <2>11. ASSUME NEW k \in 1..Length-n PROVE Contents'[k] = Rest[k]
    <3> DEFINE at   == (read' + k - 1) % Size
               from == (read + (n + k) - 1) % Size
    <3>1. k \in 1..Size /\ n + k \in 1..Size /\ n + k \in 1..Length
      BY <1>1, <1>2, <1>6
    <3>2. at = IF read' + k <= Size THEN read' + k - 1 ELSE read' + k - 1 - Size
      BY <2>6, <3>1, IndexOfKth
    <3>3. from = IF read + (n + k) <= Size THEN read + (n + k) - 1
                 ELSE read + (n + k) - 1 - Size
      BY <1>2, <3>1, IndexOfKth
    <3>4. at = from
      <4> HIDE DEF at, from
      <4> QED  BY <1>2, <2>5, <3>1, <3>2, <3>3
    <3>5. Contents'[k] = buffer[at]  BY <1>1, <2>1, <2>9 DEF ByPosition
    <3>6. Rest[k] = buffer[from]  BY <1>1, <2>10, <3>1 DEF ByPosition
    <3> QED  BY <3>4, <3>5, <3>6
  <2>12. Contents' = Rest
    <3>1. Contents' \in Seq(Bytes) /\ Len(Contents') = Length - n
      BY <1>1, <2>9 DEF ByPosition
    <3> HIDE DEF Rest
    <3> QED  BY <2>10, <2>11, <3>1, SeqEqual
  <2> QED  BY <1>1, <1>2, <1>3, <1>6, <2>12 DEF Clear, Queue!Clear, ByPosition
<1> QED  BY <1>1, <1>2, <1>4, <1>5, <1>6

LEMMA NextRefines == IInv /\ IInv' /\ [Next]_vars => [Queue!Next]_Queue!vars
<1> SUFFICES ASSUME IInv, IInv', [Next]_vars
             PROVE  [Queue!Next]_Queue!vars
  OBVIOUS
<1>1. ASSUME NEW n \in Lengths, Read(n) PROVE Queue!Next
  BY <1>1, ReadRefines DEF Queue!Next
<1>2. ASSUME NEW n \in Lengths, Clear(n) PROVE Queue!Next
  BY <1>2, ClearRefines DEF Queue!Next
<1>3. ASSUME NEW n \in Lengths, NEW data \in [1..n -> Bytes], Write(data)
      PROVE  Queue!Next
  <2>1. Contents' = Contents  BY <1>3 DEF Write, ring, Contents, Length
  <2>2. Queue!Write(data)  BY <1>3, <2>1 DEF Write, Queue!Write
  <2> QED  BY <2>2 DEF Queue!Next
<1>4. CASE WriteByte  BY <1>4, WriteByteRefines DEF Queue!Next
<1>5. CASE Flush
  <2>1. Length' = 0  BY <1>5 DEF Flush, Emptied, Length
  <2>2. Contents' = <<>>  BY ContentsTypeNext, <2>1 DEF ByPosition
  <2>3. Queue!Flush  BY <1>5, <2>2 DEF Flush, Queue!Flush
  <2> QED  BY <2>3 DEF Queue!Next
<1>6. CASE Measure
  <2>1. Contents' = Contents  BY <1>6 DEF Measure, ring, Contents, Length
  <2>2. Len(Contents) = Length  BY ContentsType DEF ByPosition
  <2>3. Queue!Measure  BY <1>6, <2>1, <2>2 DEF Measure, Queue!Measure
  <2> QED  BY <2>3 DEF Queue!Next
<1>7. CASE UNCHANGED vars
  BY <1>7 DEF vars, Queue!vars, Contents, Length
<1> QED  BY <1>1, <1>2, <1>3, <1>4, <1>5, <1>6, <1>7 DEF Next

(***************************************************************************)
(* em_ringbuf is an overwriting queue (ringbuf.c:13-145): whatever the     *)
(* size and the calls, it copies, keeps, loses and counts the bytes that   *)
(* such a queue would.                                                     *)
(***************************************************************************)
THEOREM QueueImplemented == Spec => ImplementsQueue
BY InitRefines, NextRefines, Invariance, PTL DEF Spec, ImplementsQueue, Queue!Spec

\* Among the parts the ring buffer behaves as it does alone.
LEMMA BufferStep == [PartsNext]_partsVars => [Next]_vars
<1> SUFFICES ASSUME [PartsNext]_partsVars PROVE [Next]_vars  OBVIOUS
<1>1. CASE UNCHANGED partsVars  BY <1>1 DEF partsVars, vars
<1>2. CASE PartsNext  BY <1>2 DEF PartsNext, Works
<1> QED  BY <1>1, <1>2

\* Hence it is an overwriting queue in the firmware too (task.c:31-40, ringbuf.c).
THEOREM QueueAmongParts == PartsSpec => ImplementsQueue
<1>1. PartsInit => Init  BY DEF PartsInit
<1>2. PartsSpec => Spec  BY <1>1, BufferStep, PTL DEF PartsSpec, Spec
<1> QED  BY <1>2, QueueImplemented

-----------------------------------------------------------------------------
(* The LED's scenes                                                        *)

Scenes == [type : {"BLINK_ONCE", "BLINK_PERIODIC", "OFF"}, repeats : Nat,
           at : {"cancelled", "written"}]

LedTypeOK ==
  /\ rq_led_on \in BOOLEAN
  /\ once \in Nat
  /\ periodic \in [toggles : Nat, time : Int, repeats : Nat, period : Nat]
  /\ call \in Int
  /\ changer \in [at : {"idle", "look", "once", "periodic", "switch", "flip", "wait", "restore"},
                  arg : Int]
  /\ setter \in [LedTasks -> {NoScene} \cup Scenes]

Setting == setter # [t \in LedTasks |-> NoScene]

\* What the timer task is about to do leaves a call pending, or there is
\* nothing left to blink, or a task that sets a scene will see to it.
ChangerGoesOn ==
  /\ changer.at = "idle" => changer.arg = 0
  /\ changer.at \in {"switch", "flip"} => changer.arg # 0
  /\ changer.at = "wait" => periodic.time > 0
  /\ changer.at = "restore" =>
       \/ once = 0 /\ periodic.toggles = 0
       \/ call # NoCall
       \/ Setting

LedInv == LedTypeOK /\ ChangerGoesOn /\ LedSettles

LEMMA LedNumbers ==
  /\ Separation \in Nat \ {0} /\ TOn \in Nat \ {0} /\ TOff \in Nat \ {0} /\ Word \in Nat \ {0}
  /\ Period \in Nat
  /\ \A n \in Repeats : n \in Nat
  /\ \A n \in IdentifyCounts : n \in Nat
  BY LedsAssumption

LEMMA Modulo ==
  ASSUME NEW a \in Int, NEW m \in Nat \ {0}
  PROVE  a % m \in Nat /\ a % m < m
  OBVIOUS

LEMMA LedAtRest ==
  /\ [toggles |-> 0, time |-> 0, repeats |-> 0, period |-> 0]
       \in [toggles : Nat, time : Int, repeats : Nat, period : Nat]
  /\ Idle \in [at : {"idle", "look", "once", "periodic", "switch", "flip", "wait", "restore"},
               arg : Int]
  /\ [t \in LedTasks |-> NoScene] \in [LedTasks -> {NoScene} \cup Scenes]
<1>1. Idle \in [at : {"idle", "look", "once", "periodic", "switch", "flip", "wait", "restore"},
                arg : Int]
  BY DEF Idle
<1>2. [t \in LedTasks |-> NoScene] \in [LedTasks -> {NoScene} \cup Scenes]  OBVIOUS
<1> QED  BY <1>1, <1>2

LEMMA LedInitial == LedInit => LedInv
<1> SUFFICES ASSUME LedInit PROVE LedInv OBVIOUS
<1>1. LedTypeOK  BY LedAtRest DEF LedInit, LedTypeOK, NoCall
<1>2. ChangerGoesOn  BY DEF LedInit, ChangerGoesOn, Idle
<1>3. LedSettles  BY DEF LedInit, LedSettles
<1> QED  BY <1>1, <1>2, <1>3 DEF LedInv

LEMMA LedUnchanged == LedInv /\ UNCHANGED ledVars => LedInv'
  BY DEF LedInv, ledVars, LedTypeOK, ChangerGoesOn, LedSettles, Setting

LEMMA LedCalled == LedInv /\ CallLed => LedInv'
  BY DEF LedInv, LedTypeOK, ChangerGoesOn, LedSettles, Setting, CallLed, NoCall, Idle

LEMMA LedLooks == LedInv /\ Look => LedInv'
  BY DEF LedInv, LedTypeOK, ChangerGoesOn, LedSettles, Setting, Look, Idle

LEMMA LedTogglesOnce == LedInv /\ ToggleOnce => LedInv'
  BY LedNumbers, Modulo DEF LedInv, LedTypeOK, ChangerGoesOn, LedSettles, Setting, ToggleOnce, NextChange, Idle

LEMMA LedTogglesPeriodic == LedInv /\ TogglePeriodic => LedInv'
<1> SUFFICES ASSUME LedInv, TogglePeriodic PROVE LedInv'  OBVIOUS
<1> DEFINE left == (periodic.toggles - 1) % Word
<1>1. left \in Nat  BY LedNumbers, Modulo DEF LedInv, LedTypeOK
<1>2. NextChange \in Nat \ {0}  BY LedNumbers DEF NextChange
<1>3. periodic' \in [toggles : Nat, time : Int, repeats : Nat, period : Nat]
  <2>1. CASE left # 0
    BY <1>1, <2>1 DEF LedInv, LedTypeOK, TogglePeriodic
  <2>2. CASE left = 0
    <3>1. periodic' = [periodic EXCEPT !.toggles = 2 * periodic.repeats,
                                       !.time = periodic.period + NextChange]
      BY <2>2 DEF TogglePeriodic
    <3>2. 2 * periodic.repeats \in Nat /\ periodic.period + NextChange \in Int
      BY <1>2 DEF LedInv, LedTypeOK
    <3> QED  BY <3>1, <3>2 DEF LedInv, LedTypeOK
  <2> QED  BY <2>1, <2>2
<1>4. changer' = [at |-> "switch", arg |-> NextChange]  BY DEF TogglePeriodic
<1>5. LedTypeOK'  BY <1>2, <1>3, <1>4 DEF LedInv, LedTypeOK, TogglePeriodic
<1>6. ChangerGoesOn'  BY <1>2, <1>4 DEF ChangerGoesOn
<1>7. LedSettles'  BY <1>4 DEF LedSettles, Idle
<1> QED  BY <1>5, <1>6, <1>7 DEF LedInv

LEMMA LedSwitches == LedInv /\ Switch => LedInv'
  BY DEF LedInv, LedTypeOK, ChangerGoesOn, LedSettles, Setting, Switch, Idle

LEMMA LedFlips == LedInv /\ FlipAndSchedule => LedInv'
  BY DEF LedInv, LedTypeOK, ChangerGoesOn, LedSettles, Setting, FlipAndSchedule, Idle, NoCall

LEMMA LedWaits == LedInv /\ WaitForPeriod => LedInv'
  BY DEF LedInv, LedTypeOK, ChangerGoesOn, LedSettles, Setting, WaitForPeriod, Idle, NoCall

LEMMA LedRestores == LedInv /\ Restore => LedInv'
  BY DEF LedInv, LedTypeOK, ChangerGoesOn, LedSettles, Setting, Restore, Idle, NoCall

LEMMA LedCancels ==
  ASSUME LedInv, NEW t \in LedTasks, NEW type \in {"BLINK_ONCE", "BLINK_PERIODIC", "OFF"},
         NEW repeats \in Nat, Cancel(t, type, repeats), UNCHANGED changer
  PROVE  LedInv'
<1> DEFINE scene == [type |-> type, repeats |-> repeats, at |-> "cancelled"]
<1>1. scene \in Scenes /\ scene # NoScene  BY DEF Scenes, NoScene
<1>2. setter' = [setter EXCEPT ![t] = scene]  BY DEF Cancel, Set
<1> HIDE DEF scene
<1>3. setter'[t] = scene  BY <1>2 DEF LedInv, LedTypeOK
<1>4. Setting'  BY <1>1, <1>3 DEF Setting
<1>5. LedTypeOK'  BY <1>1, <1>2 DEF LedInv, LedTypeOK, Cancel, NoCall
<1>6. ChangerGoesOn'  BY <1>4 DEF LedInv, ChangerGoesOn, Cancel
<1>7. LedSettles'  BY <1>4 DEF LedSettles, Setting
<1> QED  BY <1>5, <1>6, <1>7 DEF LedInv

LEMMA LedClears ==
  ASSUME LedInv, NEW type, ClearScene(type), UNCHANGED changer
  PROVE  LedInv'
<1>1. periodic' \in [toggles : Nat, time : Int, repeats : Nat, period : Nat]
  BY DEF LedInv, LedTypeOK, ClearScene
<1>2. /\ periodic'.time = periodic.time
      /\ periodic'.toggles \in {0, periodic.toggles}
      /\ once' \in {0, once}
  BY DEF LedInv, LedTypeOK, ClearScene
<1>3. LedTypeOK'  BY <1>1, <1>2 DEF LedInv, LedTypeOK, ClearScene
<1>4. ChangerGoesOn'  BY <1>2 DEF LedInv, ChangerGoesOn, ClearScene, Setting
<1>5. LedSettles'  BY <1>2 DEF LedInv, LedSettles, ClearScene
<1> QED  BY <1>3, <1>4, <1>5 DEF LedInv

LEMMA LedEvent == LedInv /\ EventScene => LedInv'
<1> SUFFICES ASSUME LedInv, EventScene PROVE LedInv'  OBVIOUS
<1>1. PICK scene \in ScenesOfEvents :
        IF scene.type = "BLINK_ONCE" THEN Cancel("event", scene.type, scene.repeats)
        ELSE ClearScene(scene.type)
  BY DEF EventScene
<1>2. UNCHANGED changer  BY DEF EventScene
<1>3. CASE scene.type = "BLINK_ONCE"
  <2>1. scene.repeats \in Nat  BY <1>3, LedNumbers DEF ScenesOfEvents
  <2> QED  BY <1>1, <1>2, <1>3, <2>1, LedCancels DEF LedTasks
<1>4. CASE scene.type # "BLINK_ONCE"  BY <1>1, <1>2, <1>4, LedClears
<1> QED  BY <1>3, <1>4

LEMMA LedIdentify == LedInv /\ Identify => LedInv'
<1> SUFFICES ASSUME LedInv, Identify PROVE LedInv'  OBVIOUS
<1>1. UNCHANGED changer  BY DEF Identify
<1>2. CASE SetBackground
  BY <1>1, <1>2 DEF LedInv, LedTypeOK, ChangerGoesOn, LedSettles, Setting, SetBackground
<1>3. CASE \E type \in {"CLEAR_ONCE", "CLEAR_PERIODIC", "CLEAR_ALL"} : ClearScene(type)
  BY <1>1, <1>3, LedClears
<1>4. CASE \E type \in {"BLINK_ONCE", "BLINK_PERIODIC", "OFF"}, n \in IdentifyCounts :
             ~AssertFails(type, n) /\ Cancel("rx", type, n)
  <2> PICK type \in {"BLINK_ONCE", "BLINK_PERIODIC", "OFF"}, n \in IdentifyCounts :
           Cancel("rx", type, n)
    BY <1>4
  <2>1. n \in Nat  BY LedNumbers
  <2>2. "rx" \in LedTasks  BY DEF LedTasks
  <2> QED  BY <1>1, <2>1, <2>2, LedCancels
<1> QED  BY <1>2, <1>3, <1>4 DEF Identify

LEMMA LedIdentifyAborts == LedInv /\ IdentifyAborts => LedInv'
<1> SUFFICES ASSUME IdentifyAborts PROVE LedInv'  OBVIOUS
<1>1. LedTypeOK'  BY LedAtRest DEF IdentifyAborts, LedTypeOK, NoCall
<1>2. ChangerGoesOn'  BY DEF IdentifyAborts, ChangerGoesOn, Idle
<1>3. LedSettles'  BY DEF IdentifyAborts, LedSettles
<1> QED  BY <1>1, <1>2, <1>3 DEF LedInv

LEMMA LedWrites ==
  ASSUME LedInv, NEW t \in LedTasks, WriteScene(t)
  PROVE  LedInv'
  BY LedNumbers DEF LedInv, LedTypeOK, ChangerGoesOn, LedSettles, Setting, WriteScene, Set, Idle, NoCall, NoScene, LedTasks, Scenes

LEMMA LedSchedules ==
  ASSUME LedInv, NEW t \in LedTasks, ScheduleScene(t)
  PROVE  LedInv'
  BY LedNumbers DEF LedInv, LedTypeOK, ChangerGoesOn, LedSettles, Setting, ScheduleScene, Set, Idle, NoCall, NoScene, LedTasks, Scenes

LEMMA LedStep == LedInv /\ LedNext => LedInv'
  BY LedCalled, LedLooks, LedTogglesOnce, LedTogglesPeriodic, LedSwitches, LedFlips, LedWaits,
     LedRestores, LedEvent, LedIdentify, LedIdentifyAborts, LedWrites, LedSchedules
  DEF LedNext, ChangeLedState

LEMMA LedSettled == PartsSpec => []LedInv
<1>1. PartsInit => LedInv  BY LedInitial DEF PartsInit
<1>2. LedInv /\ [PartsNext]_partsVars => LedInv'
  <2> SUFFICES ASSUME LedInv, [PartsNext]_partsVars PROVE LedInv'  OBVIOUS
  <2>1. CASE UNCHANGED partsVars  BY <2>1, LedUnchanged DEF partsVars
  <2>2. CASE Works("leds") /\ LedNext  BY <2>2, LedStep
  <2>3. CASE PartsNext /\ ~(Works("leds") /\ LedNext)
    <3>1. UNCHANGED ledVars  BY <2>3 DEF PartsNext, Works
    <3> QED  BY <3>1, LedUnchanged
  <2> QED  BY <2>1, <2>2, <2>3
<1> QED  BY <1>1, <1>2, PTL DEF PartsSpec, partsVars

(***************************************************************************)
(* The LED never gets stuck (scene.c:44-110): whatever scenes are set and  *)
(* zeroed while change_led_state is under way, for all blinking times,    *)
(* repeats and periods.                                                    *)
(***************************************************************************)
THEOREM LedNeverStuck == PartsSpec => []LedSettles
  BY LedSettled, PTL DEF LedInv

-----------------------------------------------------------------------------
(* The Wi-Fi station                                                       *)

WifiEvents == {"wifi_disconnected", "got_ip", "wifi_scan_done"}

WifiTypeOK ==
  /\ radio \in {"idle", "connecting", "up"}
  /\ pending \in Seq(WifiEvents)
  /\ handler \in {"idle", "reconnect"}
  /\ connector \in {"idle", "connect?", "connected?", "connect", "disconnect"}
  /\ leaving \in {"no", "demanded", "disconnected", "reset", "restart"}

\* There is a link or an attempt, or what starts the next one.
Alive == radio # "idle" \/ Queued("wifi_disconnected") \/ handler = "reconnect"

StaysAlive ==
  leaving = "no" =>
    /\ ~IsDisconnectedOnDemand
    /\ IsConnected \/ Queued("got_ip") \/ connector = "disconnect" => Alive
    /\ IsProvisioned => Alive \/ connector \in {"connect?", "connected?", "connect"}

WifiInv == WifiTypeOK /\ StaysAlive

LEMMA WifiInitial == WifiInit => WifiInv
  BY DEF WifiInit, StaInit, WifiInv, WifiTypeOK, StaysAlive, Alive, Queued, WifiEvents,
         IsDisconnectedOnDemand, IsConnected, IsProvisioned

LEMMA WifiUnchanged == WifiInv /\ UNCHANGED wifiVars => WifiInv'
  BY DEF wifiVars, WifiInv, WifiTypeOK, StaysAlive, Alive, Queued,
         IsDisconnectedOnDemand, IsConnected, IsProvisioned

\* What is appended is queued; what was, still is.
LEMMA PendingGrows ==
  ASSUME WifiTypeOK, NEW e \in WifiEvents, pending' = Append(pending, e)
  PROVE  /\ pending' \in Seq(WifiEvents)
         /\ Queued(e)'
         /\ \A d : Queued(d) => Queued(d)'
         /\ \A d : Queued(d)' => Queued(d) \/ d = e
  BY DEF WifiTypeOK, Queued

\* Only the event that is taken is not queued any more.
LEMMA PendingShrinks ==
  ASSUME WifiTypeOK, pending # <<>>, pending' = Tail(pending)
  PROVE  /\ pending' \in Seq(WifiEvents)
         /\ \A d : Queued(d) => Queued(d)' \/ d = Head(pending)
         /\ \A d : Queued(d)' => Queued(d)
         /\ Queued(Head(pending))
<1>1. /\ Len(pending) \in Nat \ {0} /\ pending' \in Seq(WifiEvents)
      /\ DOMAIN pending = 1..Len(pending) /\ DOMAIN pending' = 1..Len(pending)-1
      /\ \A i \in 1..Len(pending)-1 : pending'[i] = pending[i + 1]
      /\ Head(pending) = pending[1]
  BY DEF WifiTypeOK
<1>2. ASSUME NEW d, Queued(d)  PROVE Queued(d)' \/ d = Head(pending)
  <2>1. PICK i \in 1..Len(pending) : pending[i] = d  BY <1>1, <1>2 DEF Queued
  <2>2. CASE i = 1  BY <1>1, <2>1, <2>2
  <2>3. CASE i # 1
    <3>1. i - 1 \in 1..Len(pending)-1 /\ (i - 1) + 1 = i  BY <1>1, <2>3
    <3>2. pending'[i - 1] = d  BY <1>1, <2>1, <3>1
    <3> QED  BY <1>1, <3>1, <3>2 DEF Queued
  <2> QED  BY <2>2, <2>3
<1>3. ASSUME NEW d, Queued(d)'  PROVE Queued(d)
  <2>1. PICK i \in 1..Len(pending)-1 : pending'[i] = d  BY <1>1, <1>3 DEF Queued
  <2>2. i + 1 \in 1..Len(pending)  BY <1>1
  <2> QED  BY <1>1, <2>1, <2>2 DEF Queued
<1>4. Queued(Head(pending))  BY <1>1 DEF Queued
<1> QED  BY <1>1, <1>2, <1>3, <1>4

LEMMA Disconnects ==
  ASSUME WifiTypeOK, EspDisconnect, UNCHANGED handler
  PROVE  /\ radio' = "idle" /\ pending' \in Seq(WifiEvents)
         /\ Alive => Alive'
         /\ Queued("got_ip")' => Queued("got_ip")
<1>1. CASE radio = "idle"
  BY <1>1 DEF EspDisconnect, Alive, WifiTypeOK, Queued
<1>2. CASE radio # "idle"
  BY <1>2, PendingGrows DEF EspDisconnect, Alive, WifiEvents
<1> QED  BY <1>1, <1>2

LEMMA WifiLinkLost == WifiInv /\ LinkLost => WifiInv'
  BY Disconnects DEF LinkLost, WifiInv, WifiTypeOK, StaysAlive, Alive,
         IsDisconnectedOnDemand, IsConnected, IsProvisioned

LEMMA WifiGotIp == WifiInv /\ GotIp => WifiInv'
  BY PendingGrows DEF GotIp, WifiEvents, WifiInv, WifiTypeOK, StaysAlive, Alive,
         IsDisconnectedOnDemand, IsConnected, IsProvisioned

LEMMA WifiScanDone == WifiInv /\ ScanDone => WifiInv'
  BY PendingGrows DEF ScanDone, WifiEvents, WifiInv, WifiTypeOK, StaysAlive, Alive,
         IsDisconnectedOnDemand, IsConnected, IsProvisioned

\* The connection, from app_main and from the BLE host task
LEMMA WifiConnector ==
  WifiInv /\ (StaConnect \/ SetCredentials \/ TestConnected \/ Connect) => WifiInv'
<1> SUFFICES ASSUME WifiInv, StaConnect \/ SetCredentials \/ TestConnected \/ Connect
             PROVE  WifiInv'
  OBVIOUS
<1> USE DEF WifiInv, WifiTypeOK, StaysAlive, Alive, Queued,
            IsDisconnectedOnDemand, IsConnected, IsProvisioned
<1>1. CASE StaConnect  BY <1>1 DEF StaConnect
<1>2. CASE SetCredentials  BY <1>2 DEF SetCredentials
<1>3. CASE TestConnected  BY <1>3 DEF TestConnected
<1>4. CASE Connect  BY <1>4 DEF Connect, EspConnect
<1> QED  BY <1>1, <1>2, <1>3, <1>4

LEMMA WifiDisconnectsToChange == WifiInv /\ DisconnectToChange => WifiInv'
  BY Disconnects DEF DisconnectToChange, WifiInv, WifiTypeOK, StaysAlive,
         IsDisconnectedOnDemand, IsConnected, IsProvisioned

LEMMA WifiScanner == WifiInv /\ (ScanStart \/ ScanStarted) => WifiInv'
  BY DEF ScanStart, ScanStarted, WifiInv, WifiTypeOK, StaysAlive, Alive, Queued,
         IsDisconnectedOnDemand, IsConnected, IsProvisioned

\* The handlers of the event task
LEMMA WifiOnDisconnected == WifiInv /\ OnDisconnected => WifiInv'
  BY PendingShrinks DEF OnDisconnected, Handles, WifiInv, WifiTypeOK, StaysAlive, Alive,
         IsDisconnectedOnDemand, IsConnected, IsProvisioned

LEMMA WifiReconnect == WifiInv /\ Reconnect => WifiInv'
  BY DEF Reconnect, EspConnect, WifiInv, WifiTypeOK, StaysAlive, Alive, Queued,
         IsDisconnectedOnDemand, IsConnected, IsProvisioned

LEMMA WifiOnGotIp == WifiInv /\ OnGotIp => WifiInv'
  BY PendingShrinks DEF OnGotIp, Handles, WifiInv, WifiTypeOK, StaysAlive, Alive,
         IsDisconnectedOnDemand, IsConnected, IsProvisioned

LEMMA WifiOnScanDone == WifiInv /\ OnScanDone => WifiInv'
  BY PendingShrinks DEF OnScanDone, Handles, WifiInv, WifiTypeOK, StaysAlive, Alive,
         IsDisconnectedOnDemand, IsConnected, IsProvisioned

\* Who takes the station down says so first, and the restart forgets it.
LEMMA WifiLeaves ==
  WifiInv /\ (StaDisconnect \/ FactoryReset \/ StopReconnecting \/ WifiRestart) => WifiInv'
<1> SUFFICES ASSUME WifiInv, StaDisconnect \/ FactoryReset \/ StopReconnecting \/ WifiRestart
             PROVE  WifiInv'
  OBVIOUS
<1>1. CASE StaDisconnect
  BY <1>1, Disconnects DEF StaDisconnect, WifiInv, WifiTypeOK, StaysAlive
<1>2. CASE FactoryReset  BY <1>2 DEF FactoryReset, WifiInv, WifiTypeOK, StaysAlive
<1>3. CASE StopReconnecting  BY <1>3 DEF StopReconnecting, WifiInv, WifiTypeOK, StaysAlive
<1>4. CASE WifiRestart
  BY <1>4 DEF WifiRestart, StaInit, WifiInv, WifiTypeOK, StaysAlive, Alive, Queued, WifiEvents,
              IsDisconnectedOnDemand, IsConnected, IsProvisioned
<1> QED  BY <1>1, <1>2, <1>3, <1>4

LEMMA WifiStep == WifiInv /\ WifiNext => WifiInv'
  BY WifiLinkLost, WifiGotIp, WifiScanDone, WifiConnector, WifiDisconnectsToChange, WifiScanner,
     WifiOnDisconnected, WifiReconnect, WifiOnGotIp, WifiOnScanDone, WifiLeaves
  DEF WifiNext, WifiEvent

LEMMA WifiGoesOn == PartsSpec => []WifiInv
<1>1. PartsInit => WifiInv  BY WifiInitial DEF PartsInit
<1>2. WifiInv /\ [PartsNext]_partsVars => WifiInv'
  <2> SUFFICES ASSUME WifiInv, [PartsNext]_partsVars PROVE WifiInv'  OBVIOUS
  <2>1. CASE UNCHANGED partsVars  BY <2>1, WifiUnchanged DEF partsVars
  <2>2. CASE Works("wi-fi") /\ WifiNext  BY <2>2, WifiStep
  <2>3. CASE PartsNext /\ ~(Works("wi-fi") /\ WifiNext)
    <3>1. UNCHANGED wifiVars  BY <2>3 DEF PartsNext, Works
    <3> QED  BY <3>1, WifiUnchanged
  <2> QED  BY <2>1, <2>2, <2>3
<1> QED  BY <1>1, <1>2, PTL DEF PartsSpec, partsVars

(***************************************************************************)
(* A provisioned station that nobody takes down has a link, an attempt or  *)
(* what starts the next one (wifi.c:21-55, 205-227), for any number of     *)
(* events that wait.                                                       *)
(***************************************************************************)
THEOREM StationStaysAlive == PartsSpec => []ReconnectComes
<1>1. WifiInv => ReconnectComes  BY DEF WifiInv, WifiTypeOK, StaysAlive, Alive, ReconnectComes
<1> QED  BY <1>1, WifiGoesOn, PTL

-----------------------------------------------------------------------------
(* Provisioning                                                            *)

ProvEvents == Outside \cup {"ble_connected", "ble_disconnected"}

ProvTypeOK ==
  /\ events \in Seq(ProvEvents)
  /\ {starting, initialized, scheduled, limited} \subseteq BOOLEAN
  /\ host \in {"down", "syncing", "ready", "advertising", "connected", "stopped"}
  /\ stopper \in [Stoppers -> {"idle", "clear", "stop", "deinit"}]

\* A disconnection is queued after the i-th event.
Shut(i) == \E j \in DOMAIN events : j > i /\ events[j] = "ble_disconnected"

\* A connection that is over is followed by its end.
SessionsShut ==
  host # "connected" => \A i \in DOMAIN events : events[i] = "ble_connected" => Shut(i)

\* As SessionEnds, but with the stack still to synchronise, and with a
\* connection on its way to the event task.
EndComes ==
  /\ initialized /\ limited
  /\ host \in {"syncing", "ready", "advertising"}
  /\ \A i \in DOMAIN events : events[i] # "ble_disconnected"
  /\ ~starting
  /\ \A t \in Stoppers : stopper[t] = "idle"
  => scheduled

ProvInv == ProvTypeOK /\ SessionsShut /\ EndComes

LEMMA ProvInitial == ProvInit => ProvInv
<1> SUFFICES ASSUME ProvInit PROVE ProvInv  OBVIOUS
<1>1. ProvTypeOK
  <2>1. <<>> \in Seq(ProvEvents)  OBVIOUS
  <2>2. [t \in Stoppers |-> "idle"] \in [Stoppers -> {"idle", "clear", "stop", "deinit"}]
    OBVIOUS
  <2> QED  BY <2>1, <2>2 DEF ProvInit, ProvTypeOK
<1>2. SessionsShut  BY DEF ProvInit, SessionsShut
<1>3. EndComes  BY DEF ProvInit, EndComes
<1> QED  BY <1>1, <1>2, <1>3 DEF ProvInv

LEMMA ProvUnchanged == ProvInv /\ UNCHANGED provVars => ProvInv'
  BY DEF provVars, ProvInv, ProvTypeOK, SessionsShut, EndComes, Shut

LEMMA ProvAborts == Abort => ProvInv'
<1> SUFFICES ASSUME Abort PROVE ProvInv'  OBVIOUS
<1>1. ProvTypeOK'
  <2>1. <<>> \in Seq(ProvEvents)  OBVIOUS
  <2>2. [t \in Stoppers |-> "idle"] \in [Stoppers -> {"idle", "clear", "stop", "deinit"}]
    OBVIOUS
  <2> QED  BY <2>1, <2>2 DEF Abort, ProvTypeOK
<1>2. SessionsShut'  BY DEF Abort, SessionsShut
<1>3. EndComes'  BY DEF Abort, EndComes
<1> QED  BY <1>1, <1>2, <1>3 DEF ProvInv

\* A disconnection at the end shuts everything before it; another event than
\* a connection leaves what is shut so.
LEMMA EventsGrow ==
  ASSUME ProvTypeOK, NEW e \in ProvEvents, events' = Append(events, e)
  PROVE  /\ events' \in Seq(ProvEvents)
         /\ e = "ble_disconnected" =>
              \A i \in DOMAIN events' : events'[i] = "ble_connected" => Shut(i)'
         /\ e # "ble_connected" /\ SessionsShut /\ (host' # "connected" => host # "connected") => SessionsShut'
         /\ \A i \in DOMAIN events : i \in DOMAIN events' /\ events'[i] = events[i]
         /\ \E i \in DOMAIN events' : events'[i] = e
<1>1. /\ Len(events) \in Nat /\ DOMAIN events = 1..Len(events)
      /\ events' \in Seq(ProvEvents) /\ DOMAIN events' = 1..Len(events)+1
      /\ \A i \in 1..Len(events) : events'[i] = events[i]
      /\ events'[Len(events)+1] = e
  BY DEF ProvTypeOK
<1>2. CASE e = "ble_disconnected"
  <2>1. \A i \in DOMAIN events' : events'[i] = "ble_connected" => i < Len(events) + 1
    BY <1>1, <1>2
  <2> QED  BY <1>1, <1>2, <2>1 DEF Shut, SessionsShut
<1>3. CASE e # "ble_disconnected"  BY <1>1, <1>3 DEF Shut, SessionsShut
<1> QED  BY <1>2, <1>3

\* What is shut stays so when the head is taken.
LEMMA EventsShrink ==
  ASSUME ProvTypeOK, NEW e, Takes(e)
  PROVE  /\ events' \in Seq(ProvEvents)
         /\ ~starting
         /\ SessionsShut /\ (host' # "connected" => host # "connected") => SessionsShut'
         /\ \A i \in DOMAIN events : events[i] = e \/ \E j \in DOMAIN events' : events'[j] = events[i]
         /\ e = "ble_connected" /\ SessionsShut /\ host # "connected" =>
              \E i \in DOMAIN events' : events'[i] = "ble_disconnected"
<1>1. /\ Len(events) \in Nat \ {0} /\ DOMAIN events = 1..Len(events)
      /\ events' \in Seq(ProvEvents) /\ DOMAIN events' = 1..Len(events)-1
      /\ \A i \in 1..Len(events)-1 : events'[i] = events[i + 1]
      /\ events[1] = e /\ ~starting
  BY DEF ProvTypeOK, Takes
<1>2. ASSUME NEW i \in 2..Len(events)
      PROVE  i - 1 \in DOMAIN events' /\ events'[i - 1] = events[i]
  BY <1>1
<1>3. ASSUME NEW i \in DOMAIN events', Shut(i + 1)  PROVE Shut(i)'
  <2>1. PICK j \in DOMAIN events : j > i + 1 /\ events[j] = "ble_disconnected"  BY <1>3 DEF Shut
  <2>2. j \in 2..Len(events) /\ j - 1 > i  BY <1>1, <2>1
  <2> QED  BY <1>2, <2>1, <2>2 DEF Shut
<1>4. SessionsShut /\ (host' # "connected" => host # "connected") => SessionsShut'
  BY <1>1, <1>3 DEF SessionsShut
<1>5. \A i \in DOMAIN events : events[i] = e \/ \E j \in DOMAIN events' : events'[j] = events[i]
  <2> SUFFICES ASSUME NEW i \in DOMAIN events, i # 1
               PROVE  \E j \in DOMAIN events' : events'[j] = events[i]
    BY <1>1
  <2>1. i \in 2..Len(events)  BY <1>1
  <2> QED  BY <1>2, <2>1
<1>6. ASSUME e = "ble_connected", SessionsShut, host # "connected"
      PROVE  \E i \in DOMAIN events' : events'[i] = "ble_disconnected"
  <2>1. PICK j \in DOMAIN events : j > 1 /\ events[j] = "ble_disconnected"
    BY <1>1, <1>6 DEF SessionsShut, Shut
  <2>2. j \in 2..Len(events)  BY <1>1, <2>1
  <2> QED  BY <1>2, <2>1, <2>2
<1> QED  BY <1>1, <1>4, <1>5, <1>6

\* The host task: OnSync, GapEvent, and the client's writes
LEMMA ProvHost ==
  ASSUME ProvInv, OnSync \/ GapEvent  PROVE ProvInv'
<1> USE DEF ProvInv, StartAdvertising
<1>1. CASE OnSync \/ ConnectFails
  BY <1>1 DEF OnSync, ConnectFails, ProvTypeOK, SessionsShut, Shut, EndComes
<1>2. CASE ClientConnects
  <2>1. events' \in Seq(ProvEvents)  BY <1>2, EventsGrow DEF ClientConnects, ProvEvents
  <2> QED  BY <1>2, <2>1 DEF ClientConnects, ProvTypeOK, SessionsShut, EndComes
<1>3. CASE ClientLeaves
  <2>1. /\ events' \in Seq(ProvEvents)
        /\ \A i \in DOMAIN events' : events'[i] = "ble_connected" => Shut(i)'
        /\ \E i \in DOMAIN events' : events'[i] = "ble_disconnected"
    BY <1>3, EventsGrow DEF ClientLeaves, ProvEvents
  <2> QED  BY <1>3, <2>1 DEF ClientLeaves, ProvTypeOK, SessionsShut, EndComes
<1> QED  BY <1>1, <1>2, <1>3 DEF GapEvent

LEMMA ProvWrites ==
  ASSUME ProvInv, (\E c \in {"ssid", "password"} : WriteCredential(c)) \/ WriteConnection
  PROVE  ProvInv'
  BY DEF WriteCredential, WriteConnection, ProvInv, ProvTypeOK, SessionsShut, Shut, EndComes

LEMMA ProvPosts ==
  ASSUME ProvInv, NEW e \in Outside, Post(e)  PROVE ProvInv'
<1>1. /\ events' \in Seq(ProvEvents) /\ SessionsShut'
      /\ \A i \in DOMAIN events : i \in DOMAIN events' /\ events'[i] = events[i]
  BY EventsGrow DEF Post, ProvEvents, Outside, ProvInv
<1> QED  BY <1>1 DEF Post, ProvInv, ProvTypeOK, EndComes

\* The event task
LEMMA ProvStarts ==
  ASSUME ProvInv, On3xClick \/ ScheduleStop \/ OnApList \/ StartAborts
  PROVE  ProvInv'
<1> USE DEF ProvInv
<1>1. CASE On3xClick
  <2>1. /\ events' \in Seq(ProvEvents) /\ ~starting
        /\ \A i \in DOMAIN events :
             events[i] = "3x_click" \/ \E j \in DOMAIN events' : events'[j] = events[i]
    BY <1>1, EventsShrink DEF On3xClick
  <2>2. SessionsShut'
    BY <1>1, EventsShrink DEF On3xClick, BleInit, BleInitAborts
  <2>3. CASE BleInit(TRUE)
    BY <1>1, <2>1, <2>2, <2>3 DEF On3xClick, BleInit, ProvTypeOK, EndComes
  <2>4. CASE UNCHANGED <<starting, initialized, host, limited>>
    BY <1>1, <2>1, <2>2, <2>4 DEF On3xClick, ProvTypeOK, EndComes
  <2> QED  BY <1>1, <2>3, <2>4 DEF On3xClick
<1>2. CASE ScheduleStop
  BY <1>2 DEF ScheduleStop, ProvTypeOK, SessionsShut, Shut, EndComes
<1>3. CASE OnApList
  <2>1. /\ events' \in Seq(ProvEvents) /\ ~starting
        /\ \A i \in DOMAIN events :
             events[i] = "scan_done" \/ \E j \in DOMAIN events' : events'[j] = events[i]
    BY <1>3, EventsShrink DEF OnApList
  <2>2. SessionsShut'
    BY <1>3, EventsShrink DEF OnApList, BleInit, BleInitAborts
  <2>3. CASE BleInit(FALSE)
    <3>1. ProvTypeOK'  BY <1>3, <2>1, <2>3 DEF OnApList, BleInit, ProvTypeOK
    <3>2. EndComes'  BY <1>3, <2>1, <2>3 DEF OnApList, BleInit, EndComes
    <3> QED  BY <2>2, <3>1, <3>2
  <2>4. CASE UNCHANGED <<starting, initialized, host, limited>>
    BY <1>3, <2>1, <2>2, <2>4 DEF OnApList, ProvTypeOK, EndComes
  <2> QED  BY <1>3, <2>3, <2>4 DEF OnApList
<1>4. CASE StartAborts  BY <1>4, ProvAborts DEF StartAborts
<1> QED  BY <1>1, <1>2, <1>3, <1>4

LEMMA ProvOnWifi == ProvInv /\ OnWifi => ProvInv'
<1> SUFFICES ASSUME ProvInv, OnWifi PROVE ProvInv'  OBVIOUS
<1>1. PICK e \in {"wifi_connected", "wifi_disconnected"} : Takes(e)  BY DEF OnWifi
<1>2. /\ events' \in Seq(ProvEvents) /\ SessionsShut'
      /\ \A i \in DOMAIN events : events[i] = e \/ \E j \in DOMAIN events' : events'[j] = events[i]
  BY <1>1, EventsShrink DEF OnWifi, ProvInv
<1> QED  BY <1>2 DEF OnWifi, ProvInv, ProvTypeOK, EndComes

\* The connection cancels the end; if it is over, the disconnection is queued.
LEMMA ProvOnClient == ProvInv /\ OnClient => ProvInv'
<1> SUFFICES ASSUME ProvInv, OnClient PROVE ProvInv'  OBVIOUS
<1> USE DEF ProvInv
<1>1. CASE Takes("ble_connected") /\ scheduled' = FALSE /\ UNCHANGED limited
  <2>1. /\ events' \in Seq(ProvEvents) /\ SessionsShut'
        /\ host # "connected" => \E i \in DOMAIN events' : events'[i] = "ble_disconnected"
    BY <1>1, EventsShrink DEF OnClient
  <2> QED  BY <1>1, <2>1 DEF OnClient, ProvTypeOK, EndComes
<1>2. CASE Takes("ble_disconnected") /\ scheduled' = TRUE /\ limited' = TRUE
  <2>1. events' \in Seq(ProvEvents) /\ SessionsShut'
    BY <1>2, EventsShrink DEF OnClient
  <2> QED  BY <1>2, <2>1 DEF OnClient, ProvTypeOK, EndComes
<1> QED  BY <1>1, <1>2 DEF OnClient

\* em_ble_prov_stop, in the daemon and in Rx
LEMMA ProvStops ==
  ASSUME ProvInv, NEW t \in Stoppers,
         ProvStop(t) \/ ClearInitialized(t) \/ PortDeinit(t) \/ StopAborts(t)
  PROVE  ProvInv'
<1> USE DEF ProvInv
<1>1. CASE ProvStop(t)
  <2>1. /\ stopper' \in [Stoppers -> {"idle", "clear", "stop", "deinit"}]
        /\ initialized => stopper'[t] # "idle"
    BY <1>1 DEF ProvStop, ProvTypeOK
  <2>2. ProvTypeOK'  BY <1>1, <2>1 DEF ProvStop, ProvTypeOK
  <2>3. SessionsShut'  BY <1>1 DEF ProvStop, SessionsShut, Shut
  <2>4. EndComes'  BY <1>1, <2>1 DEF ProvStop, EndComes
  <2> QED  BY <2>2, <2>3, <2>4
<1>2. CASE ClearInitialized(t)
  BY <1>2 DEF ClearInitialized, ProvTypeOK, SessionsShut, Shut, EndComes
<1>3. CASE PortDeinit(t)
  <2>1. ProvTypeOK'  BY <1>3 DEF PortDeinit, ProvTypeOK
  <2>2. SessionsShut'  BY <1>3 DEF PortDeinit, SessionsShut, Shut
  <2>3. EndComes'  BY <1>3 DEF PortDeinit, EndComes
  <2> QED  BY <2>1, <2>2, <2>3
<1>4. CASE StopAborts(t)  BY <1>4, ProvAborts DEF StopAborts
<1> QED  BY <1>1, <1>2, <1>3, <1>4

LEMMA ProvPortStops ==
  ASSUME ProvInv, NEW t \in Stoppers, PortStop(t)  PROVE ProvInv'
<1> USE DEF ProvInv
<1>1. stopper' \in [Stoppers -> {"idle", "clear", "stop", "deinit"}] /\ stopper'[t] = "deinit"
  BY DEF PortStop, ProvTypeOK
<1>2. EndComes'  BY <1>1 DEF PortStop, EndComes
<1>3. CASE host = "connected"
  <2>1. /\ events' \in Seq(ProvEvents)
        /\ \A i \in DOMAIN events' : events'[i] = "ble_connected" => Shut(i)'
    BY <1>3, EventsGrow DEF PortStop, ProvEvents
  <2> QED  BY <1>1, <1>2, <2>1 DEF PortStop, ProvTypeOK, SessionsShut
<1>4. CASE host # "connected"
  BY <1>1, <1>2, <1>4 DEF PortStop, ProvTypeOK, SessionsShut, Shut
<1> QED  BY <1>3, <1>4

LEMMA ProvStep == ProvInv /\ ProvNext => ProvInv'
  BY ProvHost, ProvWrites, ProvPosts, ProvStarts, ProvOnWifi, ProvOnClient, ProvStops,
     ProvPortStops
  DEF ProvNext

LEMMA ProvGoesOn == PartsSpec => []ProvInv
<1>1. PartsInit => ProvInv  BY ProvInitial DEF PartsInit
<1>2. ProvInv /\ [PartsNext]_partsVars => ProvInv'
  <2> SUFFICES ASSUME ProvInv, [PartsNext]_partsVars PROVE ProvInv'  OBVIOUS
  <2>1. CASE UNCHANGED partsVars  BY <2>1, ProvUnchanged DEF partsVars
  <2>2. CASE Works("provisioning") /\ ProvNext  BY <2>2, ProvStep
  <2>3. CASE PartsNext /\ ~(Works("provisioning") /\ ProvNext)
    <3>1. UNCHANGED provVars  BY <2>3 DEF PartsNext, Works
    <3> QED  BY <3>1, ProvUnchanged
  <2> QED  BY <2>1, <2>2, <2>3
<1> QED  BY <1>1, <1>2, PTL DEF PartsSpec, partsVars

(***************************************************************************)
(* A provisioning session with a delay ends (ble_prov_svc.c:294-345): no   *)
(* order of clicks, connections and stops of the three tasks leaves the    *)
(* radio on for good.                                                      *)
(***************************************************************************)
THEOREM SessionsEnd == PartsSpec => []SessionEnds
<1>1. ProvInv => SessionEnds  BY DEF ProvInv, EndComes, SessionEnds
<1> QED  BY <1>1, ProvGoesOn, PTL

-----------------------------------------------------------------------------
(* The provisioning service's characteristics                              *)

Fields == {"ssid", "password"}

\* An array of n bytes with a text in it
Padded(n, text) == [i \in 1..n |-> IF i <= Len(text) THEN text[i] ELSE 0]

\* An array that is not overrun holds what the client meant, and nothing of what was
\* there before; a network name that is too long leaves no 0 in its own.
CredentialsMeant ==
  /\ meant \in [ssid : Texts, password : Texts, ap_id : Nat]
  /\ DOMAIN wifi_credentials = Fields
  /\ wifi_credentials["ssid"] \in Seq(Letters \cup {0})
  /\ Len(wifi_credentials["ssid"]) = SsidCap
  /\ \A f \in Fields \ overrun :
       Len(meant[f]) <= Cap[f] /\ wifi_credentials[f] = Padded(Cap[f], meant[f])
  /\ "ssid" \in overrun => \A i \in 1..SsidCap : wifi_credentials["ssid"][i] # 0
  /\ selected_ap_id = meant.ap_id

GattInv == CredentialsMeant /\ ProvisionedAsWritten

LEMMA Caps == SsidCap \in Nat /\ PasswordCap \in Nat /\ MaxChrLen \in Nat
              /\ Cap["ssid"] = SsidCap /\ Cap["password"] = PasswordCap
              /\ Offset["ssid"] = 0 /\ Offset["password"] = SsidCap
  BY GattAssumption DEF Cap, Offset

LEMMA TextIsSeq ==
  ASSUME NEW text \in Texts
  PROVE  text \in Seq(Letters) /\ Len(text) \in 0..MaxChrLen /\ DOMAIN text = 1..Len(text)
<1>1. PICK n \in 0..MaxChrLen : text \in [1..n -> Letters]  BY DEF Texts
<1>2. n \in Nat  BY GattAssumption
<1>3. Len(text) = n  BY <1>1, <1>2
<1> QED  BY <1>1, <1>2, <1>3

\* A sequence of n letters ends at n: there are no others.
LEMMA TextOfPadded ==
  ASSUME NEW m \in Nat, NEW text \in Texts, Len(text) <= m
  PROVE  TextOf(Padded(m, text)) = text
<1> DEFINE cells == Padded(m, text)
           StopsAt(n) == /\ \A i \in 1..n : cells[i] # 0
                         /\ n < Len(cells) => cells[n + 1] = 0
<1>1. /\ text \in Seq(Letters) /\ Len(text) \in 0..m
      /\ \A i \in 1..Len(text) : text[i] \in Letters /\ text[i] # 0
  BY TextIsSeq, GattAssumption
<1>2. /\ DOMAIN cells = 1..m
      /\ cells \in Seq(Letters \cup {0}) /\ Len(cells) = m
      /\ \A i \in 1..m : cells[i] = IF i <= Len(text) THEN text[i] ELSE 0
  BY <1>1 DEF Padded
<1> HIDE DEF cells
<1>3. StopsAt(Len(text))  BY <1>1, <1>2
<1>4. ASSUME NEW n \in 0..Len(cells), StopsAt(n)  PROVE n = Len(text)
  BY <1>1, <1>2, <1>4
<1>5. (CHOOSE n \in 0..Len(cells) : StopsAt(n)) = Len(text)  BY <1>1, <1>2, <1>3, <1>4
<1>6. TextOf(cells) = SubSeq(cells, 1, Len(text))  BY <1>5 DEF TextOf
<1>7. SubSeq(cells, 1, Len(text)) = text  BY <1>1, <1>2
<1> QED  BY <1>6, <1>7 DEF cells

\* An array without a 0 is a text to its end.
LEMMA TextOfFull ==
  ASSUME NEW S, NEW cells \in Seq(S), \A i \in 1..Len(cells) : cells[i] # 0
  PROVE  Len(TextOf(cells)) = Len(cells)
<1> DEFINE StopsAt(n) == /\ \A i \in 1..n : cells[i] # 0
                         /\ n < Len(cells) => cells[n + 1] = 0
<1>1. Len(cells) \in Nat  OBVIOUS
<1>2. StopsAt(Len(cells))  BY <1>1
<1>3. ASSUME NEW n \in 0..Len(cells), StopsAt(n)  PROVE n = Len(cells)  BY <1>1, <1>3
<1>4. (CHOOSE n \in 0..Len(cells) : StopsAt(n)) = Len(cells)  BY <1>1, <1>2, <1>3
<1>5. TextOf(cells) = SubSeq(cells, 1, Len(cells))  BY <1>4 DEF TextOf
<1> QED  BY <1>1, <1>5

LEMMA CredentialsRead ==
  ASSUME CredentialsMeant
  PROVE  /\ meant.ssid \in Texts /\ meant.password \in Texts /\ meant.ap_id \in Nat
         /\ \A f \in Fields \ overrun : TextOf(wifi_credentials[f]) = meant[f]
         /\ "ssid" \in overrun => ~Fits("ssid", TextOf(wifi_credentials["ssid"]))
<1>1. meant.ssid \in Texts /\ meant.password \in Texts /\ meant.ap_id \in Nat
  BY DEF CredentialsMeant
<1>2. ASSUME NEW f \in Fields \ overrun  PROVE TextOf(wifi_credentials[f]) = meant[f]
  <2>1. meant[f] \in Texts /\ Cap[f] \in Nat  BY <1>1, Caps DEF Fields
  <2>2. Len(meant[f]) <= Cap[f] /\ wifi_credentials[f] = Padded(Cap[f], meant[f])
    BY DEF CredentialsMeant
  <2> QED  BY <2>1, <2>2, TextOfPadded
<1>3. ASSUME "ssid" \in overrun  PROVE ~Fits("ssid", TextOf(wifi_credentials["ssid"]))
  <2>1. Len(TextOf(wifi_credentials["ssid"])) = SsidCap
    BY <1>3, TextOfFull DEF CredentialsMeant
  <2> QED  BY <2>1, Caps DEF Fits
<1> QED  BY <1>1, <1>2, <1>3

\* What the handler put there is what is read, whatever follows it.
LEMMA ReadsFront ==
  ASSUME NEW S, NEW put \in Seq(S), NEW n \in 0..Len(put)
  PROVE  SubSeq(put \o Buffered(put), 1, n) = SubSeq(put, 1, n)
<1> DEFINE b == Buffered(put)
           T == S \cup {b[1], b[2]}
<1>1. b \in Seq(T) /\ Len(b) = 2  BY DEF Buffered
<1>2. put \in Seq(T)  OBVIOUS
<1> HIDE DEF b, T
<1> QED  BY <1>1, <1>2 DEF b

LEMMA NothingWritten ==
  ASSUME NEW e, e = [f \in Fields |-> [i \in 1..Cap[f] |-> 0]]
  PROVE  /\ DOMAIN e = Fields /\ e["ssid"] \in Seq(Letters \cup {0}) /\ Len(e["ssid"]) = SsidCap
         /\ \A f \in Fields : Len(<<>>) <= Cap[f] /\ e[f] = Padded(Cap[f], <<>>)
<1>1. \A f \in Fields : Cap[f] \in Nat  BY Caps DEF Fields
<1>2. DOMAIN e = Fields /\ \A f \in Fields : e[f] = [i \in 1..Cap[f] |-> 0]  OBVIOUS
<1>3. \A f \in Fields : Len(<<>>) <= Cap[f] /\ e[f] = Padded(Cap[f], <<>>)
  BY <1>1, <1>2 DEF Padded
<1>4. e["ssid"] = [i \in 1..SsidCap |-> 0]  BY <1>2, Caps DEF Fields
<1>5. e["ssid"] \in Seq(Letters \cup {0}) /\ Len(e["ssid"]) = SsidCap  BY <1>4, Caps
<1> QED  BY <1>2, <1>3, <1>5

LEMMA GattInitial == GattInit => GattInv
<1> SUFFICES ASSUME GattInit PROVE GattInv  OBVIOUS
<1>1. <<>> \in Texts  BY GattAssumption DEF Texts
<1>2. meant \in [ssid : Texts, password : Texts, ap_id : Nat]  BY <1>1 DEF GattInit
<1>3. \A f \in Fields : meant[f] = <<>>  BY DEF GattInit, Fields
<1>4. wifi_credentials = [f \in Fields |-> [i \in 1..Cap[f] |-> 0]] /\ overrun = {}
      /\ selected_ap_id = meant.ap_id
  BY DEF GattInit, Fields
<1>5. CredentialsMeant  BY <1>2, <1>3, <1>4, NothingWritten DEF CredentialsMeant
<1>6. ProvisionedAsWritten  BY DEF GattInit, ProvisionedAsWritten, NoReply
<1> QED  BY <1>5, <1>6 DEF GattInv

LEMMA GattUnchanged == GattInv /\ UNCHANGED gattVars => GattInv'
  BY DEF gattVars, GattInv, CredentialsMeant, ProvisionedAsWritten

LEMMA GattReads ==
  ASSUME GattInv, NEW chr \in {"ssid", "connection", "aps", "ap_id"}, ReadChr(chr)
  PROVE  GattInv'
<1>1. CredentialsMeant'  BY DEF GattInv, ReadChr, CredentialsMeant
<1>2. told' = Untold /\ reply'.of = chr /\ UNCHANGED <<meant, overrun>>  BY DEF ReadChr
<1>3a. CASE chr = "ssid" /\ "ssid" \in overrun
  BY <1>1, <1>2, <1>3a DEF GattInv, ProvisionedAsWritten
<1>3. CASE chr = "ssid" /\ "ssid" \notin overrun
  <2> DEFINE shown == IF meant.ssid = <<>> THEN <<0>> ELSE meant.ssid
  <2>1. ReadHandler(chr) = [put |-> shown, ret |-> Len(shown)]
    <3>1. TextOf(wifi_credentials.ssid) = meant.ssid
      BY <1>3, CredentialsRead DEF GattInv, Fields
    <3> QED  BY <1>3, <3>1 DEF ReadHandler, Puts
  <2>2. shown \in Seq(Letters \cup {0})
    <3>1. meant.ssid \in Seq(Letters)  BY TextIsSeq, CredentialsRead DEF GattInv
    <3>2. meant.ssid \in Seq(Letters \cup {0}) /\ <<0>> \in Seq(Letters \cup {0})  BY <3>1
    <3> QED  BY <3>2
  <2>3. reply'.bytes = shown
    <3> HIDE DEF shown
    <3>1. reply'.bytes = SubSeq(shown \o Buffered(shown), 1, Len(shown))
      BY <2>1 DEF ReadChr
    <3>2. Len(shown) \in 0..Len(shown) /\ SubSeq(shown, 1, Len(shown)) = shown  BY <2>2
    <3> QED  BY <2>2, <3>1, <3>2, ReadsFront
  <2>4. meant.ssid # <<0>>
    BY TextIsSeq, CredentialsRead, GattAssumption DEF GattInv
  <2> QED  BY <1>1, <1>2, <1>3, <2>3, <2>4 DEF GattInv, ProvisionedAsWritten
<1>4. CASE chr = "ap_id"
  <2>1. CASE selected_ap_id < MaxRecords
    <3> DEFINE shown == <<selected_ap_id, 0>>
    <3>1. selected_ap_id \in Nat  BY CredentialsRead DEF GattInv, CredentialsMeant
    <3>2. ReadHandler(chr) = [put |-> shown, ret |-> 1]
      BY <1>4, <2>1, <3>1, GattAssumption DEF ReadHandler
    <3>3. reply'.bytes = SubSeq(shown \o Buffered(shown), 1, 1)  BY <3>2 DEF ReadChr
    <3>4. shown \in Seq(Nat) /\ Len(shown) = 2 /\ shown[1] = selected_ap_id  BY <3>1
    <3>5. reply'.bytes = <<selected_ap_id>>
      <4> HIDE DEF shown
      <4>1. 1 \in 0..Len(shown)  BY <3>4
      <4>2. SubSeq(shown, 1, 1) = <<shown[1]>>
        <5> DEFINE front == SubSeq(shown, 1, 1)
        <5>1. front \in Seq(Nat) /\ Len(front) = 1 /\ front[1] = shown[1]
          <6>1. \A i \in 1..1 : shown[i] \in Nat  BY <3>1, <3>4
          <6>2. /\ front \in Seq(Nat) /\ Len(front) = IF 1 <= 1 THEN 1 - 1 + 1 ELSE 0
                /\ \A i \in 1..1-1+1 : front[i] = shown[1 + i - 1]
            BY <6>1, SubSeqProperties
          <6> HIDE DEF front
          <6> QED  BY <6>2
        <5>2. <<shown[1]>> \in Seq(Nat) /\ Len(<<shown[1]>>) = 1 /\ <<shown[1]>>[1] = shown[1]
          BY <3>4
        <5> HIDE DEF front
        <5>3. front = <<shown[1]>>  BY <5>1, <5>2, SeqEqual
        <5> QED  BY <5>3 DEF front
      <4> QED  BY <3>3, <3>4, <4>1, <4>2, ReadsFront
    <3> QED  BY <1>1, <1>2, <1>4, <3>5 DEF GattInv, CredentialsMeant, ProvisionedAsWritten
  <2>2. CASE ~(selected_ap_id < MaxRecords)
    BY <1>1, <1>2, <1>4, <2>2 DEF GattInv, CredentialsMeant, ProvisionedAsWritten
  <2> QED  BY <2>1, <2>2
<1>5. CASE chr \in {"connection", "aps"}
  BY <1>1, <1>2, <1>5 DEF GattInv, ProvisionedAsWritten
<1> QED  BY <1>3, <1>3a, <1>4, <1>5

LEMMA GattWritesText ==
  ASSUME GattInv, NEW f \in Fields, NEW text \in Texts, WriteText(f, text)
  PROVE  GattInv'
<1>1. meant' = [meant EXCEPT ![f] = text]  BY DEF WriteText
<1>2. /\ meant' \in [ssid : Texts, password : Texts, ap_id : Nat]
      /\ meant'.ap_id = meant.ap_id
      /\ meant'[f] = text /\ \A g \in Fields : g # f => meant'[g] = meant[g]
  <2>1. CASE f = "ssid"
    BY <1>1, <2>1 DEF GattInv, CredentialsMeant, Fields
  <2>2. CASE f = "password"
    BY <1>1, <2>2 DEF GattInv, CredentialsMeant, Fields
  <2> QED  BY <2>1, <2>2 DEF Fields
<1>3. /\ wifi_credentials' = Stored(f, text) /\ selected_ap_id' = selected_ap_id
      /\ overrun' = (overrun \ {f})
                      \cup (IF Len(text) > Cap[f] THEN {f, "password"} ELSE {})
                      \cup (IF Len(text) > StructLen - Offset[f] THEN {"other data"} ELSE {})
  BY DEF WriteText
<1> DEFINE e == wifi_credentials'
<1>4. text \in Seq(Letters) /\ Len(text) \in Nat /\ DOMAIN text = 1..Len(text)
      /\ \A i \in 1..Len(text) : text[i] \in Letters /\ text[i] # 0
  BY TextIsSeq, Caps, GattAssumption
<1>5. /\ DOMAIN e = Fields
      /\ \A g \in Fields : e[g] =
           [i \in 1..Cap[g] |->
              IF Offset[g] - Offset[f] + i \in 1..Len(text) THEN text[Offset[g] - Offset[f] + i]
              ELSE IF g = f THEN 0 ELSE wifi_credentials[g][i]]
  BY <1>3 DEF Stored, Fields
<1> HIDE DEF e
<1>6. Offset[f] \in Nat /\ \A i \in Nat : Offset[f] - Offset[f] + i = i
  BY Caps DEF Fields
<1>7. e[f] = Padded(Cap[f], text)
  <2>1. e[f] = [i \in 1..Cap[f] |->
              IF Offset[f] - Offset[f] + i \in 1..Len(text) THEN text[Offset[f] - Offset[f] + i]
              ELSE 0]
    BY <1>5
  <2>2. Cap[f] \in Nat  BY Caps DEF Fields
  <2>3. \A i \in 1..Cap[f] : /\ i \in Nat /\ Offset[f] - Offset[f] + i = i
                             /\ i \in 1..Len(text) <=> i <= Len(text)
    BY <1>4, <1>6, <2>2
  <2> QED  BY <2>1, <2>3 DEF Padded
<1>8. ASSUME NEW g \in Fields, g # f, g \notin overrun'
      PROVE  Len(meant'[g]) <= Cap[g] /\ e[g] = Padded(Cap[g], meant'[g])
  <2>1. g \notin overrun  BY <1>3, <1>8
  <2>2. Len(meant[g]) <= Cap[g] /\ wifi_credentials[g] = Padded(Cap[g], meant[g])
        /\ meant'[g] = meant[g]
    BY <1>2, <1>8, <2>1 DEF GattInv, CredentialsMeant
  <2>3. ASSUME NEW i \in 1..Cap[g]  PROVE Offset[g] - Offset[f] + i \notin 1..Len(text)
    <3>1. CASE f = "ssid"
      <4>1. g = "password" /\ ~(Len(text) > SsidCap)  BY <1>3, <1>8, <3>1, Caps DEF Fields
      <4> QED  BY <1>4, <3>1, <4>1, Caps
    <3>2. CASE f = "password"
      <4>1. g = "ssid"  BY <1>8, <3>2 DEF Fields
      <4> QED  BY <1>4, <3>2, <4>1, Caps
    <3> QED  BY <3>1, <3>2 DEF Fields
  <2>4. e[g] = [i \in 1..Cap[g] |-> wifi_credentials[g][i]]  BY <1>5, <1>8, <2>3
  <2>5. e[g] = wifi_credentials[g]  BY <2>2, <2>4 DEF Padded
  <2> QED  BY <2>2, <2>5
<1>9. f \notin overrun' => Len(text) <= Cap[f]
  <2>1. Cap[f] \in Nat  BY Caps DEF Fields
  <2>2. ASSUME Len(text) > Cap[f]  PROVE f \in overrun'
    <3>1. f \in (IF Len(text) > Cap[f] THEN {f, "password"} ELSE {})  BY <2>2
    <3> QED  BY <1>3, <3>1, Zenon
  <2> QED  BY <1>4, <2>1, <2>2
<1>10. /\ e["ssid"] \in Seq(Letters \cup {0}) /\ Len(e["ssid"]) = SsidCap
       /\ "ssid" \in overrun' => \A i \in 1..SsidCap : e["ssid"][i] # 0
  <2>1. CASE f = "ssid"
    <3>1. e["ssid"] = [i \in 1..SsidCap |-> IF i <= Len(text) THEN text[i] ELSE 0]
      BY <1>7, <2>1, Caps DEF Padded
    <3>2. "ssid" \in overrun' => Len(text) > SsidCap  BY <1>3, <2>1, Caps
    <3>3. \A i \in 1..SsidCap : i <= Len(text) => i \in 1..Len(text)  BY <1>4, Caps
    <3>4. e["ssid"] \in [1..SsidCap -> Letters \cup {0}]  BY <1>4, <3>1, <3>3
    <3>5. e["ssid"] \in Seq(Letters \cup {0}) /\ Len(e["ssid"]) = SsidCap  BY <3>4, Caps
    <3>6. ASSUME "ssid" \in overrun', NEW i \in 1..SsidCap  PROVE e["ssid"][i] # 0
      <4>1. i \in 1..Len(text)  BY <1>4, <3>2, <3>6, Caps
      <4> QED  BY <1>4, <3>1, <4>1
    <3> QED  BY <3>5, <3>6
  <2>2. CASE f = "password"
    <3>1. \A i \in 1..SsidCap : Offset["ssid"] - Offset["password"] + i \notin 1..Len(text)
      BY <1>4, Caps
    <3>2. e["ssid"] = [i \in 1..SsidCap |-> wifi_credentials["ssid"][i]]
      BY <1>5, <2>2, <3>1, Caps DEF Fields
    <3>3. wifi_credentials["ssid"] \in Seq(Letters \cup {0})
          /\ Len(wifi_credentials["ssid"]) = SsidCap
      BY DEF GattInv, CredentialsMeant
    <3>4. e["ssid"] = wifi_credentials["ssid"]
      BY <3>2, <3>3
    <3>5. "ssid" \in overrun' => "ssid" \in overrun  BY <1>3, <2>2
    <3> QED  BY <3>3, <3>4, <3>5 DEF GattInv, CredentialsMeant
  <2> QED  BY <2>1, <2>2 DEF Fields
<1>11. \A g \in Fields \ overrun' :
         Len(meant'[g]) <= Cap[g] /\ e[g] = Padded(Cap[g], meant'[g])
  BY <1>2, <1>7, <1>8, <1>9
<1>12. CredentialsMeant'
  <2>1. selected_ap_id' = meant'.ap_id  BY <1>2, <1>3 DEF GattInv, CredentialsMeant
  <2> QED  BY <1>2, <1>5, <1>10, <1>11, <2>1 DEF CredentialsMeant, e
<1>13. told' = Untold /\ reply'.of = "write"  BY DEF WriteText, Writes
<1> QED  BY <1>12, <1>13 DEF GattInv, ProvisionedAsWritten

LEMMA GattConnects ==
  ASSUME GattInv, NEW bytes, WriteToConnect(bytes)
  PROVE  GattInv'
<1> DEFINE texts == [f \in {"ssid", "password"} |-> TextOf(wifi_credentials[f])]
<1>1. CredentialsMeant'  BY DEF GattInv, WriteToConnect, CredentialsMeant
<1>2. \A f \in Fields \ overrun : texts[f] = meant[f]
  BY CredentialsRead DEF GattInv, Fields
<1>3. /\ told' = Untold \/ (told' = texts /\ Fits("ssid", texts["ssid"]))
      /\ reply'.of = "write" /\ UNCHANGED <<meant, overrun>>
  BY DEF WriteToConnect, Writes
<1>4. Fits("ssid", texts["ssid"]) => "ssid" \notin overrun  BY CredentialsRead DEF GattInv
<1> HIDE DEF texts
<1>5. told' # Untold => told' = texts /\ "ssid" \notin overrun  BY <1>3, <1>4
<1>6. told' # Untold => told'.ssid = meant'.ssid
                        /\ (told'.password = meant'.password \/ "password" \in overrun')
  BY <1>2, <1>3, <1>5 DEF Fields
<1> QED  BY <1>1, <1>3, <1>6 DEF GattInv, ProvisionedAsWritten

LEMMA GattAborts == GattInv /\ ConnectAborts => GattInv'
<1> SUFFICES ASSUME ConnectAborts PROVE GattInv'  OBVIOUS
<1>1. <<>> \in Texts  BY GattAssumption DEF Texts
<1>2. meant' \in [ssid : Texts, password : Texts, ap_id : Nat]  BY <1>1 DEF ConnectAborts
<1>3. \A f \in Fields : meant'[f] = <<>>  BY DEF ConnectAborts, Fields
<1>4. wifi_credentials' = [f \in Fields |-> [i \in 1..Cap[f] |-> 0]] /\ overrun' = {}
      /\ selected_ap_id' = meant'.ap_id
  BY DEF ConnectAborts, Fields
<1>5. CredentialsMeant'  BY <1>2, <1>3, <1>4, NothingWritten DEF CredentialsMeant
<1>6. ProvisionedAsWritten'  BY DEF ConnectAborts, ProvisionedAsWritten, NoReply
<1> QED  BY <1>5, <1>6 DEF GattInv

LEMMA GattSelects ==
  ASSUME GattInv, NEW bytes, WriteApId(bytes), bytes[1] \in Nat
  PROVE  GattInv'
<1>1. CredentialsMeant'
  <2>1. CASE Len(bytes) = 1
    <3>1. meant' = [meant EXCEPT !.ap_id = bytes[1]]  BY <2>1 DEF WriteApId
    <3>2. meant' \in [ssid : Texts, password : Texts, ap_id : Nat] /\ meant'.ap_id = bytes[1]
      BY <3>1 DEF GattInv, CredentialsMeant
    <3>3. \A f \in Fields : meant'[f] = meant[f]
      BY <3>1 DEF GattInv, CredentialsMeant, Fields
    <3> QED  BY <2>1, <3>2, <3>3 DEF WriteApId, GattInv, CredentialsMeant
  <2>2. CASE Len(bytes) # 1  BY <2>2 DEF WriteApId, GattInv, CredentialsMeant
  <2> QED  BY <2>1, <2>2
<1>2. told' = Untold /\ reply'.of = "write"  BY DEF WriteApId, Writes
<1> QED  BY <1>1, <1>2 DEF GattInv, ProvisionedAsWritten

LEMMA GattOther ==
  ASSUME GattInv,
         \/ SaysConnecting \/ WriteAps(<< 0 >>) \/ StationStatus \/ ScanLength
         \/ \E word \in {"Connected", "reason"} : StationEvent(word)
         \/ \E ssid \in Texts : ScanRecords(ssid)
  PROVE  GattInv'
<1>1. CASE WriteAps(<<0>>)
  BY <1>1 DEF WriteAps, Writes, GattInv, CredentialsMeant, ProvisionedAsWritten
<1>2. CASE ~WriteAps(<<0>>)
  BY <1>2 DEF SaysConnecting, StationStatus, ScanLength, StationEvent, ScanRecords,
              GattInv, CredentialsMeant, ProvisionedAsWritten
<1> QED  BY <1>1, <1>2

LEMMA GattStep == GattInv /\ GattNext => GattInv'
<1> SUFFICES ASSUME GattInv, GattNext PROVE GattInv'  OBVIOUS
<1>1. CASE \E id \in ApIds : WriteApId(<<id>>) \/ WriteApId(<<id, id>>)
  <2> PICK id \in ApIds : WriteApId(<<id>>) \/ WriteApId(<<id, id>>)  BY <1>1
  <2>1. id \in Nat /\ <<id>>[1] = id /\ <<id, id>>[1] = id  BY GattAssumption
  <2> QED  BY <2>1, GattSelects
<1>2. CASE WriteToConnect(<<0>>)  BY <1>2, GattConnects
<1> QED  BY <1>1, <1>2, GattReads, GattWritesText, GattAborts, GattOther DEF GattNext, Fields

LEMMA GattGoesOn == PartsSpec => []GattInv
<1>1. PartsInit => GattInv  BY GattInitial DEF PartsInit
<1>2. GattInv /\ [PartsNext]_partsVars => GattInv'
  <2> SUFFICES ASSUME GattInv, [PartsNext]_partsVars PROVE GattInv'  OBVIOUS
  <2>1. CASE UNCHANGED partsVars  BY <2>1, GattUnchanged DEF partsVars
  <2>2. CASE Works("gatt") /\ GattNext  BY <2>2, GattStep
  <2>3. CASE PartsNext /\ ~(Works("gatt") /\ GattNext)
    <3>1. UNCHANGED gattVars  BY <2>3 DEF PartsNext, Works
    <3> QED  BY <3>1, GattUnchanged
  <2> QED  BY <2>1, <2>2, <2>3
<1> QED  BY <1>1, <1>2, PTL DEF PartsSpec, partsVars

(***************************************************************************)
(* The station is told the credentials that the client wrote last, and     *)
(* they read back (ble_prov_svc.c:175-287), for every capacity of the      *)
(* arrays, all letters and all texts, those that overrun the arrays        *)
(* included: a network name that is too long, which reads back cut, is     *)
(* never told, and the password is excepted from when it was overrun until *)
(* it is written again.  Nothing is said of what comes after a text that   *)
(* has run into other data than the credentials.                           *)
(***************************************************************************)
THEOREM CredentialsAsWritten == PartsSpec => []ProvisionedAsWritten
  BY GattGoesOn, PTL DEF GattInv

-----------------------------------------------------------------------------
(* The measurements                                                        *)

\* What the lists of those to be told hold is of no consequence.
MetersTypeOK ==
  /\ meter \in [value : Measured \cup {0}, time : Nat, ref : Nat,
                entries : Seq([offset : Nat, value : Measured])]
  /\ energy \in [ref : Nat, interval : Nat, entries : Seq({v % OffsetMod : v \in Produced})]
  /\ measured \in Seq([time : Nat, value : Measured])
  /\ produced \in Seq([time : Nat, value : Produced])

\* The reference is the time of the first entry, each offset that to it.
EntriesRefer ==
  /\ Len(meter.entries) = Len(measured)
  /\ measured # <<>> => meter.ref = measured[1].time
  /\ \A i \in DOMAIN measured :
       /\ meter.entries[i].value = measured[i].value
       /\ meter.entries[i].offset = (measured[i].time - measured[1].time) % OffsetMod

\* The interval is not set before the second entry, and then once.
IntervalRefers ==
  /\ Len(energy.entries) = Len(produced)
  /\ produced # <<>> => energy.ref = produced[1].time
  /\ Len(produced) <= 1 => energy.interval = 0
  /\ Len(produced) >= 2 /\ Apart \in 1..OffsetMod-1 => energy.interval = Apart

MetersInv == MetersTypeOK /\ EntriesRefer /\ IntervalRefers

LEMMA MeterNumbers ==
  /\ OffsetMod \in Nat \ {0} /\ CompileTime \in Nat
  /\ \A t \in Times : t \in Nat
  BY MetersAssumption DEF Times

LEMMA Offsets ==
  ASSUME NEW a \in Int
  PROVE  a % OffsetMod \in Nat /\ (a \in 0..OffsetMod-1 => a % OffsetMod = a)
  BY MeterNumbers

LEMMA MetersInitial == MetersInit => MetersInv
  BY DEF MetersInit, NoMeter, NoEnergy, MetersInv, MetersTypeOK, EntriesRefer, IntervalRefers

LEMMA MetersUnchanged ==
  MetersInv /\ UNCHANGED <<meter, energy, measured, produced>> => MetersInv'
  BY DEF MetersInv, MetersTypeOK, EntriesRefer, IntervalRefers, Apart

LEMMA MetersSet ==
  ASSUME MetersInv, NEW t \in Times, NEW v \in Measured, SetMeterValue(t, v)
  PROVE  MetersInv'
<1>1. meter' = [meter EXCEPT !.value = v, !.time = t]  BY DEF SetMeterValue
<1>2. /\ meter' \in [value : Measured \cup {0}, time : Nat, ref : Nat,
                     entries : Seq([offset : Nat, value : Measured])]
      /\ meter'.entries = meter.entries /\ meter'.ref = meter.ref
  BY <1>1, MeterNumbers DEF MetersInv, MetersTypeOK
<1> QED  BY <1>2 DEF SetMeterValue, MetersInv, MetersTypeOK, EntriesRefer, IntervalRefers, Apart

LEMMA MetersAdd ==
  ASSUME MetersInv, NEW t \in Times, NEW v \in Measured, AddMeterEntry(t, v)
  PROVE  MetersInv'
<1> USE DEF MetersInv
<1>1. CASE UNCHANGED <<meter, measured>>
  BY <1>1, MetersUnchanged DEF AddMeterEntry
<1>2. CASE ~UNCHANGED <<meter, measured>>
  <2> DEFINE ref == MeterRef(t)
             offset == (t - ref) % OffsetMod
             entry == [offset |-> offset, value |-> v]
             m == [time |-> t, value |-> v]
  <2>1. /\ meter' = [meter EXCEPT !.ref = ref, !.entries = Append(@, entry)]
        /\ measured' = Append(measured, m)
    BY <1>2 DEF AddMeterEntry
  <2>2. t \in Nat /\ ref \in Nat  BY MeterNumbers DEF MeterRef, MetersTypeOK
  <2>3. offset \in Nat  BY <2>2, Offsets
  <2>4. entry \in [offset : Nat, value : Measured] /\ m \in [time : Nat, value : Measured]
    BY <2>2, <2>3
  <2>5. entry.offset = offset /\ entry.value = v /\ m.time = t /\ m.value = v  OBVIOUS
  <2> HIDE DEF entry, m
  <2>6. /\ meter' \in [value : Measured \cup {0}, time : Nat, ref : Nat,
                       entries : Seq([offset : Nat, value : Measured])]
        /\ meter'.entries = Append(meter.entries, entry) /\ meter'.ref = ref
    <3> HIDE DEF ref
    <3>1. Append(meter.entries, entry) \in Seq([offset : Nat, value : Measured])
      BY <2>4 DEF MetersTypeOK
    <3> DEFINE longer == Append(meter.entries, entry)
    <3>2. meter' = [meter EXCEPT !.ref = ref, !.entries = longer]
      BY <2>1 DEF MetersTypeOK
    <3> HIDE DEF longer
    <3>3. /\ meter' \in [value : Measured \cup {0}, time : Nat, ref : Nat,
                         entries : Seq([offset : Nat, value : Measured])]
          /\ meter'.entries = longer /\ meter'.ref = ref
      <4>1. longer \in Seq([offset : Nat, value : Measured]) /\ ref \in Nat  BY <2>2, <3>1 DEF ref, longer
      <4>2. meter \in [value : Measured \cup {0}, time : Nat, ref : Nat,
                       entries : Seq([offset : Nat, value : Measured])]
        BY DEF MetersTypeOK
      <4> DEFINE middle == [meter EXCEPT !.ref = ref]
      <4>3. /\ middle \in [value : Measured \cup {0}, time : Nat, ref : Nat,
                            entries : Seq([offset : Nat, value : Measured])]
            /\ middle.ref = ref
        BY <4>1, <4>2
      <4>4. meter' = [middle EXCEPT !.entries = longer]  BY <3>2, <4>2
      <4> HIDE DEF middle
      <4> QED  BY <4>1, <4>3, <4>4
    <3> QED  BY <3>3 DEF longer
  <2>7. MetersTypeOK'  BY <2>1, <2>4, <2>6 DEF MetersTypeOK, AddMeterEntry
  <2>8. /\ Len(measured) \in Nat /\ DOMAIN measured = 1..Len(measured)
        /\ DOMAIN measured' = 1..Len(measured)+1 /\ Len(measured') = Len(measured) + 1
        /\ Len(meter'.entries) = Len(measured) + 1
        /\ \A i \in DOMAIN measured :
             measured'[i] = measured[i] /\ meter'.entries[i] = meter.entries[i]
        /\ measured'[Len(measured)+1] = m /\ meter'.entries[Len(measured)+1] = entry
    <3>1. /\ measured \in Seq([time : Nat, value : Measured])
          /\ meter.entries \in Seq([offset : Nat, value : Measured])
          /\ Len(meter.entries) = Len(measured)
      BY DEF MetersTypeOK, EntriesRefer
    <3>2. measured' = Append(measured, m) /\ meter'.entries = Append(meter.entries, entry)
      BY <2>1, <2>6
    <3>3. \A x \in DOMAIN meter.entries : meter'.entries[x] = meter.entries[x]  BY <2>4, <3>1, <3>2
    <3>4. \A x \in DOMAIN measured : measured'[x] = measured[x]  BY <2>4, <3>1, <3>2
    <3>5. DOMAIN meter.entries = DOMAIN measured  BY <3>1
    <3>6. Len(meter'.entries) = Len(measured) + 1 /\ meter'.entries[Len(measured)+1] = entry
      BY <2>4, <3>1, <3>2
    <3>7. /\ Len(measured) \in Nat /\ DOMAIN measured = 1..Len(measured)
          /\ DOMAIN measured' = 1..Len(measured)+1 /\ Len(measured') = Len(measured) + 1
          /\ measured'[Len(measured)+1] = m
      BY <2>4, <3>1, <3>2
    <3> QED  BY <3>3, <3>4, <3>5, <3>6, <3>7, Zenon
  <2>9. meter'.ref = measured'[1].time
    <3>1. CASE measured = <<>>
      <4>1. meter.entries = <<>>  BY <3>1 DEF MetersTypeOK, EntriesRefer
      <4> QED  BY <2>5, <2>6, <2>8, <3>1, <4>1 DEF MeterRef
    <3>2. CASE measured # <<>>
      <4>1. meter.entries # <<>> /\ 1 \in DOMAIN measured
        BY <3>2 DEF MetersTypeOK, EntriesRefer
      <4> QED  BY <2>6, <2>8, <3>2, <4>1 DEF MeterRef, EntriesRefer
    <3> QED  BY <3>1, <3>2
  <2>10. EntriesRefer'
    <3>1. ASSUME NEW i \in DOMAIN measured
          PROVE  /\ meter'.entries[i].value = measured'[i].value
                 /\ meter'.entries[i].offset = (measured'[i].time - measured'[1].time) % OffsetMod
      BY <2>8 DEF EntriesRefer
    <3>2. /\ entry.value = m.value
          /\ entry.offset = (m.time - measured'[1].time) % OffsetMod
      BY <2>5, <2>6, <2>9
    <3> QED  BY <2>8, <2>9, <3>1, <3>2 DEF EntriesRefer
  <2>11. IntervalRefers'  BY DEF AddMeterEntry, IntervalRefers, Apart
  <2> QED  BY <2>7, <2>10, <2>11
<1> QED  BY <1>1, <1>2

LEMMA MetersProduce ==
  ASSUME MetersInv, NEW t \in Times, NEW v \in Produced, AddEnergyEntry(t, v)
  PROVE  MetersInv'
<1> USE DEF MetersInv
<1>1. CASE UNCHANGED <<energy, produced>>
  BY <1>1, MetersUnchanged DEF AddEnergyEntry
<1>2. CASE ~UNCHANGED <<energy, produced>>
  <2> DEFINE ref == IF energy.entries = <<>> THEN t ELSE energy.ref
             interval == EnergyInterval(t)
             p == [time |-> t, value |-> v]
             entry == v % OffsetMod
  <2>1. /\ energy' = [ref |-> ref, interval |-> interval, entries |-> Append(energy.entries, entry)]
        /\ produced' = Append(produced, p)
    BY <1>2 DEF AddEnergyEntry
  <2>2. t \in Nat /\ energy.ref \in Nat /\ energy.interval \in Nat
    BY MeterNumbers DEF MetersTypeOK
  <2>3. ref \in Nat /\ interval \in Nat
    <3>1. t - energy.ref \in Int  BY <2>2
    <3>2. (t - energy.ref) % OffsetMod \in Nat  BY <3>1, Offsets
    <3>3. interval = (t - energy.ref) % OffsetMod \/ interval = energy.interval
      BY DEF EnergyInterval
    <3> HIDE DEF interval
    <3> QED  BY <2>2, <3>2, <3>3
  <2>4. entry \in {x % OffsetMod : x \in Produced} /\ p \in [time : Nat, value : Produced] /\ p.time = t
    BY <2>2
  <2> HIDE DEF ref, interval, p, entry
  <2>5. MetersTypeOK'
    BY <2>1, <2>3, <2>4 DEF MetersTypeOK, AddEnergyEntry
  <2>6. /\ Len(produced) \in Nat /\ DOMAIN produced = 1..Len(produced)
        /\ Len(produced') = Len(produced) + 1 /\ Len(energy'.entries) = Len(produced) + 1
        /\ \A i \in DOMAIN produced : produced'[i] = produced[i]
        /\ produced'[Len(produced)+1] = p
        /\ energy'.ref = ref /\ energy'.interval = interval
        /\ energy.entries = <<>> <=> Len(produced) = 0
    BY <2>1, <2>4 DEF MetersTypeOK, IntervalRefers
  <2>7. energy'.ref = produced'[1].time
    BY <2>4, <2>6 DEF ref, IntervalRefers
  <2>8. Len(produced') <= 1 => energy'.interval = 0
    BY <2>6 DEF interval, EnergyInterval, IntervalRefers
  <2>9. ASSUME Len(produced') >= 2, Apart' \in 1..OffsetMod-1  PROVE energy'.interval = Apart'
    <3>1. CASE Len(produced) = 1
      <4>1. Apart' = t - energy.ref  BY <2>4, <2>6, <3>1 DEF Apart, IntervalRefers
      <4>2. interval = (t - energy.ref) % OffsetMod
        BY <2>6, <3>1 DEF interval, EnergyInterval, IntervalRefers
      <4>3. (t - energy.ref) % OffsetMod = t - energy.ref
        <5>1. t - energy.ref \in Int /\ t - energy.ref \in 0..OffsetMod-1
          BY <2>2, <2>9, <4>1, MeterNumbers
        <5> QED  BY <5>1, Offsets
      <4> QED  BY <2>6, <4>1, <4>2, <4>3
    <3>2. CASE Len(produced) >= 2
      <4>1. Apart' = Apart  BY <2>6, <3>2 DEF Apart
      <4>2. energy.interval = Apart /\ energy.interval # 0
        BY <2>9, <3>2, <4>1, MeterNumbers DEF IntervalRefers
      <4> QED  BY <2>6, <4>1, <4>2 DEF interval, EnergyInterval
    <3> QED  BY <2>6, <2>9, <3>1, <3>2
  <2>10. IntervalRefers'  BY <2>6, <2>7, <2>8, <2>9 DEF IntervalRefers
  <2>11. EntriesRefer'  BY DEF AddEnergyEntry, EntriesRefer
  <2> QED  BY <2>5, <2>10, <2>11
<1> QED  BY <1>1, <1>2

LEMMA MetersForget == ForgetMeters => MetersInv'
  BY DEF ForgetMeters, NoMeter, NoEnergy, MetersInv, MetersTypeOK, EntriesRefer, IntervalRefers

LEMMA MetersStep == MetersInv /\ MetersNext => MetersInv'
  BY MetersSet, MetersAdd, MetersProduce, MetersForget, MetersUnchanged
  DEF MetersNext, RegisterOnChanged, UnregisterOnChanged

\* The energies are what was produced, cut to their width; who is told to flush has used
\* the last entry.
EnergiesCut == \A i \in DOMAIN produced : energy.entries[i] = produced[i].value % OffsetMod

FlushMeant ==
  /\ flush.of = "meter" => (flush.told <=> Len(meter.entries) >= MeterEntries)
  /\ flush.of = "energy" => (flush.told <=> Len(energy.entries) >= EnergyEntries)

LEMMA EnergiesStep ==
  ASSUME MetersInv, EnergiesCut, FlushMeant, MetersNext  PROVE EnergiesCut' /\ FlushMeant'
<1>1. /\ Len(meter.entries) \in Nat /\ Len(energy.entries) \in Nat
      /\ Len(energy.entries) = Len(produced) /\ Len(produced) \in Nat
      /\ MeterEntries \in Nat /\ EnergyEntries \in Nat
  BY MetersAssumption DEF MetersInv, MetersTypeOK, EntriesRefer, IntervalRefers
<1>2. ASSUME NEW t \in Times, NEW v \in Measured, AddMeterEntry(t, v)
      PROVE  EnergiesCut' /\ FlushMeant'
  <2>1. EnergiesCut'  BY <1>2 DEF AddMeterEntry, EnergiesCut
  <2>2. flush' = FlushAnswer("meter", t, Len(meter.entries), MeterEntries)  BY <1>2 DEF AddMeterEntry
  <2>3. flush'.of # "energy"  BY <2>2 DEF FlushAnswer
  <2>4. ASSUME flush'.of = "meter"
        PROVE  flush'.told <=> Len(meter'.entries) >= MeterEntries
    <3>1. ~(t < CompileTime) /\ (flush'.told <=> Len(meter.entries) + 1 >= MeterEntries)
      BY <2>2, <2>4 DEF FlushAnswer
    <3>2. CASE Len(meter.entries) >= MeterEntries
      <4>1. meter' = meter  BY <1>2, <3>2 DEF AddMeterEntry
      <4> QED  BY <1>1, <3>1, <3>2, <4>1
    <3>3. CASE ~(Len(meter.entries) >= MeterEntries)
      <4> DEFINE entry == [offset |-> (t - MeterRef(t)) % OffsetMod, value |-> v]
      <4>1. meter' = [meter EXCEPT !.ref = MeterRef(t), !.entries = Append(@, entry)]
        BY <1>2, <3>1, <3>3 DEF AddMeterEntry
      <4> HIDE DEF entry
      <4>2. meter'.entries = Append(meter.entries, entry)
        BY <4>1 DEF MetersInv, MetersTypeOK
      <4>3. Len(meter'.entries) = Len(meter.entries) + 1
        BY <4>2 DEF MetersInv, MetersTypeOK
      <4> QED  BY <3>1, <4>3
    <3> QED  BY <3>2, <3>3
  <2> QED  BY <2>1, <2>3, <2>4 DEF FlushMeant
<1>3. ASSUME NEW t \in Times, NEW v \in Produced, AddEnergyEntry(t, v)
      PROVE  EnergiesCut' /\ FlushMeant'
  <2>1. flush' = FlushAnswer("energy", t, Len(energy.entries), EnergyEntries)
    BY <1>3 DEF AddEnergyEntry
  <2>2. flush'.of # "meter"  BY <2>1 DEF FlushAnswer
  <2>3. CASE t < CompileTime \/ Len(energy.entries) >= EnergyEntries
    <3>1. energy' = energy /\ produced' = produced  BY <1>3, <2>3 DEF AddEnergyEntry
    <3>2. EnergiesCut'  BY <3>1 DEF EnergiesCut
    <3>3. flush'.of = "energy" => (flush'.told <=> Len(energy'.entries) >= EnergyEntries)
      <4>1. CASE t < CompileTime
        <5>1. flush'.of = "refused"  BY <2>1, <4>1 DEF FlushAnswer
        <5> QED  BY <5>1
      <4>2. CASE ~(t < CompileTime)
        <5>1. flush'.told = (Len(energy.entries) + 1 >= EnergyEntries)  BY <2>1, <4>2 DEF FlushAnswer
        <5>2. Len(energy.entries) >= EnergyEntries /\ Len(energy.entries) + 1 >= EnergyEntries
          BY <1>1, <2>3, <4>2
        <5> QED  BY <3>1, <5>1, <5>2
      <4> QED  BY <4>1, <4>2
    <3> QED  BY <2>2, <3>2, <3>3 DEF FlushMeant
  <2>4. CASE ~(t < CompileTime \/ Len(energy.entries) >= EnergyEntries)
    <3> DEFINE e == v % OffsetMod
               p == [time |-> t, value |-> v]
    <3>1. energy'.entries = Append(energy.entries, e) /\ produced' = Append(produced, p)
      BY <1>3, <2>4 DEF AddEnergyEntry
    <3>2. p.value = v /\ p \in [time : Nat, value : Produced] /\ e \in {x % OffsetMod : x \in Produced}
      BY MeterNumbers
    <3>3. /\ energy.entries \in Seq({x % OffsetMod : x \in Produced})
          /\ produced \in Seq([time : Nat, value : Produced])
      BY DEF MetersInv, MetersTypeOK
    <3> HIDE DEF e, p
    <3>4. /\ Len(energy'.entries) = Len(energy.entries) + 1
          /\ energy'.entries[Len(produced) + 1] = e
          /\ \A i \in 1..Len(produced) : energy'.entries[i] = energy.entries[i]
      BY <1>1, <3>1, <3>2, <3>3
    <3>5. /\ DOMAIN produced' = 1..(Len(produced) + 1) /\ DOMAIN produced = 1..Len(produced)
          /\ produced'[Len(produced) + 1] = p
          /\ \A i \in 1..Len(produced) : produced'[i] = produced[i]
      BY <1>1, <3>1, <3>2, <3>3
    <3>6. EnergiesCut'
      <4>1. ASSUME NEW i \in DOMAIN produced'
            PROVE  energy'.entries[i] = produced'[i].value % OffsetMod
        <5>1. i \in 1..Len(produced) \/ i = Len(produced) + 1  BY <1>1, <3>5
        <5>2. CASE i \in 1..Len(produced)  BY <3>4, <3>5, <5>2 DEF EnergiesCut
        <5>3. CASE i = Len(produced) + 1  BY <3>2, <3>4, <3>5, <5>3 DEF e
        <5> QED  BY <5>1, <5>2, <5>3
      <4> QED  BY <4>1 DEF EnergiesCut
    <3>7. flush'.told <=> Len(energy'.entries) >= EnergyEntries  BY <2>1, <2>4, <3>4 DEF FlushAnswer
    <3> QED  BY <2>2, <3>6, <3>7 DEF FlushMeant
  <2> QED  BY <2>3, <2>4
<1>4. ASSUME NEW t \in Times, NEW v \in Measured, SetMeterValue(t, v)
      PROVE  EnergiesCut' /\ FlushMeant'
  <2>1. meter'.entries = meter.entries  BY <1>4 DEF SetMeterValue, MetersInv, MetersTypeOK
  <2> QED  BY <1>4, <2>1 DEF SetMeterValue, EnergiesCut, FlushMeant
<1>5. ASSUME ForgetMeters  PROVE EnergiesCut' /\ FlushMeant'
  BY <1>5 DEF ForgetMeters, NoEnergy, EnergiesCut, FlushMeant
<1>6. ASSUME NEW c \in Callbacks, RegisterOnChanged(c) \/ UnregisterOnChanged(c)
      PROVE  EnergiesCut' /\ FlushMeant'
  BY <1>6 DEF RegisterOnChanged, UnregisterOnChanged, EnergiesCut, FlushMeant
<1> QED  BY <1>2, <1>3, <1>4, <1>5, <1>6 DEF MetersNext

LEMMA MetersGoOn == PartsSpec => []MetersInv
<1>1. PartsInit => MetersInv  BY MetersInitial DEF PartsInit
<1>2. MetersInv /\ [PartsNext]_partsVars => MetersInv'
  <2> SUFFICES ASSUME MetersInv, [PartsNext]_partsVars PROVE MetersInv'  OBVIOUS
  <2>1. CASE UNCHANGED partsVars  BY <2>1, MetersUnchanged DEF partsVars, metersVars
  <2>2. CASE Works("meters") /\ MetersNext  BY <2>2, MetersStep
  <2>3. CASE PartsNext /\ ~(Works("meters") /\ MetersNext)
    <3>1. UNCHANGED metersVars  BY <2>3 DEF PartsNext, Works
    <3> QED  BY <3>1, MetersUnchanged DEF metersVars
  <2> QED  BY <2>1, <2>2, <2>3
<1> QED  BY <1>1, <1>2, PTL DEF PartsSpec, partsVars

LEMMA HistoryFollows == MetersInv /\ EnergiesCut /\ FlushMeant => HistoryReadsBack
<1> SUFFICES ASSUME MetersInv, EnergiesCut, FlushMeant PROVE HistoryReadsBack  OBVIOUS
<1> USE DEF MetersInv
<1>1. ASSUME NEW i \in DOMAIN measured
      PROVE  /\ meter.entries[i].value = measured[i].value
             /\ measured[i].time - measured[1].time \in 0..OffsetMod-1 =>
                  meter.ref + meter.entries[i].offset = measured[i].time
  <2>1. /\ measured # <<>> /\ 1 \in DOMAIN measured
        /\ measured[i].time \in Nat /\ measured[1].time \in Nat
    <3>1. /\ Len(measured) \in Nat /\ DOMAIN measured = 1..Len(measured)
          /\ \A j \in DOMAIN measured : measured[j].time \in Nat
      <4>1. measured \in Seq([time : Nat, value : Measured])  BY DEF MetersTypeOK
      <4>2. ASSUME NEW j \in DOMAIN measured  PROVE measured[j].time \in Nat
        <5> DEFINE E == [time : Nat, value : Measured]
        <5>1. measured \in Seq(E)  BY <4>1
        <5>2. \A r \in E : r.time \in Nat  OBVIOUS
        <5> HIDE DEF E
        <5>3. measured[j] \in E  BY <5>1, <4>2
        <5> QED  BY <5>2, <5>3
      <4> QED  BY <4>1, <4>2
    <3>2. 1 \in DOMAIN measured  BY <3>1
    <3> QED  BY <3>1, <3>2
  <2>2. /\ meter.ref = measured[1].time /\ meter.entries[i].value = measured[i].value
        /\ meter.entries[i].offset = (measured[i].time - measured[1].time) % OffsetMod
    BY <2>1 DEF EntriesRefer
  <2>3. ASSUME measured[i].time - measured[1].time \in 0..OffsetMod-1
        PROVE  meter.entries[i].offset = measured[i].time - measured[1].time
    <3>1. measured[i].time - measured[1].time \in Int  BY <2>1
    <3> QED  BY <2>2, <2>3, <3>1, Offsets
  <2> QED
    <3> HIDE DEF MetersInv
    <3> QED  BY <2>1, <2>2, <2>3
<1>2. ASSUME Len(produced) >= 2, Apart \in 1..OffsetMod-1, NEW i \in DOMAIN produced,
             produced[i].time = produced[1].time + (i - 1) * Apart
      PROVE  energy.ref + (i - 1) * energy.interval = produced[i].time
  <2>1. produced # <<>>  BY <1>2 DEF MetersTypeOK
  <2> QED  BY <1>2, <2>1 DEF IntervalRefers
<1>3. ASSUME NEW i \in DOMAIN produced, produced[i].value \in 0..OffsetMod-1
      PROVE  energy.entries[i] = produced[i].value
  <2>1. energy.entries[i] = produced[i].value % OffsetMod  BY DEF EnergiesCut
  <2>2. produced[i].value \in Int  BY <1>3
  <2> QED  BY <1>3, <2>1, <2>2, Offsets
<1>4. Len(meter.entries) = Len(measured) /\ Len(energy.entries) = Len(produced)
  BY DEF EntriesRefer, IntervalRefers
<1> QED
  <2> HIDE DEF MetersInv
  <2> QED  BY <1>1, <1>2, <1>3, <1>4 DEF FlushMeant, HistoryReadsBack

LEMMA EnergiesGoOn == PartsSpec => [](EnergiesCut /\ FlushMeant)
<1>1. PartsInit => EnergiesCut /\ FlushMeant
  <2>1. PartsInit => MetersInit  BY Zenon DEF PartsInit
  <2>2. MetersInit => EnergiesCut /\ FlushMeant  BY DEF MetersInit, EnergiesCut, FlushMeant
  <2> QED  BY <2>1, <2>2
<1>2. MetersInv /\ EnergiesCut /\ FlushMeant /\ [PartsNext]_partsVars
        => EnergiesCut' /\ FlushMeant'
  <2> SUFFICES ASSUME MetersInv, EnergiesCut, FlushMeant, [PartsNext]_partsVars
               PROVE  EnergiesCut' /\ FlushMeant'
    OBVIOUS
  <2>1. CASE UNCHANGED metersVars  BY <2>1 DEF metersVars, EnergiesCut, FlushMeant
  <2>2. CASE Works("meters") /\ MetersNext  BY <2>2, EnergiesStep
  <2>3. CASE PartsNext /\ ~(Works("meters") /\ MetersNext)
    <3>1. UNCHANGED metersVars  BY <2>3 DEF PartsNext, Works
    <3> QED  BY <2>1, <3>1
  <2>4. CASE UNCHANGED partsVars  BY <2>1, <2>4 DEF partsVars
  <2> QED  BY <2>2, <2>3, <2>4
<1> QED  BY <1>1, <1>2, MetersGoOn, PTL DEF PartsSpec

(***************************************************************************)
(* The history reads back as it was added (storage.c:640-729), but for the *)
(* times before the first or 2^32 s after it and the energies of 2^32 or   *)
(* more, and a caller is told to flush exactly when nothing more can be    *)
(* added; for any number of entries, all times and values and every width  *)
(* of an offset and an energy.                                             *)
(***************************************************************************)
THEOREM HistoryKept == PartsSpec => []HistoryReadsBack
  BY HistoryFollows, MetersGoOn, EnergiesGoOn, PTL

-----------------------------------------------------------------------------
(* The button                                                              *)

UpStates == {"down?", "repeat down?"}
DownStates == {"up?", "repeat up?", "long up?"}

Buttons == [state : UpStates \cup DownStates, ticks : Nat, repeat : Nat, debounce : Nat,
            active : BOOLEAN, hold_cnt : Nat, started : BOOLEAN]

ButtonTypeOK ==
  /\ btn \in Buttons
  /\ pressed \in Nat /\ wraps_in \in Nat /\ break \in Nat /\ held \in Nat /\ gap \in Nat
  /\ resets \in BOOLEAN

\* The handler's state follows the level; while the button is down the ticks
\* and the age of ts_pressed count the periods, the age up to its cap.
HeldSince ==
  /\ btn.state \in DownStates <=> held > 0
  /\ held > 0 => pressed <= held - 1 /\ btn.ticks = held - 1
  /\ btn.state = "long up?" => btn.ticks >= Long

\* Three clicks are remembered over a short break only, and once a press has
\* asked for the reset, they are forgotten.
MeantSoFar ==
  /\ Tracking /\ held > 0 => gap <= BreakMax
  /\ resets => ~Tracking

ButtonInv == ButtonTypeOK /\ HeldSince /\ MeantSoFar

LEMMA ButtonNumbers ==
  /\ Debounce \in Nat /\ Short \in Nat /\ Long \in Nat /\ Serial \in Nat
  /\ BreakMax \in Nat /\ VeryLong \in Nat /\ Clicks \in Nat
  BY ButtonAssumption

LEMMA ButtonInitial == ButtonInit => ButtonInv
<1> SUFFICES ASSUME ButtonInit PROVE ButtonInv  OBVIOUS
<1>1. ButtonTypeOK  BY DEF ButtonInit, ButtonTypeOK, Buttons, UpStates, DownStates
<1>2. HeldSince  BY DEF ButtonInit, HeldSince, DownStates
<1>3. MeantSoFar  BY DEF ButtonInit, MeantSoFar, Tracking
<1> QED  BY <1>1, <1>2, <1>3 DEF ButtonInv

LEMMA ButtonUnchanged == ButtonInv /\ UNCHANGED buttonVars => ButtonInv'
<1> SUFFICES ASSUME ButtonInv, UNCHANGED buttonVars PROVE ButtonInv'  OBVIOUS
<1>1. ButtonTypeOK'  BY DEF buttonVars, ButtonInv, ButtonTypeOK
<1>2. HeldSince'  BY DEF buttonVars, ButtonInv, HeldSince
<1>3. MeantSoFar'  BY DEF buttonVars, ButtonInv, MeantSoFar, Tracking
<1> QED  BY <1>1, <1>2, <1>3 DEF ButtonInv

LEMMA SampledIs ==
  ASSUME btn \in Buttons, NEW active \in BOOLEAN
  PROVE  /\ Sampled(active) \in Buttons
         /\ Sampled(active).state = btn.state
         /\ Sampled(active).ticks = IF btn.state = "down?" THEN btn.ticks ELSE btn.ticks + 1
<1> DEFINE b == [btn EXCEPT !.ticks = IF btn.state = "down?" THEN @ ELSE @ + 1]
<1>1. /\ b \in Buttons /\ b.state = btn.state
      /\ b.ticks = IF btn.state = "down?" THEN btn.ticks ELSE btn.ticks + 1
  BY DEF Buttons
<1> HIDE DEF b
<1>2. \/ Sampled(active) = [b EXCEPT !.debounce = 0]
      \/ Sampled(active) = [b EXCEPT !.debounce = b.debounce + 1]
      \/ Sampled(active) = [b EXCEPT !.debounce = 0, !.active = active]
  BY <1>1 DEF Sampled, b
<1>3. CASE Sampled(active) = [b EXCEPT !.debounce = 0]
  BY <1>1, <1>3 DEF Buttons
<1>4. CASE Sampled(active) = [b EXCEPT !.debounce = b.debounce + 1]
  BY <1>1, <1>4 DEF Buttons
<1>5. CASE Sampled(active) = [b EXCEPT !.debounce = 0, !.active = active]
  <2> DEFINE c == [b EXCEPT !.debounce = 0, !.active = active]
  <2>1. c.state = b.state /\ c.ticks = b.ticks  BY <1>1 DEF Buttons
  <2>2. c \in Buttons
    <3> DEFINE d == [b EXCEPT !.debounce = 0]
    <3>1. d \in Buttons /\ c = [d EXCEPT !.active = active]  BY <1>1 DEF Buttons
    <3> HIDE DEF c, d
    <3> QED  BY <3>1 DEF Buttons
  <2> QED  BY <1>1, <1>5, <2>1, <2>2
<1> QED  BY <1>2, <1>3, <1>4, <1>5

LEMMA ToIs ==
  ASSUME NEW b \in Buttons, NEW state \in UpStates \cup DownStates, NEW event
  PROVE  /\ To(b, state, event).b \in Buttons
         /\ To(b, state, event).b.state = state
         /\ To(b, state, event).b.active <=> b.active
         /\ To(b, state, event).b.ticks = b.ticks
         /\ To(b, state, event).evt = event
  BY DEF To, Buttons

\* What a period does while the button is up, when it goes down, and while
\* it stays down
UpStep(r) ==
  /\ r.b \in Buttons /\ ~r.b.active /\ r.b.state \in UpStates
  /\ r.evt \notin {"PRESS_DOWN", "LONG_PRESS_START", "LONG_PRESS_HOLD"}

DownStep(r) ==
  /\ r.b \in Buttons /\ r.b.active /\ r.b.state \in {"up?", "repeat up?"}
  /\ r.b.ticks = 0 /\ r.evt = "PRESS_DOWN"

HeldStep(b, r) ==
  /\ r.b \in Buttons /\ r.b.active /\ r.b.state \in DownStates
  /\ r.b.ticks = b.ticks
  /\ r.b.state = "long up?" => b.state = "long up?" \/ b.ticks >= Long
  /\ r.evt \in {"LONG_PRESS_START", "LONG_PRESS_HOLD", "none"}
  /\ r.evt = "LONG_PRESS_HOLD" => b.state = "long up?"

LEMMA ToUp ==
  ASSUME NEW b \in Buttons, ~b.active, NEW state \in UpStates,
         NEW event, event \notin {"PRESS_DOWN", "LONG_PRESS_START", "LONG_PRESS_HOLD"}
  PROVE  UpStep(To(b, state, event))
  BY ToIs DEF UpStep

LEMMA ToDown ==
  ASSUME NEW b \in Buttons, b.active, b.ticks = 0, NEW state \in {"up?", "repeat up?"}
  PROVE  DownStep(To(b, state, "PRESS_DOWN"))
<1> DEFINE r == To(b, state, "PRESS_DOWN")
<1>1. state \in UpStates \cup DownStates  BY DEF DownStates
<1>2. /\ r.b \in Buttons /\ r.b.state = state /\ (r.b.active <=> b.active)
      /\ r.b.ticks = b.ticks /\ r.evt = "PRESS_DOWN"
  BY <1>1 DEF To, Buttons
<1> HIDE DEF r
<1>3. DownStep(r)  BY <1>2 DEF DownStep
<1> QED  BY <1>3 DEF r

LEMMA ToHeld ==
  ASSUME NEW b \in Buttons, NEW c \in Buttons, c.active, c.ticks = b.ticks,
         NEW state \in DownStates, state = "long up?" => b.state = "long up?" \/ b.ticks >= Long,
         NEW event \in {"LONG_PRESS_START", "LONG_PRESS_HOLD", "none"},
         event = "LONG_PRESS_HOLD" => b.state = "long up?"
  PROVE  HeldStep(b, To(c, state, event))
<1>1. state \in UpStates \cup DownStates  OBVIOUS
<1> DEFINE r == To(c, state, event)
<1>2. /\ r.b \in Buttons /\ r.b.state = state /\ (r.b.active <=> c.active)
      /\ r.b.ticks = c.ticks /\ r.evt = event
  BY <1>1 DEF To, Buttons
<1> HIDE DEF r
<1>3. HeldStep(b, r)  BY <1>2 DEF HeldStep
<1> QED  BY <1>3 DEF r

LEMMA StepUp ==
  ASSUME NEW b \in Buttons, ~b.active
  PROVE  UpStep(ButtonStep(b))
<1> DEFINE zeroed == [b EXCEPT !.ticks = 0]
           unclicked == [b EXCEPT !.repeat = 0]
           uncounted == [b EXCEPT !.hold_cnt = 0]
           unheld == [b EXCEPT !.hold_cnt = 0, !.started = FALSE]
<1>1. b.state \in UpStates \cup DownStates  BY DEF Buttons
<1>2. zeroed \in Buttons /\ ~zeroed.active  BY DEF Buttons
<1>3. unclicked \in Buttons /\ ~unclicked.active  BY DEF Buttons
<1>4. unheld \in Buttons /\ ~unheld.active
  <2>1. /\ uncounted \in Buttons /\ ~uncounted.active
        /\ unheld = [uncounted EXCEPT !.started = FALSE]
    BY DEF Buttons
  <2> HIDE DEF uncounted, unheld
  <2> QED  BY <2>1 DEF Buttons
<1>5. ClickEvent(b.repeat) \notin {"PRESS_DOWN", "LONG_PRESS_START", "LONG_PRESS_HOLD"}
  BY DEF ClickEvent
<1>6. "down?" \in UpStates /\ "repeat down?" \in UpStates  BY DEF UpStates
<1> HIDE DEF zeroed, unclicked, unheld
<1>7. CASE b.state = "down?"
  <2>1. ButtonStep(b) = To(b, "down?", "none")  BY <1>7 DEF ButtonStep, PressDownCheck, Stay
  <2>2. UpStep(To(b, "down?", "none"))  BY <1>6, ToUp
  <2> QED  BY <2>1, <2>2
<1>8. CASE b.state = "up?"
  <2>1. ButtonStep(b) = To(zeroed, "repeat down?", "none")
    BY <1>8 DEF ButtonStep, PressUpCheck, zeroed
  <2>2. UpStep(To(zeroed, "repeat down?", "none"))  BY <1>2, <1>6, ToUp
  <2> QED  BY <2>1, <2>2
<1>9. CASE b.state = "repeat down?"
  <2>1. \/ ButtonStep(b) = To(unclicked, "down?", ClickEvent(b.repeat))
        \/ ButtonStep(b) = To(b, "repeat down?", "none")
    BY <1>9 DEF ButtonStep, PressRepeatDownCheck, Stay, unclicked
  <2>2. UpStep(To(unclicked, "down?", ClickEvent(b.repeat)))  BY <1>3, <1>5, <1>6, ToUp
  <2>3. UpStep(To(b, "repeat down?", "none"))  BY <1>6, ToUp
  <2> QED  BY <2>1, <2>2, <2>3
<1>10. CASE b.state = "repeat up?"
  <2>1. \/ ButtonStep(b) = To(zeroed, "repeat down?", "none")
        \/ ButtonStep(b) = To(b, "down?", "none")
    BY <1>10 DEF ButtonStep, PressRepeatUpCheck, zeroed
  <2>2. UpStep(To(zeroed, "repeat down?", "none"))  BY <1>2, <1>6, ToUp
  <2>3. UpStep(To(b, "down?", "none"))  BY <1>6, ToUp
  <2> QED  BY <2>1, <2>2, <2>3
<1>11. CASE b.state = "long up?"
  <2>1. ButtonStep(b) = To(unheld, "down?", "none")
    BY <1>11 DEF ButtonStep, PressLongPressUpCheck, unheld
  <2>2. UpStep(To(unheld, "down?", "none"))  BY <1>4, <1>6, ToUp
  <2> QED  BY <2>1, <2>2
<1> QED  BY <1>1, <1>7, <1>8, <1>9, <1>10, <1>11 DEF UpStates, DownStates

LEMMA StepDown ==
  ASSUME NEW b \in Buttons, b.active, b.state \in UpStates
  PROVE  DownStep(ButtonStep(b))
<1> DEFINE restarted == [b EXCEPT !.ticks = 0]
           first == [b EXCEPT !.ticks = 0, !.repeat = 1]
           again == [b EXCEPT !.ticks = 0, !.repeat = b.repeat + 1]
<1>1. restarted \in Buttons /\ restarted.active /\ restarted.ticks = 0  BY DEF Buttons
<1>2. /\ first = [restarted EXCEPT !.repeat = 1]
      /\ again = [restarted EXCEPT !.repeat = b.repeat + 1]
  OBVIOUS
<1>3. b.repeat + 1 \in Nat  BY DEF Buttons
<1> HIDE DEF restarted, first, again
<1>4. first \in Buttons /\ first.active /\ first.ticks = 0  BY <1>1, <1>2 DEF Buttons
<1>5. again \in Buttons /\ again.active /\ again.ticks = 0  BY <1>1, <1>2, <1>3 DEF Buttons
<1>6. CASE b.state = "down?"
  <2>1. ButtonStep(b) = To(first, "up?", "PRESS_DOWN")
    BY <1>6 DEF ButtonStep, PressDownCheck, first
  <2>2. DownStep(To(first, "up?", "PRESS_DOWN"))  BY <1>4, ToDown
  <2> QED  BY <2>1, <2>2
<1>7. CASE b.state = "repeat down?"
  <2>1. ButtonStep(b) = To(again, "repeat up?", "PRESS_DOWN")
    BY <1>7 DEF ButtonStep, PressRepeatDownCheck, again, Buttons
  <2>2. DownStep(To(again, "repeat up?", "PRESS_DOWN"))  BY <1>5, ToDown
  <2> QED  BY <2>1, <2>2
<1> QED  BY <1>6, <1>7 DEF UpStates

LEMMA StepHeld ==
  ASSUME NEW b \in Buttons, b.active, b.state \in DownStates
  PROVE  HeldStep(b, ButtonStep(b))
<1> DEFINE long == [b EXCEPT !.started = TRUE]
           holds == [b EXCEPT !.hold_cnt = b.hold_cnt + 1]
<1>1. long \in Buttons /\ long.active /\ long.ticks = b.ticks  BY DEF Buttons
<1>2. holds \in Buttons /\ holds.active /\ holds.ticks = b.ticks  BY DEF Buttons
<1> HIDE DEF long, holds
<1>3. CASE b.state = "up?"
  <2>1. \/ /\ b.ticks >= Long
           /\ \/ ButtonStep(b) = To(long, "long up?", "LONG_PRESS_START")
              \/ ButtonStep(b) = To(long, "long up?", "none")
        \/ ButtonStep(b) = To(b, "up?", "none")
    BY <1>3 DEF ButtonStep, PressUpCheck, Stay, long
  <2>2. b.ticks >= Long => /\ HeldStep(b, To(long, "long up?", "LONG_PRESS_START"))
                           /\ HeldStep(b, To(long, "long up?", "none"))
    BY <1>1, ToHeld DEF DownStates
  <2>3. HeldStep(b, To(b, "up?", "none"))  BY <1>3, ToHeld DEF DownStates
  <2> QED  BY <2>1, <2>2, <2>3
<1>4. CASE b.state = "repeat up?"
  <2>1. ButtonStep(b) = To(b, "repeat up?", "none")
    BY <1>4 DEF ButtonStep, PressRepeatUpCheck, Stay
  <2>2. HeldStep(b, To(b, "repeat up?", "none"))  BY <1>4, ToHeld DEF DownStates
  <2> QED  BY <2>1, <2>2
<1>5. CASE b.state = "long up?"
  <2>1. \/ ButtonStep(b) = To(holds, "long up?", "LONG_PRESS_HOLD")
        \/ ButtonStep(b) = To(b, "long up?", "none")
    <3> DEFINE due == b.ticks >= (b.hold_cnt + 1) * Serial + Long
    <3>1. ButtonStep(b) = PressLongPressUpCheck(b)  BY <1>5 DEF ButtonStep
    <3>2. CASE due
      BY <1>5, <3>1, <3>2 DEF PressLongPressUpCheck, holds, Buttons
    <3>3. CASE ~due
      BY <1>5, <3>1, <3>3 DEF PressLongPressUpCheck, Stay
    <3> QED  BY <3>2, <3>3
  <2>2. HeldStep(b, To(holds, "long up?", "LONG_PRESS_HOLD"))
    BY <1>2, <1>5, ToHeld DEF DownStates
  <2>3. HeldStep(b, To(b, "long up?", "none"))  BY <1>5, ToHeld DEF DownStates
  <2> QED  BY <2>1, <2>2, <2>3
<1> QED  BY <1>3, <1>4, <1>5 DEF DownStates

LEMMA OlderIs ==
  ASSUME NEW age \in Nat, NEW max \in Nat
  PROVE  /\ Older(age, max) \in Nat /\ Older(age, max) <= age + 1
         /\ age < max => Older(age, max) <= max
  BY DEF Older

\* What every period does to the histories and the break
LEMMA PeriodTypes ==
  ASSUME ButtonInv, NEW active \in BOOLEAN, ButtonCb(active)
  PROVE  /\ pressed' \in Nat /\ wraps_in' \in Nat /\ break' \in Nat
         /\ held' \in Nat /\ gap' \in Nat /\ resets' \in BOOLEAN
<1> USE DEF ButtonInv, ButtonTypeOK
<1>1. pressed' \in Nat /\ wraps_in' \in Nat
  <2>1. CASE Pressed  BY <2>1, ButtonNumbers DEF Pressed
  <2>2. CASE pressed' = Older(pressed, VeryLong) /\ UNCHANGED wraps_in
    BY <2>2, OlderIs, ButtonNumbers
  <2> QED  BY <2>1, <2>2 DEF ButtonCb
<1>2. break' \in Nat  BY OlderIs, ButtonNumbers DEF ButtonCb
<1>3. held' \in Nat  BY DEF ButtonCb
<1>4. gap' \in Nat  BY OlderIs, ButtonNumbers DEF ButtonCb
<1>5. resets' \in BOOLEAN  BY DEF ButtonCb
<1> QED  BY <1>1, <1>2, <1>3, <1>4, <1>5

LEMMA StaysReached ==
  ASSUME NEW time \in Nat, NEW limit \in Nat
  PROVE  time >= limit => time + 1 >= limit /\ time + 1 > limit
  OBVIOUS

\* What the reset's event needs
ResetMeant ==
  posted' = "3X_SHORT_1X_VERY_LONG" =>
    /\ held > IF wraps_in' = 0 THEN VeryLong ELSE Long
    /\ gap' <= BreakMax
    /\ ~resets

LEMMA ButtonPeriod ==
  ASSUME ButtonInv, NEW active \in BOOLEAN, ButtonCb(active)
  PROVE  ButtonInv' /\ ResetMeant
<1> DEFINE b == Sampled(active)
           r == ButtonStep(b)
<1>1. /\ b \in Buttons /\ b.state = btn.state
      /\ b.ticks = IF btn.state = "down?" THEN btn.ticks ELSE btn.ticks + 1
  BY SampledIs DEF ButtonInv, ButtonTypeOK
<1>2. /\ btn' = r.b /\ evt' = r.evt
      /\ \/ Pressed
         \/ /\ Clicked \/ LongPressed \/ HeldOn \/ NotCalled
            /\ pressed' = Older(pressed, VeryLong)
            /\ UNCHANGED wraps_in
  BY DEF ButtonCb
<1> HIDE DEF b, r
<1>9. /\ r.b.active => held' = held + 1
      /\ r.b.active /\ held = 0 => gap' = Older(break, BreakMax)
      /\ held # 0 => gap' = gap
      /\ ~r.b.active => held' = 0
  BY DEF ButtonCb, b, r
<1>10. resets' => held' > 0 /\ (resets \/ posted' = "3X_SHORT_1X_VERY_LONG")
  BY DEF ButtonCb
<1>3. /\ pressed' \in Nat /\ wraps_in' \in Nat /\ break' \in Nat
      /\ held' \in Nat /\ gap' \in Nat /\ resets' \in BOOLEAN
  BY PeriodTypes
<1>4. /\ btn \in Buttons /\ btn.ticks \in Nat /\ btn.state \in UpStates \cup DownStates
      /\ pressed \in Nat /\ wraps_in \in Nat /\ break \in Nat /\ held \in Nat /\ gap \in Nat
  BY DEF ButtonInv, ButtonTypeOK, Buttons
<1>5. HeldSince /\ MeantSoFar  BY DEF ButtonInv
<1>6. CASE ~b.active
  <2>1. UpStep(r)  BY <1>1, <1>6, StepUp DEF r
  <2>2. Clicked \/ NotCalled
    BY <1>2, <2>1 DEF UpStep, Pressed, LongPressed, HeldOn
  <2>3. posted' # "3X_SHORT_1X_VERY_LONG"  BY <2>2 DEF Clicked, NotCalled
  <2>4. held' = 0  BY <1>9, <2>1 DEF UpStep
  <2>5. ButtonTypeOK'  BY <1>2, <1>3, <2>1 DEF UpStep, ButtonTypeOK
  <2>6. HeldSince'
    <3>1. btn'.state \notin DownStates
      BY <1>2, <2>1 DEF UpStep, UpStates, DownStates
    <3>2. ~(held' > 0)  BY <2>4
    <3>3. btn'.state # "long up?"  BY <3>1 DEF DownStates
    <3> QED  BY <3>1, <3>2, <3>3 DEF HeldSince
  <2>7. MeantSoFar'
    <3>1. ~(held' > 0)  BY <2>4
    <3> QED  BY <1>10, <3>1 DEF MeantSoFar
  <2> QED  BY <2>3, <2>5, <2>6, <2>7 DEF ButtonInv, ResetMeant
<1>7. CASE b.active /\ btn.state \in UpStates
  <2>1. DownStep(r)  BY <1>1, <1>7, StepDown DEF r
  <2>2. held = 0
    <3>1. btn.state \in UpStates /\ HeldSince  BY <1>5, <1>7
    <3>2. ~(held > 0)  BY <3>1 DEF HeldSince, UpStates, DownStates
    <3> QED  BY <1>4, <3>2
  <2>3. Pressed  BY <1>2, <2>1 DEF DownStep, Clicked, LongPressed, HeldOn, NotCalled
  <2>4. /\ held' = 1 /\ pressed' = 0 /\ gap' = Older(break, BreakMax)
        /\ btn'.ticks = 0 /\ btn'.state \in {"up?", "repeat up?"}
    <3>1. held' = held + 1 /\ gap' = Older(break, BreakMax)  BY <1>9, <2>1, <2>2 DEF DownStep
    <3>2. btn'.ticks = 0 /\ btn'.state \in {"up?", "repeat up?"}  BY <1>2, <2>1 DEF DownStep
    <3>3. held' = 1  BY <2>2, <3>1
    <3>4. pressed' = 0  BY <2>3 DEF Pressed
    <3> QED  BY <3>1, <3>2, <3>3, <3>4
  <2>5. ButtonTypeOK'  BY <1>2, <1>3, <2>1 DEF DownStep, ButtonTypeOK
  <2>6. HeldSince'
    <3>1. held' > 0 /\ pressed' <= held' - 1 /\ btn'.ticks = held' - 1
      <4>1. held' = 1 /\ pressed' = 0 /\ btn'.ticks = 0  BY <2>4
      <4> QED  BY <4>1
    <3>2. btn'.state \in DownStates /\ btn'.state # "long up?"  BY <2>4 DEF DownStates
    <3> QED  BY <3>1, <3>2 DEF HeldSince
  <2>7. Tracking' => Tracking /\ break < BreakMax
    BY <1>4, <2>3, ButtonNumbers DEF Pressed, Tracking
  <2>8. MeantSoFar'
    <3>1. break < BreakMax => gap' <= BreakMax  BY <1>4, <2>4, OlderIs, ButtonNumbers
    <3>2. resets' => resets  BY <1>10, <2>3 DEF Pressed
    <3> QED  BY <1>5, <2>7, <3>1, <3>2 DEF MeantSoFar
  <2>9. ResetMeant  BY <2>3 DEF Pressed, ResetMeant
  <2> QED  BY <2>5, <2>6, <2>8, <2>9 DEF ButtonInv
<1>8. CASE b.active /\ btn.state \in DownStates
  <2>1. HeldStep(b, r)  BY <1>1, <1>8, StepHeld DEF r
  <2>2. held > 0 /\ pressed <= held - 1 /\ b.ticks = held
    <3>1. btn.state \in DownStates /\ HeldSince  BY <1>5, <1>8
    <3>2. held > 0  BY <3>1 DEF HeldSince
    <3>3. btn.state # "down?"  BY <3>1 DEF DownStates
    <3>4. pressed <= held - 1 /\ btn.ticks = held - 1  BY <3>1, <3>2 DEF HeldSince
    <3>5. b.ticks = btn.ticks + 1  BY <1>1, <3>3
    <3>6. held \in Nat  BY <1>4
    <3>7. b.ticks = held  BY <3>4, <3>5, <3>6
    <3> QED  BY <3>2, <3>4, <3>7
  <2>3. /\ LongPressed \/ HeldOn \/ NotCalled
        /\ pressed' = Older(pressed, VeryLong) /\ UNCHANGED wraps_in
    BY <1>2, <2>1 DEF HeldStep, Pressed, Clicked
  <2>4. /\ held' = held + 1 /\ pressed' <= held /\ btn'.ticks = held /\ gap' = gap
    <3>1. held' = held + 1  BY <1>9, <2>1 DEF HeldStep
    <3>2. btn'.ticks = held  BY <1>2, <2>1, <2>2 DEF HeldStep
    <3>3. pressed' <= held  BY <1>4, <2>2, <2>3, OlderIs, ButtonNumbers
    <3>4. held # 0  BY <1>4, <2>2
    <3> QED  BY <1>9, <3>1, <3>2, <3>3, <3>4
  <2>5. ButtonTypeOK'  BY <1>2, <1>3, <2>1 DEF HeldStep, ButtonTypeOK
  <2>6. btn'.state = "long up?" => held >= Long
    <3> SUFFICES ASSUME btn'.state = "long up?" PROVE held >= Long  OBVIOUS
    <3>1. btn.state = "long up?" \/ b.ticks >= Long  BY <1>1, <1>2, <2>1 DEF HeldStep
    <3>2. btn.state = "long up?" => btn.ticks >= Long /\ b.ticks = btn.ticks + 1
      BY <1>1, <1>5 DEF HeldSince
    <3>3. btn.ticks \in Nat /\ b.ticks = held  BY <1>4, <2>2
    <3>4. btn.ticks >= Long => btn.ticks + 1 >= Long
      BY <3>3, ButtonNumbers, StaysReached
    <3>5. b.ticks >= Long  BY <3>1, <3>2, <3>4
    <3> QED  BY <3>3, <3>5
  <2>7. HeldSince'
    <3>1. btn'.state \in DownStates  BY <1>2, <2>1 DEF HeldStep
    <3>2. held' > 0 /\ held' - 1 = held
      <4>1. held \in Nat /\ held' = held + 1  BY <1>4, <2>4
      <4> QED  BY <4>1
    <3>3. pressed' <= held' - 1 /\ btn'.ticks = held' - 1  BY <2>4, <3>2
    <3>4. btn'.state = "long up?" => btn'.ticks >= Long  BY <2>4, <2>6
    <3> QED  BY <3>1, <3>2, <3>3, <3>4 DEF HeldSince
  <2>8. /\ Tracking' => Tracking
        /\ posted' = "3X_SHORT_1X_VERY_LONG" =>
             ~Tracking' /\ HeldOn /\ Tracking /\ VeryLongElapsed(pressed + 1)
    BY <2>3 DEF LongPressed, HeldOn, NotCalled, Tracking
  <2>9. MeantSoFar'
    BY <1>5, <1>10, <2>2, <2>4, <2>8 DEF MeantSoFar
  <2>10. ResetMeant
    <3> SUFFICES ASSUME posted' = "3X_SHORT_1X_VERY_LONG"
                 PROVE  /\ held > IF wraps_in' = 0 THEN VeryLong ELSE Long
                        /\ gap' <= BreakMax /\ ~resets
      BY DEF ResetMeant
    <3>1. Tracking /\ VeryLongElapsed(pressed + 1) /\ evt' = "LONG_PRESS_HOLD"
      BY <2>8 DEF HeldOn
    <3>2. btn.state = "long up?"  BY <1>1, <1>2, <2>1, <3>1 DEF HeldStep
    <3>3. held > Long
      <4>1. btn.ticks >= Long /\ b.ticks = btn.ticks + 1  BY <1>1, <1>5, <3>2 DEF HeldSince
      <4> QED  BY <1>4, <2>2, <4>1, ButtonNumbers
    <3>4. wraps_in' = 0 => held > VeryLong
      BY <1>4, <2>2, <2>3, <3>1, ButtonNumbers DEF VeryLongElapsed
    <3>5. gap' <= BreakMax /\ ~resets  BY <1>5, <2>2, <2>4, <3>1 DEF MeantSoFar
    <3> QED  BY <3>3, <3>4, <3>5
  <2> QED  BY <2>5, <2>7, <2>9, <2>10 DEF ButtonInv
<1> QED  BY <1>4, <1>6, <1>7, <1>8

LEMMA ButtonKeeps == ButtonInv /\ [PartsNext]_partsVars => ButtonInv' /\ [ResetMeant]_buttonVars
<1> SUFFICES ASSUME ButtonInv, [PartsNext]_partsVars
             PROVE  ButtonInv' /\ [ResetMeant]_buttonVars
  OBVIOUS
<1>1. CASE UNCHANGED buttonVars  BY <1>1, ButtonUnchanged
<1>2. CASE ~UNCHANGED buttonVars
  <2>1. ButtonNext  BY <1>2 DEF partsVars, PartsNext, Works
  <2> QED  BY <2>1, ButtonPeriod DEF ButtonNext
<1> QED  BY <1>1, <1>2

LEMMA ButtonGoesOn == PartsSpec => []ButtonInv
<1>1. PartsInit => ButtonInv  BY ButtonInitial DEF PartsInit
<1> QED  BY <1>1, ButtonKeeps, PTL DEF PartsSpec, partsVars

(***************************************************************************)
(* A factory reset is asked for only on purpose, and once a press          *)
(* (button.c:16-62, iot_button.c's button_handler), for all thresholds:    *)
(* none of them has to be below another.                                   *)
(***************************************************************************)
THEOREM ResetsAreMeant == PartsSpec => FactoryResetMeant
<1>1. ButtonInv /\ [PartsNext]_partsVars => [ResetMeant]_buttonVars  BY ButtonKeeps
<1> QED  BY <1>1, ButtonGoesOn, PTL DEF PartsSpec, partsVars, FactoryResetMeant, ResetMeant

-----------------------------------------------------------------------------
(* The core dump's upload                                                  *)

Uploads == [api : BOOLEAN, ver : Nat, addr : Int, size_left : Int, ready : BOOLEAN]
Blocks == [at : {"idle", "body", "end", "advance"}, len : Int, last : BOOLEAN]
Handed == [kind : {"valid", "body", "end"}, ver : Nat, addr : Int, len : Int]

CoredumpTypeOK ==
  /\ upload \in Uploads
  /\ starter \in {"idle", "addr", "size", "ver", "api", "ready", "valid"}
  /\ block \in Blocks
  /\ uploaded \in Seq(Handed)
  /\ starts \in Nat

\* How much of the dump was handed over
SoFar == upload.addr + IF block.at \in {"end", "advance"} THEN block.len ELSE 0

\* While an upload is described nothing is sent.
Starting ==
  /\ starter \in {"addr", "size", "ver", "api", "ready"} => ~upload.ready /\ uploaded = <<>>
  /\ starter \in {"size", "ver", "api", "ready"} => upload.addr = 0
  /\ starter \in {"ver", "api", "ready"} => upload.size_left = ImageSize
  /\ starter \in {"api", "ready", "valid"} => upload.ver = starts
  /\ starter = "ready" => upload.api

\* From then on the messages cover the dump from its first byte to SoFar.
Described ==
  upload.ready =>
    /\ upload.api /\ upload.ver = starts
    /\ upload.addr >= 0 /\ upload.size_left >= 0 /\ upload.addr + upload.size_left = ImageSize

Covered ==
  upload.ready =>
    /\ \A i \in Bodies : EndOf(i) <= SoFar
    /\ SoFar = 0 \/ \E i \in Bodies : EndOf(i) = SoFar

AtBlock ==
  /\ block.at # "idle" =>
       /\ upload.ready
       /\ block.len \in 1..DumpBlock /\ block.len <= upload.size_left
       /\ block.last <=> block.len = upload.size_left
  /\ block.at = "end" => block.last

Upload == ~overlaps => Starting /\ Described /\ Covered /\ AtBlock

CoredumpInv == CoredumpTypeOK /\ Upload /\ UploadsInOrder

LEMMA CoredumpNumbers == ImageSize \in Nat \ {0} /\ DumpBlock \in Nat \ {0}
  BY CoredumpAssumption

\* A new upload has sent nothing.
LEMMA NothingUploaded ==
  ASSUME uploaded' = <<>>, block' \in Blocks
  PROVE  UploadsInOrder'
<1>1. Bodies' = {} /\ Ends' = {}  BY DEF Bodies, Ends
<1>2. DOMAIN uploaded' = {}  OBVIOUS
<1> QED  BY <1>1, <1>2 DEF UploadsInOrder

\* What does not send, and is not before or after the end, keeps the order.
LEMMA NothingSent ==
  ASSUME UploadsInOrder, UNCHANGED <<uploaded, starts, overlaps>>,
         block'.at = "end" <=> block.at = "end"
  PROVE  UploadsInOrder'
<1>1. Bodies' = Bodies /\ Ends' = Ends  BY DEF Bodies, Ends
<1>2. \A i : EndOf(i)' = EndOf(i)  BY DEF EndOf
<1> QED  BY <1>1, <1>2 DEF UploadsInOrder

\* A message that is sent comes last.
LEMMA SendsLast ==
  ASSUME CoredumpTypeOK, NEW kind \in {"valid", "body", "end"}, NEW len \in Int, Send(kind, len)
  PROVE  /\ uploaded' \in Seq(Handed) /\ Len(uploaded') = Len(uploaded) + 1
         /\ Len(uploaded) \in Nat /\ DOMAIN uploaded = 1..Len(uploaded)
         /\ DOMAIN uploaded' = 1..Len(uploaded)+1
         /\ \A i \in 1..Len(uploaded) : uploaded'[i] = uploaded[i]
         /\ uploaded'[Len(uploaded) + 1] =
              [kind |-> kind, ver |-> upload.ver, addr |-> upload.addr, len |-> len]
<1> DEFINE m == [kind |-> kind, ver |-> upload.ver, addr |-> upload.addr, len |-> len]
<1>1. m \in Handed  BY DEF CoredumpTypeOK, Uploads, Handed
<1>2. uploaded \in Seq(Handed) /\ uploaded' = Append(uploaded, m)
  BY DEF CoredumpTypeOK, Send
<1> HIDE DEF m, Handed
<1>3. /\ uploaded' \in Seq(Handed) /\ Len(uploaded') = Len(uploaded) + 1
      /\ Len(uploaded) \in Nat /\ DOMAIN uploaded = 1..Len(uploaded)
      /\ DOMAIN uploaded' = 1..Len(uploaded)+1
      /\ \A i \in 1..Len(uploaded) : uploaded'[i] = uploaded[i]
      /\ uploaded'[Len(uploaded) + 1] = m
  BY <1>1, <1>2
<1> QED  BY <1>3 DEF m

LEMMA CoredumpInitial == CoredumpInit => CoredumpInv
<1> SUFFICES ASSUME CoredumpInit PROVE CoredumpInv  OBVIOUS
<1>1. CoredumpTypeOK
  BY DEF CoredumpInit, CoredumpTypeOK, Uploads, Blocks, NoBlock
<1>2. Upload
  BY DEF CoredumpInit, Upload, Starting, Described, Covered, AtBlock, NoBlock
<1>3. UploadsInOrder
  <2>1. Bodies = {} /\ Ends = {} /\ DOMAIN uploaded = {}  BY DEF CoredumpInit, Bodies, Ends
  <2> QED  BY <2>1 DEF UploadsInOrder
<1> QED  BY <1>1, <1>2, <1>3 DEF CoredumpInv

LEMMA CoredumpUnchanged == CoredumpInv /\ UNCHANGED coredumpVars => CoredumpInv'
<1> SUFFICES ASSUME CoredumpInv, UNCHANGED coredumpVars PROVE CoredumpInv'  OBVIOUS
<1> USE DEF coredumpVars, CoredumpInv
<1>1. CoredumpTypeOK'  BY DEF CoredumpTypeOK
<1>2. UploadsInOrder'  BY NothingSent
<1>3. Bodies' = Bodies /\ (\A i : EndOf(i)' = EndOf(i)) /\ SoFar' = SoFar
  BY DEF Bodies, EndOf, SoFar
<1>4. Upload'  BY <1>3 DEF Upload, Starting, Described, Covered, AtBlock
<1> QED  BY <1>1, <1>2, <1>4

LEMMA CoredumpChecks == CoredumpInv /\ CheckImage => CoredumpInv'
<1> SUFFICES ASSUME CoredumpInv, CheckImage PROVE CoredumpInv'  OBVIOUS
<1> USE DEF CoredumpInv
<1>1. CoredumpTypeOK'
  <2>1. starts' \in Nat  BY DEF CheckImage, CoredumpTypeOK
  <2>2. starter' \in {"idle", "addr"}  BY DEF CheckImage
  <2>3. uploaded' = <<>> /\ UNCHANGED <<upload, block>>  BY DEF CheckImage
  <2> QED  BY <2>1, <2>2, <2>3 DEF CoredumpTypeOK
<1>2. UploadsInOrder'
  <2>1. uploaded' = <<>> /\ block' \in Blocks  BY DEF CheckImage, CoredumpTypeOK
  <2> QED  BY <2>1, NothingUploaded
<1>3. Upload'
  <2> SUFFICES ASSUME ~overlaps' PROVE (Starting /\ Described /\ Covered /\ AtBlock)'
    BY DEF Upload
  <2>1. ~overlaps /\ ~upload.ready /\ uploaded' = <<>> /\ starter' \in {"idle", "addr"}
        /\ UNCHANGED <<upload, block>>
    BY DEF CheckImage
  <2>2. AtBlock  BY <2>1 DEF Upload
  <2> QED  BY <2>1, <2>2 DEF Starting, Described, Covered, AtBlock
<1> QED  BY <1>1, <1>2, <1>3

LEMMA CoredumpStarts == CoredumpInv /\ Start => CoredumpInv'
<1> SUFFICES ASSUME CoredumpInv, Start PROVE CoredumpInv'  OBVIOUS
<1> USE DEF CoredumpInv
<1>1. UNCHANGED <<block, uploaded, starts, overlaps>>  BY DEF Start
<1>2. upload \in Uploads /\ starts \in Nat /\ ImageSize \in Int
  BY CoredumpNumbers DEF CoredumpTypeOK
<1>3. UploadsInOrder'  BY <1>1, NothingSent
<1>4. ~overlaps => Starting /\ ~upload.ready /\ uploaded = <<>> /\ block.at = "idle"
  BY DEF Upload, Starting, AtBlock, Start
<1>5. ~upload'.ready \/ starter = "ready" => (~overlaps => AtBlock')
  BY <1>1, <1>4 DEF AtBlock
<1>6. ~overlaps => Bodies' = {}  BY <1>1, <1>4 DEF Bodies
<1>7. ASSUME upload' \in Uploads, starter' \in {"size", "ver", "api", "ready", "valid"},
             ~overlaps => Starting' /\ Described' /\ SoFar' = 0
      PROVE  CoredumpInv'
  <2>1. CoredumpTypeOK'  BY <1>1, <1>7 DEF CoredumpTypeOK
  <2>2. ~overlaps => AtBlock'  BY <1>1, <1>4 DEF AtBlock
  <2>3. ~overlaps => Covered'  BY <1>6, <1>7 DEF Covered
  <2> QED  BY <1>1, <1>3, <1>7, <2>1, <2>2, <2>3 DEF Upload
<1>8. CASE starter = "addr"
  <2>1. upload' = [upload EXCEPT !.addr = 0] /\ starter' = "size"  BY <1>8 DEF Start
  <2>2. /\ upload' \in Uploads /\ upload'.addr = 0 /\ (upload'.ready <=> upload.ready)
    BY <1>2, <2>1 DEF Uploads
  <2>3. ~overlaps => Starting' /\ Described' /\ SoFar' = 0
    BY <1>1, <1>4, <2>1, <2>2 DEF Starting, Described, SoFar
  <2> QED  BY <1>7, <2>1, <2>2, <2>3
<1>9. CASE starter = "size"
  <2>1. upload' = [upload EXCEPT !.size_left = ImageSize] /\ starter' = "ver"
    BY <1>9 DEF Start
  <2>2. /\ upload' \in Uploads /\ upload'.size_left = ImageSize /\ upload'.addr = upload.addr
        /\ (upload'.ready <=> upload.ready)
    BY <1>2, <2>1 DEF Uploads
  <2>3. ~overlaps => Starting' /\ Described' /\ SoFar' = 0
    BY <1>1, <1>4, <1>9, <2>1, <2>2 DEF Starting, Described, SoFar
  <2> QED  BY <1>7, <2>1, <2>2, <2>3
<1>10. CASE starter = "ver"
  <2>1. upload' = [upload EXCEPT !.ver = starts] /\ starter' = "api"  BY <1>10 DEF Start
  <2>2. /\ upload' \in Uploads /\ upload'.ver = starts /\ upload'.addr = upload.addr
        /\ upload'.size_left = upload.size_left /\ (upload'.ready <=> upload.ready)
    BY <1>2, <2>1 DEF Uploads
  <2>3. ~overlaps => Starting' /\ Described' /\ SoFar' = 0
    BY <1>1, <1>4, <1>10, <2>1, <2>2 DEF Starting, Described, SoFar
  <2> QED  BY <1>7, <2>1, <2>2, <2>3
<1>11. CASE starter = "api"
  <2>1. upload' = [upload EXCEPT !.api = TRUE] /\ starter' = "ready"  BY <1>11 DEF Start
  <2>2. /\ upload' \in Uploads /\ upload'.ver = upload.ver /\ upload'.addr = upload.addr
        /\ upload'.size_left = upload.size_left /\ (upload'.ready <=> upload.ready)
        /\ upload'.api
    BY <1>2, <2>1 DEF Uploads
  <2>3. ~overlaps => Starting' /\ Described' /\ SoFar' = 0
    BY <1>1, <1>4, <1>11, <2>1, <2>2 DEF Starting, Described, SoFar
  <2> QED  BY <1>7, <2>1, <2>2, <2>3
<1>12. CASE starter = "ready"
  <2>1. upload' = [upload EXCEPT !.ready = TRUE] /\ starter' = "valid"  BY <1>12 DEF Start
  <2>2. /\ upload' \in Uploads /\ upload'.ver = upload.ver /\ upload'.addr = upload.addr
        /\ upload'.size_left = upload.size_left /\ (upload'.api <=> upload.api)
    BY <1>2, <2>1 DEF Uploads
  <2>3. ~overlaps => /\ upload.addr = 0 /\ upload.size_left = ImageSize
                     /\ upload.ver = starts /\ upload.api
    BY <1>4, <1>12 DEF Starting
  <2>4. ~overlaps => Described'
    <3>1. 0 >= 0 /\ ImageSize >= 0 /\ 0 + ImageSize = ImageSize  BY CoredumpNumbers
    <3> QED  BY <1>1, <2>2, <2>3, <3>1 DEF Described
  <2>5. ~overlaps => Starting' /\ SoFar' = 0
    BY <1>1, <1>4, <2>1, <2>2, <2>3 DEF Starting, SoFar
  <2> QED  BY <1>7, <2>1, <2>2, <2>4, <2>5
<1> QED  BY <1>8, <1>9, <1>10, <1>11, <1>12 DEF Start

LEMMA CoredumpAborts == CoredumpInv /\ CheckAborts => CoredumpInv'
<1> SUFFICES ASSUME CoredumpInv, CheckAborts PROVE CoredumpInv'  OBVIOUS
<1>1. CoredumpTypeOK'
  BY DEF CheckAborts, CoredumpInv, CoredumpTypeOK, Uploads, Blocks, NoBlock
<1>2. Upload'
  BY DEF CheckAborts, Upload, Starting, Described, Covered, AtBlock, NoBlock
<1>3. UploadsInOrder'
  <2>1. uploaded' = <<>> /\ block' \in Blocks  BY <1>1 DEF CheckAborts, CoredumpTypeOK
  <2> QED  BY <2>1, NothingUploaded
<1> QED  BY <1>1, <1>2, <1>3 DEF CoredumpInv

LEMMA CoredumpAnnounces == CoredumpInv /\ SendValid => CoredumpInv'
<1> SUFFICES ASSUME CoredumpInv, SendValid PROVE CoredumpInv'  OBVIOUS
<1> USE DEF CoredumpInv
<1>1. starter = "valid" /\ starter' = "idle" /\ UNCHANGED <<upload, block, starts, overlaps>>
  BY DEF SendValid
<1>2. CASE UNCHANGED uploaded
  <2>1. CoredumpTypeOK'  BY <1>1, <1>2 DEF CoredumpTypeOK
  <2>2. UploadsInOrder'  BY <1>1, <1>2, NothingSent
  <2>3. Bodies' = Bodies /\ (\A i : EndOf(i)' = EndOf(i)) /\ SoFar' = SoFar
    BY <1>1, <1>2 DEF Bodies, EndOf, SoFar
  <2>4. Upload'  BY <1>1, <1>2, <2>3 DEF Upload, Starting, Described, Covered, AtBlock
  <2> QED  BY <2>1, <2>2, <2>4
<1>3. CASE Send("valid", 0)
  <2> DEFINE n == Len(uploaded)
  <2>1. /\ uploaded' \in Seq(Handed) /\ Len(uploaded') = n + 1
        /\ n \in Nat /\ DOMAIN uploaded = 1..n /\ DOMAIN uploaded' = 1..n+1
        /\ \A i \in 1..n : uploaded'[i] = uploaded[i]
        /\ uploaded'[n + 1] =
             [kind |-> "valid", ver |-> upload.ver, addr |-> upload.addr, len |-> 0]
    BY <1>3, SendsLast
  <2> HIDE DEF n
  <2>7. uploaded'[n + 1].kind = "valid" /\ uploaded'[n + 1].ver = upload.ver  BY <2>1
  <2>2. Bodies' = Bodies /\ Ends' = Ends /\ Bodies \subseteq 1..n
    BY <2>1, <2>7 DEF Bodies, Ends
  <2>3. /\ \A i \in Bodies : uploaded'[i] = uploaded[i] /\ EndOf(i)' = EndOf(i)
        /\ SoFar' = SoFar
    BY <1>1, <2>1, <2>2 DEF EndOf, SoFar
  <2>4. CoredumpTypeOK'  BY <1>1, <2>1 DEF CoredumpTypeOK
  <2>5. Upload'  BY <1>1, <2>2, <2>3 DEF Upload, Starting, Described, Covered, AtBlock
  <2>6. UploadsInOrder'
    <3> SUFFICES ASSUME ~overlaps PROVE UploadsInOrder'  BY <1>1 DEF UploadsInOrder
    <3>1. upload.ver = starts  BY <1>1 DEF Upload, Starting
    <3>2. \A i \in DOMAIN uploaded' : uploaded'[i].ver = starts
      BY <2>1, <2>7, <3>1 DEF UploadsInOrder
    <3> QED  BY <1>1, <2>2, <2>3, <3>2 DEF UploadsInOrder
  <2> QED  BY <2>4, <2>5, <2>6
<1> QED  BY <1>2, <1>3 DEF SendValid

LEMMA CoredumpEnds == CoredumpInv /\ (\E success \in BOOLEAN : DataSent(success)) => CoredumpInv'
<1> SUFFICES ASSUME CoredumpInv, NEW success \in BOOLEAN, DataSent(success)
             PROVE  CoredumpInv'
  OBVIOUS
<1> USE DEF CoredumpInv
<1>1. /\ block.at = "idle" /\ upload.ready
      /\ UNCHANGED <<image, starter, uploaded, starts, overlaps>>
  BY DEF DataSent
<1>2. upload \in Uploads /\ upload.size_left \in Int /\ upload.addr \in Int
  BY DEF CoredumpTypeOK, Uploads
<1>3. Bodies' = Bodies /\ (\A i : EndOf(i)' = EndOf(i))  BY <1>1 DEF Bodies, EndOf
<1>4. ~overlaps => starter \in {"idle", "valid"}
  <2> SUFFICES ASSUME ~overlaps PROVE starter \in {"idle", "valid"}  OBVIOUS
  <2>1. Starting  BY DEF Upload
  <2> QED  BY <1>1, <2>1 DEF Starting, CoredumpTypeOK
<1>5. CASE upload' = [upload EXCEPT !.api = FALSE, !.ready = FALSE] /\ UNCHANGED block
  <2> DEFINE gone == [upload EXCEPT !.api = FALSE]
  <2>1. gone \in Uploads /\ upload' = [gone EXCEPT !.ready = FALSE]
        /\ gone.ver = upload.ver /\ gone.addr = upload.addr
    BY <1>2, <1>5 DEF Uploads
  <2> HIDE DEF gone
  <2>2. upload' \in Uploads /\ ~upload'.ready /\ upload'.ver = upload.ver
    BY <2>1 DEF Uploads
  <2>3. CoredumpTypeOK'  BY <1>1, <1>5, <2>2 DEF CoredumpTypeOK
  <2>4. Upload'
    BY <1>1, <1>4, <1>5, <2>2 DEF Upload, Starting, Described, Covered, AtBlock
  <2>5. UploadsInOrder'  BY <1>1, <1>5, NothingSent
  <2> QED  BY <2>3, <2>4, <2>5
<1>6. CASE /\ upload.size_left # 0 /\ UNCHANGED upload
           /\ block' = [at |-> "body", len |-> MinLen, last |-> upload.size_left <= MinLen]
  <2>1. MinLen \in Int  BY <1>2, CoredumpNumbers DEF MinLen
  <2>2. /\ block' \in Blocks /\ block'.at = "body" /\ block'.len = MinLen
        /\ block'.last <=> upload.size_left <= MinLen
    <3> DEFINE late == upload.size_left <= MinLen
    <3>1. late \in BOOLEAN  BY <1>2, <2>1
    <3>2. block' = [at |-> "body", len |-> MinLen, last |-> late]  BY <1>6
    <3> HIDE DEF late
    <3>3. block' \in Blocks /\ block'.at = "body" /\ block'.len = MinLen /\ block'.last = late
      BY <2>1, <3>1, <3>2 DEF Blocks
    <3> QED  BY <3>3 DEF late
  <2>3. upload.size_left > 0 =>
          /\ MinLen \in 1..DumpBlock /\ MinLen <= upload.size_left
          /\ upload.size_left <= MinLen <=> MinLen = upload.size_left
    <3> DEFINE left == upload.size_left
    <3>1. left \in Int /\ DumpBlock \in Nat \ {0}  BY <1>2, CoredumpNumbers
    <3>2. MinLen = IF left < DumpBlock THEN left ELSE DumpBlock  BY DEF MinLen
    <3> HIDE DEF left
    <3>3. left > 0 => /\ MinLen \in 1..DumpBlock /\ MinLen <= left
                      /\ left <= MinLen <=> MinLen = left
      BY <3>1, <3>2
    <3> QED  BY <3>3 DEF left
  <2>4. CoredumpTypeOK'  BY <1>1, <1>6, <2>2 DEF CoredumpTypeOK
  <2>5. Upload'
    <3> SUFFICES ASSUME ~overlaps PROVE (Starting /\ Described /\ Covered /\ AtBlock)'
      BY <1>1 DEF Upload
    <3>1. Starting /\ Described /\ Covered  BY DEF Upload
    <3>2. upload.size_left >= 0  BY <1>1, <3>1 DEF Described
    <3>3. upload.size_left > 0  BY <1>2, <1>6, <3>2
    <3>4. AtBlock'  BY <1>1, <1>6, <2>2, <2>3, <3>3 DEF AtBlock
    <3>5. SoFar' = SoFar  BY <1>1, <1>6, <2>2 DEF SoFar
    <3>6. Starting' /\ Described'  BY <1>1, <1>6, <3>1 DEF Starting, Described
    <3>7. Covered'  BY <1>3, <1>6, <3>1, <3>5 DEF Covered
    <3> QED  BY <3>4, <3>6, <3>7
  <2>6. UploadsInOrder'  BY <1>1, <2>2, NothingSent
  <2> QED  BY <2>4, <2>5, <2>6
<1> QED  BY <1>5, <1>6 DEF DataSent

\* At a block, of an upload that is not started anew
LEMMA BlockUnderWay ==
  ASSUME CoredumpInv, ~overlaps, block.at # "idle"
  PROVE  /\ starter \in {"idle", "valid"}
         /\ upload.ready /\ upload.api /\ upload.ver = starts
         /\ upload.addr \in Nat /\ upload.size_left \in Nat
         /\ upload.addr + upload.size_left = ImageSize
         /\ block.len \in 1..DumpBlock /\ block.len <= upload.size_left
         /\ block.last <=> block.len = upload.size_left
         /\ block.at = "end" => block.last
         /\ \A i \in Bodies : EndOf(i) <= SoFar
         /\ SoFar = 0 \/ \E i \in Bodies : EndOf(i) = SoFar
<1>1. Starting /\ Described /\ Covered /\ AtBlock  BY DEF CoredumpInv, Upload
<1>2. upload.ready  BY <1>1 DEF AtBlock
<1>3. starter \in {"idle", "valid"}
  BY <1>1, <1>2 DEF Starting, CoredumpInv, CoredumpTypeOK
<1>4. upload.addr \in Nat /\ upload.size_left \in Nat
  <2>1. upload.addr \in Int /\ upload.size_left \in Int
    BY DEF CoredumpInv, CoredumpTypeOK, Uploads
  <2>2. upload.addr >= 0 /\ upload.size_left >= 0  BY <1>1, <1>2 DEF Described
  <2> QED  BY <2>1, <2>2
<1> QED  BY <1>1, <1>2, <1>3, <1>4 DEF Described, Covered, AtBlock

LEMMA CoredumpSendsBody == CoredumpInv /\ SendBody => CoredumpInv'
<1> SUFFICES ASSUME CoredumpInv, SendBody PROVE CoredumpInv'  OBVIOUS
<1> USE DEF CoredumpInv
<1> DEFINE n == Len(uploaded)
<1>1. block.at = "body" /\ UNCHANGED <<image, upload, starter, starts, overlaps>>
  BY DEF SendBody
<1>2. block \in Blocks /\ block.len \in Int /\ upload \in Uploads  BY DEF CoredumpTypeOK, Blocks
<1>3. /\ block' \in Blocks /\ block'.len = block.len /\ (block'.last <=> block.last)
      /\ block'.at = IF block.last THEN "end" ELSE "advance"
  BY <1>1, <1>2 DEF SendBody, Blocks
<1>4. upload.api =>
        /\ uploaded' \in Seq(Handed) /\ Len(uploaded') = n + 1
        /\ n \in Nat /\ DOMAIN uploaded = 1..n /\ DOMAIN uploaded' = 1..n+1
        /\ \A i \in 1..n : uploaded'[i] = uploaded[i]
        /\ uploaded'[n + 1] =
             [kind |-> "body", ver |-> upload.ver, addr |-> upload.addr, len |-> block.len]
  BY <1>2, SendsLast DEF SendBody
<1> HIDE DEF n
<1>5. CoredumpTypeOK'
  <2>1. uploaded' \in Seq(Handed)  BY <1>4 DEF SendBody, CoredumpTypeOK
  <2> QED  BY <1>1, <1>3, <2>1 DEF CoredumpTypeOK
<1>6. ASSUME ~overlaps  PROVE Upload' /\ UploadsInOrder'
  <2>1. /\ starter \in {"idle", "valid"}
        /\ upload.ready /\ upload.api /\ upload.ver = starts
        /\ upload.addr \in Nat /\ upload.size_left \in Nat
        /\ upload.addr + upload.size_left = ImageSize
        /\ block.len \in 1..DumpBlock /\ block.len <= upload.size_left
        /\ block.last <=> block.len = upload.size_left
        /\ \A i \in Bodies : EndOf(i) <= SoFar
        /\ SoFar = 0 \/ \E i \in Bodies : EndOf(i) = SoFar
    BY <1>1, <1>6, BlockUnderWay
  <2>2. SoFar = upload.addr  BY <1>1, <2>1 DEF SoFar
  <2>3. SoFar' = upload.addr + block.len  BY <1>1, <1>3 DEF SoFar
  <2>4. /\ uploaded'[n + 1].kind = "body" /\ uploaded'[n + 1].ver = starts
        /\ uploaded'[n + 1].addr = upload.addr /\ uploaded'[n + 1].len = block.len
    BY <1>4, <2>1
  <2>5. /\ n \in Nat /\ DOMAIN uploaded = 1..n /\ DOMAIN uploaded' = 1..n+1
        /\ \A i \in 1..n : uploaded'[i] = uploaded[i]
    BY <1>4, <2>1
  <2> PICK k \in Nat : k = n + 1  BY <2>5
  <2>6. Bodies' = Bodies \cup {n + 1} /\ Ends' = Ends /\ Bodies \subseteq 1..n
    BY <2>4, <2>5 DEF Bodies, Ends
  <2>7. \A i \in Bodies : uploaded'[i] = uploaded[i] /\ EndOf(i)' = EndOf(i)
    BY <2>5, <2>6 DEF EndOf
  <2>8. EndOf(k)' = upload.addr + block.len  BY <2>4 DEF EndOf
  <2>9. upload.addr < upload.addr + block.len /\ upload.addr + block.len <= ImageSize
        /\ (upload.addr + block.len = ImageSize <=> block.len = upload.size_left)
    <3> DEFINE addr == upload.addr
               left == upload.size_left
               len == block.len
    <3>1. /\ addr \in Nat /\ left \in Nat /\ addr + left = ImageSize
          /\ len \in 1..DumpBlock /\ len <= left /\ DumpBlock \in Nat
      BY <2>1, CoredumpNumbers
    <3> HIDE DEF addr, left, len
    <3>2. addr < addr + len /\ addr + len <= ImageSize /\ (addr + len = ImageSize <=> len = left)
      BY <3>1
    <3> QED  BY <3>2 DEF addr, left, len
  <2>10. \A i \in Bodies : EndOf(i) \in Int
    <3>1. \A i \in Bodies : uploaded[i] \in Handed  BY <2>5, <2>6 DEF CoredumpTypeOK
    <3> QED  BY <3>1 DEF EndOf, Handed
  <2>11. \A i \in Bodies : EndOf(i) <= upload.addr /\ EndOf(i) # ImageSize
                           /\ EndOf(i) <= upload.addr + block.len
    <3> SUFFICES ASSUME NEW i \in Bodies
                 PROVE  EndOf(i) <= upload.addr /\ EndOf(i) # ImageSize
                        /\ EndOf(i) <= upload.addr + block.len
      OBVIOUS
    <3> DEFINE e == EndOf(i)
               addr == upload.addr
               end == upload.addr + block.len
    <3>1. e \in Int /\ e <= addr /\ addr \in Int /\ end \in Int /\ addr < end /\ end <= ImageSize
          /\ ImageSize \in Int
      BY <1>2, <2>1, <2>2, <2>9, <2>10, CoredumpNumbers
    <3> HIDE DEF e, addr, end
    <3>2. e <= addr /\ e # ImageSize /\ e <= end  BY <3>1
    <3> QED  BY <3>2 DEF e, addr, end
  <2>12. Ends = {}  BY <1>6, <2>11 DEF UploadsInOrder
  <2>13. Upload'
    <3>1. Starting'  BY <1>1, <2>1 DEF Starting
    <3>2. Described'
      <4>1. Described  BY <1>6 DEF Upload
      <4> QED  BY <1>1, <4>1 DEF Described
    <3>3. Covered'
      <4>1. \A i \in Bodies' : EndOf(i)' <= SoFar'
        <5> SUFFICES ASSUME NEW i \in Bodies' PROVE EndOf(i)' <= SoFar'  OBVIOUS
        <5>1. CASE i \in Bodies  BY <2>3, <2>7, <2>11, <5>1
        <5>2. CASE i = k
          <6>1. EndOf(i)' = SoFar' /\ SoFar' \in Int  BY <1>2, <2>1, <2>3, <2>8, <5>2
          <6> QED  BY <6>1
        <5> QED  BY <2>6, <5>1, <5>2
      <4>2. k \in Bodies' /\ EndOf(k)' = SoFar'  BY <2>3, <2>6, <2>8
      <4> QED  BY <4>1, <4>2 DEF Covered
    <3>4. AtBlock'  BY <1>1, <1>3, <2>1 DEF AtBlock
    <3> QED  BY <3>1, <3>2, <3>3, <3>4 DEF Upload
  <2>14. UploadsInOrder'
    <3>1. \A i \in Bodies' :
            /\ uploaded'[i].len \in 1..DumpBlock /\ EndOf(i)' <= ImageSize
            /\ uploaded'[i].addr = 0 \/ \E j \in Bodies' : j < i /\ EndOf(j)' = uploaded'[i].addr
            /\ \A j \in Bodies' : j < i => EndOf(j)' <= uploaded'[i].addr
      <4> SUFFICES ASSUME NEW i \in Bodies'
                   PROVE  /\ uploaded'[i].len \in 1..DumpBlock /\ EndOf(i)' <= ImageSize
                          /\ \/ uploaded'[i].addr = 0
                             \/ \E j \in Bodies' : j < i /\ EndOf(j)' = uploaded'[i].addr
                          /\ \A j \in Bodies' : j < i => EndOf(j)' <= uploaded'[i].addr
        OBVIOUS
      <4>1. CASE i \in Bodies
        <5>1. ~(n + 1 < i)  BY <2>5, <2>6, <4>1
        <5>2. \A j \in Bodies' : j < i => j \in Bodies  BY <2>6, <5>1
        <5>3. /\ uploaded[i].len \in 1..DumpBlock /\ EndOf(i) <= ImageSize
              /\ uploaded[i].addr = 0 \/ \E j \in Bodies : j < i /\ EndOf(j) = uploaded[i].addr
              /\ \A j \in Bodies : j < i => EndOf(j) <= uploaded[i].addr
          BY <1>6, <4>1 DEF UploadsInOrder
        <5> QED  BY <2>6, <2>7, <4>1, <5>2, <5>3
      <4>2. CASE i = k
        <5>1. \A j \in Bodies : j < i
          <6>1. n \in Nat /\ Bodies \subseteq 1..n /\ i = n + 1  BY <2>5, <2>6, <4>2
          <6>2. \A j \in 1..n : j < n + 1  BY <6>1
          <6> QED  BY <6>1, <6>2
        <5>2. ~(i < i)  BY <2>5, <4>2
        <5>3. \A j \in Bodies' : j < i => EndOf(j)' <= uploaded'[i].addr
          BY <2>4, <2>6, <2>7, <2>11, <4>2, <5>2
        <5>4. uploaded'[i].addr = 0 \/ \E j \in Bodies' : j < i /\ EndOf(j)' = uploaded'[i].addr
          BY <2>1, <2>2, <2>4, <2>6, <2>7, <4>2, <5>1
        <5>5. uploaded'[i].len \in 1..DumpBlock /\ EndOf(i)' <= ImageSize
          BY <2>1, <2>4, <2>8, <2>9, <4>2
        <5> QED  BY <5>3, <5>4, <5>5
      <4> QED  BY <2>6, <4>1, <4>2
    <3>2. \A i \in DOMAIN uploaded' : uploaded'[i].ver = starts'
      <4>1. \A i \in 1..n : uploaded[i].ver = starts  BY <1>6, <2>5 DEF UploadsInOrder
      <4> QED  BY <1>1, <2>4, <2>5, <4>1
    <3>3. ~(block'.at # "end" /\ \E i \in Bodies' : EndOf(i)' = ImageSize)
      <4> SUFFICES ASSUME block'.at # "end", NEW i \in Bodies', EndOf(i)' = ImageSize PROVE FALSE
        OBVIOUS
      <4>1. ~block.last  BY <1>3
      <4>2. EndOf(k)' # ImageSize  BY <2>1, <2>8, <2>9, <4>1
      <4> QED  BY <2>6, <2>7, <2>11, <4>2
    <3>4. Ends' = {}  BY <2>6, <2>12
    <3> QED  BY <3>1, <3>2, <3>3, <3>4 DEF UploadsInOrder
  <2> QED  BY <2>13, <2>14
<1> QED  BY <1>1, <1>5, <1>6 DEF Upload, UploadsInOrder

LEMMA CoredumpSendsEnd == CoredumpInv /\ SendEnd => CoredumpInv'
<1> SUFFICES ASSUME CoredumpInv, SendEnd PROVE CoredumpInv'  OBVIOUS
<1> USE DEF CoredumpInv
<1> DEFINE n == Len(uploaded)
<1>1. block.at = "end" /\ UNCHANGED <<image, upload, starter, starts, overlaps>>
  BY DEF SendEnd
<1>2. block \in Blocks /\ upload \in Uploads  BY DEF CoredumpTypeOK
<1>3. /\ block' \in Blocks /\ block'.len = block.len /\ (block'.last <=> block.last)
      /\ block'.at = "advance"
  BY <1>2 DEF SendEnd, Blocks
<1>4. upload.api =>
        /\ uploaded' \in Seq(Handed) /\ Len(uploaded') = n + 1
        /\ n \in Nat /\ DOMAIN uploaded = 1..n /\ DOMAIN uploaded' = 1..n+1
        /\ \A i \in 1..n : uploaded'[i] = uploaded[i]
        /\ uploaded'[n + 1] =
             [kind |-> "end", ver |-> upload.ver, addr |-> upload.addr, len |-> 0]
  BY SendsLast DEF SendEnd
<1> HIDE DEF n
<1>5. CoredumpTypeOK'
  <2>1. uploaded' \in Seq(Handed)  BY <1>4 DEF SendEnd, CoredumpTypeOK
  <2> QED  BY <1>1, <1>3, <2>1 DEF CoredumpTypeOK
<1>6. ASSUME ~overlaps  PROVE Upload' /\ UploadsInOrder'
  <2>1. /\ starter \in {"idle", "valid"}
        /\ upload.ready /\ upload.api /\ upload.ver = starts
        /\ upload.addr + upload.size_left = ImageSize
        /\ block.len \in 1..DumpBlock /\ block.len <= upload.size_left
        /\ block.len = upload.size_left
        /\ SoFar = 0 \/ \E i \in Bodies : EndOf(i) = SoFar
    BY <1>1, <1>6, BlockUnderWay
  <2>2. SoFar = upload.addr + block.len /\ SoFar' = SoFar  BY <1>1, <1>3 DEF SoFar
  <2>3. \E i \in Bodies : EndOf(i) = ImageSize  BY <2>1, <2>2, CoredumpNumbers
  <2>4. uploaded'[n + 1].kind = "end" /\ uploaded'[n + 1].ver = starts  BY <1>4, <2>1
  <2>5. /\ n \in Nat /\ DOMAIN uploaded = 1..n /\ DOMAIN uploaded' = 1..n+1
        /\ \A i \in 1..n : uploaded'[i] = uploaded[i]
    BY <1>4, <2>1
  <2>6. Bodies' = Bodies /\ Ends' = Ends \cup {n + 1} /\ Bodies \subseteq 1..n
    BY <2>4, <2>5 DEF Bodies, Ends
  <2>7. \A i \in Bodies : uploaded'[i] = uploaded[i] /\ EndOf(i)' = EndOf(i)
    BY <2>5, <2>6 DEF EndOf
  <2>8. Ends = {}  BY <1>1, <1>6 DEF UploadsInOrder
  <2>9. Upload'
    <3>1. Starting /\ Described /\ Covered /\ AtBlock  BY <1>6 DEF Upload
    <3>2. Starting'  BY <1>1, <2>1 DEF Starting
    <3>3. Described' /\ AtBlock'  BY <1>1, <1>3, <3>1 DEF Described, AtBlock
    <3>4. Covered'  BY <1>1, <2>2, <2>6, <2>7, <3>1 DEF Covered
    <3> QED  BY <3>2, <3>3, <3>4 DEF Upload
  <2>10. UploadsInOrder'
    <3>1. \A i \in DOMAIN uploaded' : uploaded'[i].ver = starts'
      <4>1. \A i \in 1..n : uploaded[i].ver = starts  BY <1>6, <2>5 DEF UploadsInOrder
      <4> QED  BY <1>1, <2>4, <2>5, <4>1
    <3>2. Ends' = {n + 1} /\ \A i, j \in Ends' : i = j  BY <2>6, <2>8
    <3>3. block'.at # "end" /\ \E i \in Bodies' : EndOf(i)' = ImageSize
      BY <1>3, <2>3, <2>6, <2>7
    <3>4. \A i \in Bodies' :
            /\ uploaded'[i].len \in 1..DumpBlock /\ EndOf(i)' <= ImageSize
            /\ uploaded'[i].addr = 0 \/ \E j \in Bodies' : j < i /\ EndOf(j)' = uploaded'[i].addr
            /\ \A j \in Bodies' : j < i => EndOf(j)' <= uploaded'[i].addr
      BY <1>6, <2>6, <2>7 DEF UploadsInOrder
    <3> QED  BY <3>1, <3>2, <3>3, <3>4 DEF UploadsInOrder
  <2> QED  BY <2>9, <2>10
<1> QED  BY <1>1, <1>5, <1>6 DEF Upload, UploadsInOrder

LEMMA CoredumpAdvances == CoredumpInv /\ Advance => CoredumpInv'
<1> SUFFICES ASSUME CoredumpInv, Advance PROVE CoredumpInv'  OBVIOUS
<1> USE DEF CoredumpInv
<1>1. /\ block.at = "advance" /\ block' = NoBlock
      /\ upload' = [upload EXCEPT !.addr = @ + block.len, !.size_left = @ - block.len]
      /\ UNCHANGED <<image, starter, uploaded, starts, overlaps>>
  BY DEF Advance
<1>2. upload \in Uploads /\ upload.addr \in Int /\ upload.size_left \in Int /\ block.len \in Int
  BY DEF CoredumpTypeOK, Uploads, Blocks
<1>3. /\ upload' \in Uploads
      /\ upload'.addr = upload.addr + block.len /\ upload'.size_left = upload.size_left - block.len
      /\ upload'.ready = upload.ready /\ upload'.api = upload.api /\ upload'.ver = upload.ver
  <2> DEFINE addr == upload.addr + block.len
             left == upload.size_left - block.len
             moved == [upload EXCEPT !.addr = addr]
  <2>1. addr \in Int /\ left \in Int  BY <1>2
  <2>2. upload' = [moved EXCEPT !.size_left = left]  BY <1>1
  <2> HIDE DEF addr, left
  <2>3. /\ moved \in Uploads /\ moved.addr = addr /\ moved.ready = upload.ready
        /\ moved.api = upload.api /\ moved.ver = upload.ver
    BY <1>2, <2>1 DEF Uploads
  <2> HIDE DEF moved
  <2>4. /\ upload' \in Uploads /\ upload'.addr = addr /\ upload'.size_left = left
        /\ upload'.ready = upload.ready /\ upload'.api = upload.api /\ upload'.ver = upload.ver
    BY <2>1, <2>2, <2>3 DEF Uploads
  <2> QED  BY <2>4 DEF addr, left
<1>4. block' \in Blocks /\ block'.at = "idle"  BY <1>1 DEF NoBlock, Blocks
<1>5. CoredumpTypeOK'  BY <1>1, <1>3, <1>4 DEF CoredumpTypeOK
<1>6. UploadsInOrder'  BY <1>1, <1>4, NothingSent
<1>7. ASSUME ~overlaps  PROVE Upload'
  <2>1. /\ starter \in {"idle", "valid"}
        /\ upload.ready /\ upload.api /\ upload.ver = starts
        /\ upload.addr \in Nat /\ upload.size_left \in Nat
        /\ upload.addr + upload.size_left = ImageSize
        /\ block.len \in 1..DumpBlock /\ block.len <= upload.size_left
        /\ \A i \in Bodies : EndOf(i) <= SoFar
        /\ SoFar = 0 \/ \E i \in Bodies : EndOf(i) = SoFar
    BY <1>1, <1>7, BlockUnderWay
  <2>2. SoFar' = SoFar
    <3>1. SoFar = upload.addr + block.len  BY <1>1 DEF SoFar
    <3>2. SoFar' = upload'.addr + 0  BY <1>4 DEF SoFar
    <3>3. upload'.addr + 0 = upload'.addr  BY <1>2, <1>3
    <3> QED  BY <1>3, <3>1, <3>2, <3>3
  <2>3. Bodies' = Bodies /\ (\A i : EndOf(i)' = EndOf(i))  BY <1>1 DEF Bodies, EndOf
  <2>4. Starting'  BY <1>1, <1>3, <2>1 DEF Starting
  <2>5. Described'
    <3> DEFINE addr == upload.addr
               left == upload.size_left
               len == block.len
    <3>1. /\ addr \in Nat /\ left \in Nat /\ addr + left = ImageSize
          /\ len \in 1..DumpBlock /\ len <= left /\ DumpBlock \in Nat
      BY <2>1, CoredumpNumbers
    <3> HIDE DEF addr, left, len
    <3>2. addr + len >= 0 /\ left - len >= 0 /\ (addr + len) + (left - len) = ImageSize  BY <3>1
    <3>3. /\ upload'.addr >= 0 /\ upload'.size_left >= 0
          /\ upload'.addr + upload'.size_left = ImageSize
      BY <1>3, <3>2 DEF addr, left, len
    <3> QED  BY <1>1, <1>3, <2>1, <3>3 DEF Described
  <2>6. Covered'  BY <2>1, <2>2, <2>3 DEF Covered
  <2>7. AtBlock'  BY <1>4 DEF AtBlock
  <2> QED  BY <2>4, <2>5, <2>6, <2>7 DEF Upload
<1> QED  BY <1>1, <1>5, <1>6, <1>7 DEF Upload

LEMMA CoredumpErases == CoredumpInv /\ Erase => CoredumpInv'
<1> SUFFICES ASSUME CoredumpInv, Erase PROVE CoredumpInv'  OBVIOUS
<1> USE DEF Erase, CoredumpInv
<1>1. CoredumpTypeOK'  BY DEF CoredumpTypeOK
<1>2. UploadsInOrder'  BY NothingSent
<1>3. Bodies' = Bodies /\ (\A i : EndOf(i)' = EndOf(i)) /\ SoFar' = SoFar
  BY DEF Bodies, EndOf, SoFar
<1>4. Upload'  BY <1>3 DEF Upload, Starting, Described, Covered, AtBlock
<1> QED  BY <1>1, <1>2, <1>4

LEMMA CoredumpStep == CoredumpInv /\ CoredumpNext => CoredumpInv'
  BY CoredumpChecks, CoredumpStarts, CoredumpAborts, CoredumpAnnounces, CoredumpEnds,
     CoredumpSendsBody, CoredumpSendsEnd, CoredumpAdvances, CoredumpErases DEF CoredumpNext

LEMMA CoredumpGoesOn == PartsSpec => []CoredumpInv
<1>1. PartsInit => CoredumpInv  BY CoredumpInitial DEF PartsInit
<1>2. CoredumpInv /\ [PartsNext]_partsVars => CoredumpInv'
  <2> SUFFICES ASSUME CoredumpInv, [PartsNext]_partsVars PROVE CoredumpInv'  OBVIOUS
  <2>1. CASE UNCHANGED partsVars  BY <2>1, CoredumpUnchanged DEF partsVars
  <2>2. CASE Works("core dump") /\ CoredumpNext  BY <2>2, CoredumpStep
  <2>3. CASE PartsNext /\ ~(Works("core dump") /\ CoredumpNext)
    <3>1. UNCHANGED coredumpVars  BY <2>3 DEF PartsNext, Works
    <3> QED  BY <3>1, CoredumpUnchanged
  <2> QED  BY <2>1, <2>2, <2>3
<1> QED  BY <1>1, <1>2, PTL DEF PartsSpec, partsVars

(***************************************************************************)
(* The server can put every core dump together that is not started anew    *)
(* while it is uploaded (coredump.c:42-90), for every size of the dump and *)
(* of a block, any number of starts and whoever's messages drive it.       *)
(***************************************************************************)
THEOREM DumpsInOrder == PartsSpec => []UploadsInOrder
<1>1. CoredumpInv => UploadsInOrder  BY DEF CoredumpInv
<1> QED  BY <1>1, CoredumpGoesOn, PTL

-----------------------------------------------------------------------------
(* SLIP                                                                    *)

\* What a call may have decoded at any byte
Decoders ==
  [inside : BOOLEAN, esc : BOOLEAN, decoded : Seq(SlipBytes),
   out : {<<>>} \cup {<<m>> : m \in Seq(SlipBytes)}, failed : BOOLEAN]

LEMMA DecodesByte ==
  ASSUME NEW d \in Decoders, NEW b \in SlipBytes
  PROVE  DecodeByte(d, b) \in Decoders
<1> USE DEF Decoders
<1>1. ASSUME NEW x \in SlipBytes  PROVE Push(d, x) \in Decoders
  <2> DEFINE more == Append(d.decoded, x)
             longer == [d EXCEPT !.decoded = more]
  <2>1. more \in Seq(SlipBytes)  OBVIOUS
  <2>2. Push(d, x) = [longer EXCEPT !.esc = FALSE]  BY DEF Push
  <2> HIDE DEF more
  <2>3. longer \in Decoders  BY <2>1
  <2> HIDE DEF longer
  <2> QED  BY <2>2, <2>3
<1>2. Fail(d) \in Decoders  BY DEF Fail
<1>3. \A x \in BOOLEAN : [d EXCEPT !.inside = x] \in Decoders  OBVIOUS
<1>4. [d EXCEPT !.esc = TRUE] \in Decoders  OBVIOUS
<1>5. [d EXCEPT !.inside = FALSE, !.out = <<d.decoded>>] \in Decoders
  <2> DEFINE over == [d EXCEPT !.inside = FALSE]
  <2>1. over \in Decoders /\ over.decoded = d.decoded  BY <1>3
  <2>2. [d EXCEPT !.inside = FALSE, !.out = <<d.decoded>>] = [over EXCEPT !.out = <<d.decoded>>]
    OBVIOUS
  <2>3. <<d.decoded>> \in {<<m>> : m \in Seq(SlipBytes)}  OBVIOUS
  <2> HIDE DEF over
  <2> QED  BY <2>1, <2>2, <2>3
<1>6. \A x \in DOMAIN Unescape : Unescape[x] \in SlipBytes  BY DEF Unescape, SlipBytes, Special
<1>7. CASE d.failed  BY <1>7 DEF DecodeByte
<1>8. CASE ~d.failed /\ ~d.inside
  <2>1. DecodeByte(d, b) = [d EXCEPT !.inside = (b = "BEGIN")]  BY <1>8 DEF DecodeByte
  <2>2. (b = "BEGIN") \in BOOLEAN  OBVIOUS
  <2> QED  BY <1>3, <2>1, <2>2
<1>9. CASE ~d.failed /\ d.inside
  <2> USE <1>9
  <2>1. CASE b = "BEGIN"
    <3>1. DecodeByte(d, b) = [d EXCEPT !.inside = FALSE]  BY <2>1 DEF DecodeByte, Unescape
    <3> QED  BY <1>3, <3>1
  <2>2. CASE b = "ESC"
    <3>1. DecodeByte(d, b) = [d EXCEPT !.esc = TRUE]  BY <2>2 DEF DecodeByte, Unescape
    <3> QED  BY <1>4, <3>1
  <2>3. CASE b = "END"  BY <1>2, <1>5, <2>3 DEF DecodeByte, Unescape
  <2>4. CASE b \in DOMAIN Unescape
    <3>1. b \notin {"BEGIN", "ESC", "END"}  BY <2>4 DEF Unescape
    <3>2. DecodeByte(d, b) = Push(d, IF d.esc THEN Unescape[b] ELSE b)
      BY <2>4, <3>1 DEF DecodeByte, Unescape
    <3> QED  BY <1>1, <1>6, <2>4, <3>2
  <2>5. CASE b = "other"
    <3>1. b \notin DOMAIN Unescape  BY <2>5 DEF Unescape
    <3> QED  BY <1>1, <1>2, <2>5, <3>1 DEF DecodeByte, Unescape
  <2>6. b \in {"BEGIN", "END", "ESC", "other"} \/ b \in DOMAIN Unescape
    BY DEF SlipBytes, Special
  <2> QED  BY <2>1, <2>2, <2>3, <2>4, <2>5, <2>6
<1> QED  BY <1>7, <1>8, <1>9

LEMMA CallStarts == inside \in BOOLEAN /\ esc \in BOOLEAN => Started \in Decoders
  BY DEF Started, Decoders

\* The decoder goes through a chunk byte by byte.
Reads(g, chunk) ==
  g[0] = Started /\ \A n \in 1..Len(chunk) : g[n] = DecodeByte(g[n - 1], chunk[n])

LEMMA Decodes ==
  ASSUME NEW chunk \in Seq(SlipBytes), Started \in Decoders
  PROVE  /\ \E g \in [0..Len(chunk) -> Decoders] : Reads(g, chunk)
         /\ \A g : Reads(g, chunk) => Decode(chunk) = g[Len(chunk)]
         /\ Decode(chunk) \in Decoders
<1> DEFINE m == Len(chunk)
           step == [p \in (1..m) \X Decoders |-> DecodeByte(p[2], chunk[p[1]])]
           goes == CHOOSE g : g = [n \in 0..m |->
                                     IF n = 0 THEN Started ELSE DecodeByte(g[n - 1], chunk[n])]
<1>1. m \in Nat  OBVIOUS
<1>2. step \in [(1..m) \X Decoders -> Decoders]
  <2>1. \A p \in (1..m) \X Decoders : DecodeByte(p[2], chunk[p[1]]) \in Decoders
    BY DecodesByte
  <2> QED  BY <2>1
<1>3. \A n \in 1..m, d \in Decoders : step[<<n, d>>] = DecodeByte(d, chunk[n])  OBVIOUS
<1>4. Decode(chunk) = goes[m]  BY DEF Decode
<1> HIDE DEF step
<1>5. PICK g \in [0..m -> Decoders] : GoesFrom(g, Started, step, m)
  BY <1>1, <1>2, Recursion
<1>6. Reads(g, chunk)
  <2>1. ASSUME NEW n \in 1..m  PROVE g[n] = DecodeByte(g[n - 1], chunk[n])
    <3>1. g[n - 1] \in Decoders  BY <1>1
    <3> QED  BY <1>3, <1>5, <3>1 DEF GoesFrom
  <2> QED  BY <1>5, <2>1 DEF GoesFrom, Reads
<1>7. ASSUME NEW u, NEW v, Reads(u, chunk), Reads(v, chunk)
      PROVE  \A n \in 0..m : u[n] = v[n]
  <2> DEFINE T == {n \in 0..m : u[n] = v[n]}
  <2>1. 0 \in T  BY <1>1, <1>7 DEF Reads
  <2>2. ASSUME NEW n \in 1..m, n - 1 \in T  PROVE n \in T
    <3>1. n \in 0..m /\ u[n - 1] = v[n - 1]  BY <2>2
    <3> QED  BY <1>7, <3>1 DEF Reads
  <2> HIDE DEF T
  <2>3. \A n \in 0..m : n \in T  BY <1>1, <2>1, <2>2, Induction
  <2> QED  BY <2>3 DEF T
<1>8. Reads(goes, chunk)
  <2> DEFINE Def(u) == [n \in 0..m |->
                          IF n = 0 THEN Started ELSE DecodeByte(u[n - 1], chunk[n])]
  <2>1. g = Def(g)
    <3>1. \A n \in 0..m : g[n] = IF n = 0 THEN Started ELSE DecodeByte(g[n - 1], chunk[n])
      BY <1>1, <1>6 DEF Reads
    <3> QED  BY <3>1
  <2>2. goes = Def(goes)  BY <2>1
  <2> HIDE DEF goes
  <2>3. \A n \in 0..m : goes[n] = IF n = 0 THEN Started ELSE DecodeByte(goes[n - 1], chunk[n])
    BY <2>2
  <2>4. 0 \in 0..m /\ \A n \in 1..m : n \in 0..m /\ n # 0  BY <1>1
  <2> QED  BY <2>3, <2>4 DEF Reads
<1> HIDE DEF goes
<1>9. m \in 0..m  BY <1>1
<1> QED  BY <1>4, <1>5, <1>6, <1>7, <1>8, <1>9

LEMMA DecodesNothing ==
  ASSUME Started \in Decoders PROVE Decode(<<>>) = Started
<1>1. <<>> \in Seq(SlipBytes) /\ Len(<<>>) = 0  OBVIOUS
<1>2. PICK g \in [0..0 -> Decoders] : Reads(g, <<>>)  BY <1>1, Decodes
<1> QED  BY <1>1, <1>2, Decodes DEF Reads

LEMMA DecodesOn ==
  ASSUME NEW s \in Seq(SlipBytes), NEW b \in SlipBytes, Started \in Decoders
  PROVE  Decode(Append(s, b)) = DecodeByte(Decode(s), b)
<1> DEFINE more == Append(s, b)
           n == Len(s)
<1>1. /\ more \in Seq(SlipBytes) /\ Len(more) = n + 1 /\ n \in Nat
      /\ more[n + 1] = b /\ \A k \in 1..n : more[k] = s[k]
  OBVIOUS
<1> HIDE DEF more, n
<1>2. PICK g \in [0..n+1 -> Decoders] : Reads(g, more)  BY <1>1, Decodes
<1>3. \A k \in 1..n+1 : g[k] = DecodeByte(g[k - 1], more[k])  BY <1>1, <1>2 DEF Reads
<1>4. Reads(g, s)
  <2>1. \A k \in 1..n : k \in 1..n+1  BY <1>1
  <2> QED  BY <1>1, <1>2, <1>3, <2>1 DEF Reads, n
<1>5. Decode(s) = g[n]  BY <1>4, Decodes DEF n
<1>6. Decode(more) = g[n + 1]  BY <1>1, <1>2, Decodes
<1>7. n + 1 \in 1..n+1 /\ (n + 1) - 1 = n  BY <1>1
<1> QED  BY <1>1, <1>3, <1>5, <1>6, <1>7 DEF more

\* The frame of a message grows by the message's bytes, encoded.
Frames(f, data) ==
  f[0] = <<"BEGIN">> /\ \A n \in 1..Len(data) : f[n] = f[n - 1] \o EncodeByte(data[n])

LEMMA EncodesByte == \A b \in SlipBytes : EncodeByte(b) \in Seq(SlipBytes)
<1> SUFFICES ASSUME NEW b \in SlipBytes PROVE EncodeByte(b) \in Seq(SlipBytes)  OBVIOUS
<1>1. CASE b \in Special
  <2>1. Escape[b] \in SlipBytes /\ "ESC" \in SlipBytes
    BY <1>1 DEF Escape, Special, SlipBytes, Unescape
  <2>2. EncodeByte(b) = <<"ESC", Escape[b]>>  BY <1>1 DEF EncodeByte
  <2> QED  BY <2>1, <2>2
<1>2. CASE b \notin Special  BY <1>2 DEF EncodeByte
<1> QED  BY <1>1, <1>2

LEMMA FrameGrows ==
  ASSUME NEW data \in Seq(SlipBytes)
  PROVE  \E f \in [0..Len(data) -> Seq(SlipBytes)] :
           Frames(f, data) /\ Frame(data) = Append(f[Len(data)], "END")
<1> DEFINE m == Len(data)
           S == Seq(SlipBytes)
           first == <<"BEGIN">>
           Grown(s, n) == s \o EncodeByte(data[n])
           step == [p \in (1..m) \X S |-> Grown(p[2], p[1])]
           Def(u) == [n \in 0..m |-> IF n = 0 THEN first ELSE Grown(u[n - 1], n)]
           begun == CHOOSE f : f = Def(f)
<1>1. m \in Nat /\ first \in S  BY DEF SlipBytes, Special
<1>2. ASSUME NEW s \in S, NEW n \in 1..m  PROVE Grown(s, n) \in S
  <2>1. data[n] \in SlipBytes  OBVIOUS
  <2> QED  BY <2>1, EncodesByte
<1>3. Frame(data) = begun[m] \o <<"END">>  BY DEF Frame
<1>4. ASSUME NEW f, f[0] = first, \A n \in 1..m : f[n] = Grown(f[n - 1], n)
      PROVE  Frames(f, data)
  BY <1>4 DEF Frames
<1> HIDE DEF Grown, S, first, m
<1>5. step \in [(1..m) \X S -> S]  BY <1>2
<1>6. \A n \in 1..m, s \in S : step[<<n, s>>] = Grown(s, n)  OBVIOUS
<1> HIDE DEF step
<1>7. PICK g \in [0..m -> S] : GoesFrom(g, first, step, m)  BY <1>1, <1>5, Recursion
<1>8. g = Def(g)
  <2>1. ASSUME NEW n \in 1..m  PROVE g[n] = Grown(g[n - 1], n)
    <3>1. g[n - 1] \in S  BY <1>1
    <3> QED  BY <1>6, <1>7, <3>1 DEF GoesFrom
  <2>2. \A n \in 0..m : g[n] = IF n = 0 THEN first ELSE Grown(g[n - 1], n)
    BY <1>1, <1>7, <2>1 DEF GoesFrom
  <2> QED  BY <2>2
<1>9. begun = Def(begun)  BY <1>8
<1> HIDE DEF begun
<1>10. begun[0] = first /\ \A n \in 1..m : begun[n] = Grown(begun[n - 1], n)
  <2>1. \A n \in 0..m : begun[n] = IF n = 0 THEN first ELSE Grown(begun[n - 1], n)
    BY <1>9
  <2>2. 0 \in 0..m /\ \A n \in 1..m : n \in 0..m /\ n # 0  BY <1>1
  <2> QED  BY <2>1, <2>2
<1>11. begun \in [0..m -> S]
  <2> DEFINE T == {n \in 0..m : begun[n] \in S}
  <2>1. 0 \in T  BY <1>1, <1>10
  <2>2. ASSUME NEW n \in 1..m, n - 1 \in T  PROVE n \in T
    <3>1. begun[n - 1] \in S /\ n \in 0..m  BY <2>2
    <3> QED  BY <1>2, <1>10, <3>1
  <2> HIDE DEF T
  <2>3. \A n \in 0..m : n \in T  BY <1>1, <2>1, <2>2, Induction
  <2>4. \A n \in 0..m : begun[n] \in S  BY <2>3 DEF T
  <2>5. begun = [n \in 0..m |-> begun[n]]  BY <1>9
  <2> QED  BY <2>4, <2>5
<1>12. Frame(data) = Append(begun[m], "END")
  <2>1. begun[m] \in Seq(SlipBytes)  BY <1>1, <1>11 DEF S
  <2> QED  BY <1>3, <2>1
<1> QED  BY <1>4, <1>10, <1>11, <1>12 DEF m, S

\* What the decoder, that was c before, knows after n bytes of a message's frame:
\* they are gathered as they were, if it was outside of packets and escape sequences.
FrameRead(c, d, data, n) ==
  /\ d.out = c.out
  /\ c.inside => ~d.inside /\ ~d.failed
  /\ ~c.inside /\ ~c.esc =>
       d.inside /\ ~d.esc /\ ~d.failed /\ d.decoded = c.decoded \o SubSeq(data, 1, n)
  /\ ~c.inside /\ c.esc => /\ d.failed => ~d.inside /\ ~d.esc
                           /\ ~d.failed => d.inside /\ (n > 0 => ~d.esc)

LEMMA FrameBegins ==
  ASSUME NEW data, NEW c \in Decoders, ~c.failed
  PROVE  FrameRead(c, DecodeByte(c, "BEGIN"), data, 0)
<1> DEFINE d == DecodeByte(c, "BEGIN")
<1>1. c.decoded \in Seq(SlipBytes) /\ SubSeq(data, 1, 0) = <<>>  BY DEF Decoders
<1>2. c.decoded \o <<>> = c.decoded  BY <1>1
<1>3. CASE c.inside
  <2>1. d = [c EXCEPT !.inside = FALSE]  BY <1>3 DEF DecodeByte, Unescape
  <2>2. d.out = c.out /\ ~d.inside /\ ~d.failed  BY <2>1 DEF Decoders
  <2> QED  BY <1>3, <2>2 DEF FrameRead
<1>4. CASE ~c.inside
  <2>1. d = [c EXCEPT !.inside = TRUE]  BY <1>4 DEF DecodeByte
  <2>2. /\ d.out = c.out /\ d.inside /\ ~d.failed /\ (d.esc <=> c.esc)
        /\ d.decoded = c.decoded
    BY <2>1 DEF Decoders
  <2>3. ~(0 > 0)  OBVIOUS
  <2>4. d.decoded = c.decoded \o SubSeq(data, 1, 0)  BY <1>1, <1>2, <2>2
  <2> HIDE DEF d
  <2>5. FrameRead(c, d, data, 0)  BY <1>4, <2>2, <2>3, <2>4, Zenon DEF FrameRead
  <2> QED  BY <2>5 DEF d
<1> QED  BY <1>3, <1>4

\* Outside of a packet, and after a failure, nothing but a BEGIN matters.
LEMMA ByteOutside ==
  ASSUME NEW d \in Decoders, NEW b \in SlipBytes, b # "BEGIN", d.failed \/ ~d.inside
  PROVE  DecodeByte(d, b) = d
<1>1. CASE d.failed  BY <1>1 DEF DecodeByte
<1>2. CASE ~d.failed /\ ~d.inside
  <2>1. DecodeByte(d, b) = [d EXCEPT !.inside = FALSE]  BY <1>2 DEF DecodeByte
  <2>2. d.inside = FALSE  BY <1>2 DEF Decoders
  <2> QED  BY <2>1, <2>2 DEF Decoders
<1> QED  BY <1>1, <1>2

\* In a packet, an encoded byte comes out as it was, or ends the call.
LEMMA ByteInside ==
  ASSUME NEW d \in Decoders, NEW b, b \notin Special, b \in SlipBytes, ~d.failed, d.inside
  PROVE  LET e == DecodeByte(d, b) IN
         /\ e.out = d.out
         /\ e.failed => ~e.inside /\ ~e.esc
         /\ ~e.failed => e.inside /\ ~e.esc
         /\ ~d.esc => ~e.failed /\ e.decoded = Append(d.decoded, b)
         /\ d.esc /\ b \in DOMAIN Unescape =>
              ~e.failed /\ e.decoded = Append(d.decoded, Unescape[b])
<1> DEFINE e == DecodeByte(d, b)
<1>1. ASSUME NEW x
      PROVE  /\ Push(d, x).out = d.out /\ Push(d, x).failed = d.failed
             /\ Push(d, x).inside = d.inside /\ Push(d, x).esc = FALSE
             /\ Push(d, x).decoded = Append(d.decoded, x)
  BY DEF Push, Decoders
<1>2. Fail(d).out = d.out /\ Fail(d).failed /\ ~Fail(d).inside /\ ~Fail(d).esc
  BY DEF Fail, Decoders
<1>3. CASE b \in DOMAIN Unescape
  <2>1. e = Push(d, IF d.esc THEN Unescape[b] ELSE b)
    BY <1>3 DEF DecodeByte, Unescape, Special
  <2> HIDE DEF e
  <2>2. CASE d.esc  BY <1>1, <1>3, <2>1, <2>2 DEF e
  <2>3. CASE ~d.esc  BY <1>1, <1>3, <2>1, <2>3 DEF e
  <2> QED  BY <2>2, <2>3
<1>4. CASE b \notin DOMAIN Unescape
  <2>1. b = "other"  BY <1>4 DEF SlipBytes
  <2>2. e = IF d.esc THEN Fail(d) ELSE Push(d, b)
    BY <2>1 DEF DecodeByte, Unescape, Special
  <2> HIDE DEF e
  <2>3. CASE d.esc  BY <1>2, <1>4, <2>2, <2>3 DEF e
  <2>4. CASE ~d.esc  BY <1>1, <1>4, <2>2, <2>4 DEF e
  <2> QED  BY <2>3, <2>4
<1> HIDE DEF e
<1> QED  BY <1>3, <1>4 DEF e

LEMMA EscInside ==
  ASSUME NEW d \in Decoders, ~d.failed, d.inside
  PROVE  LET e == DecodeByte(d, "ESC") IN
         e \in Decoders /\ e.out = d.out /\ ~e.failed /\ e.inside /\ e.esc /\ e.decoded = d.decoded
<1>1. DecodeByte(d, "ESC") = [d EXCEPT !.esc = TRUE]  BY DEF DecodeByte, Unescape
<1> QED  BY <1>1 DEF Decoders

LEMMA JoinedOneMore ==
  ASSUME NEW a \in Seq(SlipBytes), NEW k \in Seq(SlipBytes), NEW b \in SlipBytes
  PROVE  a \o Append(k, b) = Append(a \o k, b) /\ a \o k \in Seq(SlipBytes)
OBVIOUS

\* Nothing is read after a failure.
LEMMA NothingAfterFailure ==
  ASSUME NEW s \in Seq(SlipBytes), NEW t \in Seq(SlipBytes), Started \in Decoders, Decode(s).failed
  PROVE  Decode(s \o t) = Decode(s)
<1> DEFINE m == Len(t)
           Upto(n) == s \o SubSeq(t, 1, n)
           T == {n \in 0..m : Decode(Upto(n)) = Decode(s)}
<1>1. m \in Nat  OBVIOUS
<1>2. 0 \in T
  <2>1. s \o SubSeq(t, 1, 0) = s /\ 0 \in 0..m  BY <1>1
  <2> QED  BY <2>1
<1>3. ASSUME NEW n \in 1..m, n - 1 \in T  PROVE n \in T
  <2> DEFINE k == SubSeq(t, 1, n - 1)
  <2>1. k \in Seq(SlipBytes) /\ t[n] \in SlipBytes /\ SubSeq(t, 1, n) = Append(k, t[n])
    BY <1>1
  <2> HIDE DEF k
  <2>2. Upto(n) = Append(s \o k, t[n]) /\ s \o k \in Seq(SlipBytes)
    <3>1. s \o Append(k, t[n]) = Append(s \o k, t[n]) /\ s \o k \in Seq(SlipBytes)
      BY <2>1, JoinedOneMore
    <3> QED  BY <2>1, <3>1, Zenon
  <2>3. Decode(s \o k) = Decode(s)  BY <1>3 DEF k
  <2>4. Decode(Upto(n)) = DecodeByte(Decode(s), t[n])  BY <2>1, <2>2, <2>3, DecodesOn
  <2>5. DecodeByte(Decode(s), t[n]) = Decode(s)  BY DEF DecodeByte
  <2> QED  BY <2>4, <2>5
<1> HIDE DEF T
<1>4. m \in T
  <2>1. \A n \in 0..m : n \in T  BY <1>1, <1>2, <1>3, Induction
  <2> QED  BY <1>1, <2>1
<1>5. SubSeq(t, 1, m) = t  OBVIOUS
<1> QED  BY <1>4, <1>5 DEF T

\* An encoded byte, one that is escaped or not, is read as it was.
LEMMA EncodedByteRead ==
  ASSUME NEW s \in Seq(SlipBytes), NEW b \in SlipBytes,
         Started \in Decoders, Decode(s).failed \/ ~Decode(s).inside
  PROVE  Decode(s \o EncodeByte(b)) = Decode(s)
<1> DEFINE d == Decode(s)
<1>1. d \in Decoders  BY Decodes
<1>2. CASE b \in Special
  <2> DEFINE x == Escape[b]
  <2>1. x \in SlipBytes /\ x # "BEGIN" /\ "ESC" \in SlipBytes
    BY <1>2 DEF Escape, Special, SlipBytes, Unescape
  <2>2. EncodeByte(b) = <<"ESC", x>>  BY <1>2 DEF EncodeByte
  <2> HIDE DEF x
  <2>3. s \o EncodeByte(b) = Append(Append(s, "ESC"), x)  BY <2>1, <2>2
  <2>4. Decode(Append(s, "ESC")) = d  BY <1>1, <2>1, DecodesOn, ByteOutside
  <2>5. Append(s, "ESC") \in Seq(SlipBytes)  BY <2>1
  <2>6. Decode(Append(Append(s, "ESC"), x)) = DecodeByte(Decode(Append(s, "ESC")), x)
    BY <2>1, <2>5, DecodesOn
  <2> QED  BY <1>1, <2>1, <2>3, <2>4, <2>6, ByteOutside
<1>3. CASE b \notin Special
  <2>1. s \o EncodeByte(b) = Append(s, b)  BY <1>3 DEF EncodeByte
  <2>2. b # "BEGIN"  BY <1>3 DEF Special
  <2> QED  BY <1>1, <2>1, <2>2, DecodesOn, ByteOutside
<1> QED  BY <1>2, <1>3

LEMMA EncodedByteGathered ==
  ASSUME NEW s \in Seq(SlipBytes), NEW b \in SlipBytes,
         Started \in Decoders, ~Decode(s).failed, Decode(s).inside
  PROVE  LET e == Decode(s \o EncodeByte(b)) IN
         /\ e.out = Decode(s).out
         /\ e.failed => ~e.inside /\ ~e.esc
         /\ ~e.failed => e.inside /\ ~e.esc
         /\ ~Decode(s).esc => ~e.failed /\ e.decoded = Append(Decode(s).decoded, b)
<1> DEFINE d == Decode(s)
<1>1. d \in Decoders  BY Decodes
<1>2. CASE b \in Special
  <2> DEFINE x == Escape[b]
             e == DecodeByte(d, "ESC")
             f == DecodeByte(e, x)
  <2>1. x \in DOMAIN Unescape /\ Unescape[x] = b  BY <1>2 DEF Escape, Special, Unescape
  <2>2. x \in SlipBytes /\ x \notin Special /\ "ESC" \in SlipBytes
    BY <1>2 DEF Escape, Special, SlipBytes, Unescape
  <2>3. EncodeByte(b) = <<"ESC", x>>  BY <1>2 DEF EncodeByte
  <2> HIDE DEF x
  <2>4. s \o EncodeByte(b) = Append(Append(s, "ESC"), x)  BY <2>2, <2>3
  <2>5. Append(s, "ESC") \in Seq(SlipBytes)  BY <2>2
  <2>6. Decode(s \o EncodeByte(b)) = f
    <3>1. Decode(Append(s, "ESC")) = e  BY <2>2, DecodesOn
    <3> QED  BY <2>2, <2>4, <2>5, <3>1, DecodesOn
  <2>7. /\ e \in Decoders /\ e.out = d.out /\ ~e.failed /\ e.inside /\ e.esc
        /\ e.decoded = d.decoded
    BY <1>1, EscInside
  <2> HIDE DEF e, d
  <2>8. /\ f.out = e.out /\ (f.failed => ~f.inside /\ ~f.esc) /\ (~f.failed => f.inside /\ ~f.esc)
        /\ ~f.failed /\ f.decoded = Append(e.decoded, Unescape[x])
    BY <2>1, <2>2, <2>7, ByteInside
  <2> HIDE DEF f
  <2> QED  BY <2>1, <2>6, <2>7, <2>8 DEF d
<1>3. CASE b \notin Special
  <2>1. s \o EncodeByte(b) = Append(s, b)  BY <1>3 DEF EncodeByte
  <2>2. Decode(s \o EncodeByte(b)) = DecodeByte(d, b)  BY <2>1, DecodesOn
  <2> HIDE DEF d
  <2>3. ~d.failed /\ d.inside  BY DEF d
  <2> QED  BY <1>1, <1>3, <2>2, <2>3, ByteInside DEF d
<1> QED  BY <1>2, <1>3

LEMMA FrameGathered ==
  ASSUME NEW data \in Seq(SlipBytes), NEW f \in [0..Len(data) -> Seq(SlipBytes)],
         Frames(f, data), NEW s \in Seq(SlipBytes), Started \in Decoders, ~Decode(s).failed
  PROVE  \A n \in 0..Len(data) : FrameRead(Decode(s), Decode(s \o f[n]), data, n)
<1> DEFINE m == Len(data)
           c == Decode(s)
           T == {n \in 0..m : FrameRead(c, Decode(s \o f[n]), data, n)}
<1>1. m \in Nat  OBVIOUS
<1>2. c \in Decoders /\ ~c.failed  BY Decodes
<1>3. 0 \in T
  <2>1. f[0] = <<"BEGIN">> /\ "BEGIN" \in SlipBytes  BY DEF Frames, SlipBytes, Special
  <2>2. s \o f[0] = Append(s, "BEGIN")  BY <2>1
  <2>3. Decode(s \o f[0]) = DecodeByte(c, "BEGIN")  BY <2>1, <2>2, DecodesOn
  <2>4. FrameRead(c, Decode(s \o f[0]), data, 0)  BY <1>2, <2>3, FrameBegins
  <2>5. 0 \in 0..m  BY <1>1
  <2> QED  BY <2>4, <2>5
<1>4. ASSUME NEW n \in 1..m, n - 1 \in T  PROVE n \in T
  <2> DEFINE t == s \o f[n - 1]
             d == Decode(t)
             e == Decode(s \o f[n])
  <2>1. FrameRead(c, d, data, n - 1) /\ n - 1 \in 0..m /\ n \in 0..m  BY <1>1, <1>4
  <2>2. /\ t \in Seq(SlipBytes) /\ data[n] \in SlipBytes
        /\ s \o f[n] = t \o EncodeByte(data[n])
    <3>1. n \in 1..Len(data) /\ n - 1 \in 0..Len(data)  BY <2>1
    <3>2. data[n] \in SlipBytes /\ f[n - 1] \in Seq(SlipBytes)  BY <3>1
    <3>3. f[n] = f[n - 1] \o EncodeByte(data[n])  BY <3>1 DEF Frames
    <3>4. EncodeByte(data[n]) \in Seq(SlipBytes)  BY <3>2, EncodesByte
    <3> DEFINE a == f[n - 1]
               b == EncodeByte(data[n])
    <3>5. a \in Seq(SlipBytes) /\ b \in Seq(SlipBytes)  BY <3>2, <3>4
    <3> HIDE DEF a, b
    <3>6. s \o (a \o b) = (s \o a) \o b /\ s \o a \in Seq(SlipBytes)  BY <3>5
    <3> QED  BY <3>2, <3>3, <3>6 DEF a, b
  <2> HIDE DEF t, c
  <2>3. CASE d.failed \/ ~d.inside
    <3>1. e = d  BY <2>2, <2>3, EncodedByteRead
    <3> HIDE DEF d, e
    <3>2. FrameRead(c, e, data, n)  BY <2>1, <2>3, <3>1, Zenon DEF FrameRead
    <3> QED  BY <2>1, <3>2 DEF e
  <2>4. CASE ~d.failed /\ d.inside
    <3>1. /\ e.out = d.out
          /\ e.failed => ~e.inside /\ ~e.esc
          /\ ~e.failed => e.inside /\ ~e.esc
          /\ ~d.esc => ~e.failed /\ e.decoded = Append(d.decoded, data[n])
      BY <2>2, <2>4, EncodedByteGathered
    <3>2. c.decoded \o SubSeq(data, 1, n) = Append(c.decoded \o SubSeq(data, 1, n - 1), data[n])
      <4>1. c.decoded \in Seq(SlipBytes)  BY <1>2 DEF Decoders
      <4> DEFINE k == SubSeq(data, 1, n - 1)
      <4>2. SubSeq(data, 1, n) = Append(k, data[n]) /\ k \in Seq(SlipBytes)  BY <1>1, <2>2
      <4> HIDE DEF k
      <4>3. c.decoded \o Append(k, data[n]) = Append(c.decoded \o k, data[n])
        BY <2>2, <4>1, <4>2, JoinedOneMore
      <4> QED  BY <4>2, <4>3 DEF k
    <3> HIDE DEF d, e
    <3>3. FrameRead(c, e, data, n)  BY <2>1, <2>4, <3>1, <3>2, Zenon DEF FrameRead
    <3> QED  BY <2>1, <3>3 DEF e
  <2> QED  BY <2>3, <2>4
<1> HIDE DEF T
<1>5. \A n \in 0..m : n \in T  BY <1>1, <1>3, <1>4, Induction
<1> QED  BY <1>5 DEF T

\* Whatever was read before, after a whole frame the decoder is outside of
\* packets, and of escape sequences unless it skipped the frame; and it has the
\* frame's message, if it was outside of both before.
LEMMA FrameDecoded ==
  ASSUME NEW data \in Seq(SlipBytes), Len(data) > 0,
         NEW s \in Seq(SlipBytes), Started \in Decoders, ~Decode(s).failed
  PROVE  LET c == Decode(s)
             e == Decode(s \o Frame(data))
         IN /\ e \in Decoders /\ ~e.inside
            /\ e.failed \/ ~c.inside => ~e.esc
            /\ e.failed \/ c.inside \/ e.out # <<>>
            /\ e.out = c.out \/ ~e.esc
            /\ ~c.inside /\ ~c.esc =>
                 ~e.failed /\ e.out = <<c.decoded \o data>> /\ e.decoded = c.decoded \o data
<1>1. PICK f \in [0..Len(data) -> Seq(SlipBytes)] :
        Frames(f, data) /\ Frame(data) = Append(f[Len(data)], "END")
  BY FrameGrows
<1> DEFINE c == Decode(s)
           t == s \o f[Len(data)]
           d == Decode(t)
           e == Decode(s \o Frame(data))
<1>2. Len(data) \in 0..Len(data) /\ "END" \in SlipBytes  BY DEF SlipBytes, Special
<1>3. t \in Seq(SlipBytes) /\ s \o Frame(data) = Append(t, "END")
  <2> DEFINE a == f[Len(data)]
  <2>1. a \in Seq(SlipBytes)  BY <1>2
  <2> HIDE DEF a
  <2>2. s \o a \in Seq(SlipBytes) /\ s \o Append(a, "END") = Append(s \o a, "END")
    BY <1>2, <2>1
  <2> QED  BY <1>1, <2>2 DEF a
<1>4. FrameRead(c, d, data, Len(data))  BY <1>1, <1>2, FrameGathered
<1>5. e = DecodeByte(d, "END") /\ d \in Decoders
  BY <1>2, <1>3, DecodesOn, Decodes
<1>6. e \in Decoders  BY <1>2, <1>5, DecodesByte
<1>7. SubSeq(data, 1, Len(data)) = data  OBVIOUS
<1> HIDE DEF c, d, e, t
<1>8. CASE d.failed \/ ~d.inside
  <2>1. e = d  BY <1>2, <1>5, <1>8, ByteOutside
  <2>2. /\ ~e.inside /\ e.out = c.out /\ (e.failed \/ c.inside)
        /\ (e.failed => ~c.inside /\ ~e.esc) /\ (c.inside \/ c.esc)
    BY <1>4, <1>8, <2>1, Zenon DEF FrameRead
  <2>3. ~c.inside => ~e.esc  BY <2>2
  <2> QED  BY <1>6, <2>2, <2>3 DEF c, e
<1>9. CASE ~d.failed /\ d.inside
  <2>1. ~d.esc /\ ~c.inside /\ (~c.esc => d.decoded = c.decoded \o data)
    BY <1>4, <1>7, <1>9, Zenon DEF FrameRead
  <2>2. e = [d EXCEPT !.inside = FALSE, !.out = <<d.decoded>>]
    BY <1>5, <1>9, <2>1 DEF DecodeByte, Unescape
  <2>3. /\ ~e.inside /\ e.out = <<d.decoded>> /\ e.failed = d.failed /\ e.esc = d.esc
        /\ e.decoded = d.decoded
    BY <1>5, <2>2 DEF Decoders
  <2>4. e.out # <<>> /\ ~e.failed /\ ~e.esc  BY <1>9, <2>1, <2>3
  <2> QED  BY <1>6, <2>1, <2>3, <2>4 DEF c, e
<1> QED  BY <1>8, <1>9

\* A frame that was missed left the decoder outside of packets.
SlipInv ==
  /\ inside \in BOOLEAN /\ esc \in BOOLEAN /\ rest \in Seq(SlipBytes) /\ misses \in Nat
  /\ misses > 0 => ~inside /\ ~esc

LEMMA MessagesAreSequences ==
  \A data \in Messages : data \in Seq(SlipBytes) /\ Len(data) > 0
<1> SUFFICES ASSUME NEW data \in Messages PROVE data \in Seq(SlipBytes) /\ Len(data) > 0
  OBVIOUS
<1>1. PICK n \in 1..MaxData : data \in [1..n -> SlipBytes]  BY DEF Messages
<1>2. n \in Nat /\ n > 0  BY SlipAssumption
<1>3. data \in Seq(SlipBytes) /\ Len(data) = n  BY <1>1, <1>2
<1> QED  BY <1>2, <1>3

LEMMA FramesAreSequences ==
  ASSUME NEW data \in Messages
  PROVE  Frame(data) \in Seq(SlipBytes)
<1>1. data \in Seq(SlipBytes)  BY MessagesAreSequences
<1>2. PICK f \in [0..Len(data) -> Seq(SlipBytes)] : Frame(data) = Append(f[Len(data)], "END")
  BY <1>1, FrameGrows
<1>3. Len(data) \in 0..Len(data) /\ "END" \in SlipBytes  BY <1>1 DEF SlipBytes, Special
<1> QED  BY <1>2, <1>3

LEMMA ChunkReceived ==
  ASSUME NEW chunk \in Seq(SlipBytes), inside \in BOOLEAN, esc \in BOOLEAN, ReceiveChunk(chunk)
  PROVE  inside' \in BOOLEAN /\ esc' \in BOOLEAN
<1> DEFINE d == Decode(chunk)
<1>1. d \in Decoders  BY CallStarts, Decodes
<1>2. \/ inside' = FALSE /\ esc' = FALSE
      \/ inside' = d.inside /\ esc' = d.esc
  BY DEF ReceiveChunk
<1> HIDE DEF d
<1> QED  BY <1>1, <1>2 DEF Decoders

\* What whole frames do to the decoder
LeftPackets(d) == ~d.inside /\ (d.out # <<>> \/ d.failed => ~d.esc)

LEMMA FrameAlone ==
  ASSUME NEW data \in Seq(SlipBytes), Len(data) > 0, inside \in BOOLEAN, esc \in BOOLEAN
  PROVE  LET e == Decode(Frame(data)) IN
         /\ e \in Decoders /\ LeftPackets(e)
         /\ ~inside /\ ~esc => ~e.failed /\ e.out = <<data>>
<1>1. Started \in Decoders  BY CallStarts
<1>2. /\ Started.inside = inside /\ Started.esc = esc /\ ~Started.failed
      /\ Started.out = <<>> /\ Started.decoded = <<>>
  BY DEF Started
<1>3. Decode(<<>>) = Started /\ <<>> \in Seq(SlipBytes)  BY <1>1, DecodesNothing
<1> DEFINE fr == Frame(data)
           e == Decode(fr)
<1>4. fr \in Seq(SlipBytes)
  <2>1. PICK f \in [0..Len(data) -> Seq(SlipBytes)] : fr = Append(f[Len(data)], "END")
    BY FrameGrows
  <2>2. Len(data) \in 0..Len(data) /\ "END" \in SlipBytes  BY DEF SlipBytes, Special
  <2> QED  BY <2>1, <2>2
<1>5. <<>> \o fr = fr /\ <<>> \o data = data
  <2> HIDE DEF fr
  <2> QED  BY <1>4
<1>6. /\ e \in Decoders /\ ~e.inside
      /\ e.failed \/ ~inside => ~e.esc
      /\ e.out = <<>> \/ ~e.esc
      /\ ~inside /\ ~esc => ~e.failed /\ e.out = <<data>>
  BY <1>1, <1>2, <1>3, <1>5, FrameDecoded
<1> QED  BY <1>6 DEF LeftPackets

\* ... two in one chunk
LEMMA FramesTogether ==
  ASSUME NEW data \in Messages, inside \in BOOLEAN, esc \in BOOLEAN
  PROVE  LET e == Decode(Frame(data) \o Frame(data)) IN e \in Decoders /\ LeftPackets(e)
<1> DEFINE fr == Frame(data)
           c == Decode(fr)
           e == Decode(fr \o fr)
<1>1. /\ data \in Seq(SlipBytes) /\ Len(data) > 0 /\ fr \in Seq(SlipBytes)
      /\ Started \in Decoders
  BY MessagesAreSequences, FramesAreSequences, CallStarts
<1>2. c \in Decoders /\ LeftPackets(c)  BY <1>1, FrameAlone
<1>3. CASE c.failed
  <2>1. e = c  BY <1>1, <1>3, NothingAfterFailure
  <2> QED  BY <1>2, <2>1
<1>4. CASE ~c.failed
  <2>1. /\ e \in Decoders /\ ~e.inside
        /\ e.failed \/ ~c.inside => ~e.esc
    BY <1>1, <1>4, FrameDecoded
  <2>2. ~c.inside  BY <1>2 DEF LeftPackets
  <2> QED  BY <2>1, <2>2 DEF LeftPackets
<1> QED  BY <1>3, <1>4

\* What a whole frame does to the decoder, and to the count of misses
LEMMA FrameReceived ==
  ASSUME SlipInv, NEW data \in Messages, ReceiveFrame(data)
  PROVE  /\ inside' = FALSE /\ esc' = FALSE
         /\ misses' = 0 \/ (misses' = misses + 1 /\ (inside \/ esc))
<1> DEFINE e == Decode(Frame(data))
<1>1. inside \in BOOLEAN /\ esc \in BOOLEAN /\ data \in Seq(SlipBytes) /\ Len(data) > 0
  BY MessagesAreSequences DEF SlipInv
<1>2. /\ e \in Decoders /\ ~e.inside
      /\ e.out # <<>> \/ e.failed => ~e.esc
      /\ ~inside /\ ~esc => ~e.failed /\ e.out = <<data>>
  BY <1>1, FrameAlone DEF LeftPackets
<1>3. /\ IF ~e.failed /\ ~e.inside /\ e.out = <<>>
         THEN inside' = FALSE /\ esc' = FALSE /\ result' = <<>>
         ELSE /\ inside' = e.inside /\ esc' = e.esc
              /\ result' = IF ~e.failed /\ ~e.inside THEN e.out ELSE <<>>
      /\ misses' = IF result' = <<data>> THEN 0 ELSE misses + 1
  BY DEF ReceiveFrame, ReceiveChunk, Succeeds
<1> HIDE DEF e
<1>4. e.inside = FALSE /\ e.esc \in BOOLEAN  BY <1>2 DEF Decoders
<1>5. inside' = FALSE /\ esc' = FALSE  BY <1>2, <1>3, <1>4
<1>6. ~inside /\ ~esc => result' = <<data>>
  <2>1. <<data>> # <<>>  OBVIOUS
  <2> QED  BY <1>2, <1>3, <2>1
<1>7. misses' = 0 \/ (misses' = misses + 1 /\ (inside \/ esc))
  BY <1>3, <1>6
<1> QED  BY <1>5, <1>7

LEMMA TwoReceived ==
  ASSUME SlipInv, NEW data \in Messages, ReceiveTwo(data)
  PROVE  inside' = FALSE /\ esc' = FALSE
<1> DEFINE e == Decode(Frame(data) \o Frame(data))
<1>1. e \in Decoders /\ LeftPackets(e)  BY FramesTogether DEF SlipInv
<1>2. IF ~e.failed /\ ~e.inside /\ e.out = <<>>
      THEN inside' = FALSE /\ esc' = FALSE
      ELSE inside' = e.inside /\ esc' = e.esc
  BY DEF ReceiveTwo, ReceiveChunk, Succeeds
<1> HIDE DEF e
<1>3. e.inside = FALSE /\ (e.out # <<>> \/ e.failed => e.esc = FALSE)
  BY <1>1 DEF LeftPackets, Decoders
<1> QED  BY <1>2, <1>3

LEMMA SlipInitial == SlipInit => SlipInv
<1> SUFFICES ASSUME SlipInit PROVE SlipInv  OBVIOUS
<1>1. <<>> \in Seq(SlipBytes) /\ 0 \in Nat /\ ~(0 > 0)  OBVIOUS
<1>2. rest = <<>> /\ misses = 0 /\ inside \in BOOLEAN /\ esc \in BOOLEAN
  BY DEF SlipInit
<1> QED  BY <1>1, <1>2 DEF SlipInv

\* What the property says of a step
SlipStepOK == misses' > misses => frames' = 2 \/ (misses = 0 /\ (inside \/ esc))

LEMMA NoMoreMisses == SlipInv /\ misses' \in {0, misses} => SlipStepOK
  BY DEF SlipInv, SlipStepOK

LEMMA SlipStep == SlipInv /\ SlipNext => SlipInv' /\ SlipStepOK
<1> SUFFICES ASSUME SlipInv, SlipNext PROVE SlipInv' /\ SlipStepOK  OBVIOUS
<1>1. /\ inside \in BOOLEAN /\ esc \in BOOLEAN /\ rest \in Seq(SlipBytes) /\ misses \in Nat
  BY DEF SlipInv
<1>2. ASSUME NEW data \in Messages, ReceiveFrame(data)  PROVE SlipInv' /\ SlipStepOK
  <2>1. /\ inside' = FALSE /\ esc' = FALSE
        /\ misses' = 0 \/ (misses' = misses + 1 /\ (inside \/ esc))
    BY <1>2, FrameReceived
  <2>2. rest' = rest  BY <1>2 DEF ReceiveFrame
  <2>3. misses' \in Nat
    <3>1. misses' = 0 \/ misses' = misses + 1  BY <2>1
    <3> QED  BY <1>1, <3>1
  <2>4. SlipInv'  BY <1>1, <2>1, <2>2, <2>3 DEF SlipInv
  <2>5. (inside \/ esc) => misses = 0
    <3>1. misses > 0 => ~inside /\ ~esc  BY DEF SlipInv
    <3>2. misses > 0 \/ misses = 0  BY <1>1
    <3> QED  BY <3>1, <3>2
  <2>6. misses' = 0 => ~(misses' > misses)  BY <1>1
  <2>7. SlipStepOK  BY <2>1, <2>5, <2>6 DEF SlipStepOK
  <2> QED  BY <2>4, <2>7
<1>3. ASSUME NEW chunk \in Seq(SlipBytes), ReceiveChunk(chunk),
             misses' = 0, rest' \in Seq(SlipBytes)
      PROVE  SlipInv' /\ SlipStepOK
  <2>1. inside' \in BOOLEAN /\ esc' \in BOOLEAN  BY <1>1, <1>3, ChunkReceived
  <2>2. ~(misses' > 0) /\ misses' \in Nat  BY <1>3
  <2>3. SlipInv'  BY <1>3, <2>1, <2>2 DEF SlipInv
  <2> QED  BY <1>3, <2>3, NoMoreMisses
<1>4. ASSUME UNCHANGED <<inside, esc, misses>>, rest' \in Seq(SlipBytes)
      PROVE  SlipInv' /\ SlipStepOK
  <2>1. SlipInv'  BY <1>4 DEF SlipInv
  <2> QED  BY <1>4, <2>1, NoMoreMisses
<1>5. ASSUME NEW data \in Messages, ReceiveTwo(data)  PROVE SlipInv' /\ SlipStepOK
  <2>1. inside' = FALSE /\ esc' = FALSE  BY <1>5, TwoReceived
  <2>2. /\ rest' = rest /\ frames' = 2
        /\ misses' = IF result' = <<data>> THEN 0 ELSE 2
    BY <1>5 DEF ReceiveTwo
  <2>3. misses' \in Nat  BY <1>1, <2>2
  <2> QED  BY <1>1, <2>1, <2>2, <2>3 DEF SlipInv, SlipStepOK
<1>6. ASSUME NEW data \in Messages, NEW n \in 1..(2 * MaxData + 1), ReceiveTorn(data, n)
      PROVE  SlipInv' /\ SlipStepOK
  <2> DEFINE fr == Frame(data)
  <2>1. fr \in Seq(SlipBytes)  BY FramesAreSequences
  <2> HIDE DEF fr
  <2>2. n \in Nat /\ n > 0 /\ n < Len(fr)
    BY <1>6, SlipAssumption DEF ReceiveTorn, fr
  <2>3. SubSeq(fr, 1, n) \in Seq(SlipBytes) /\ SubSeq(fr, n + 1, Len(fr)) \in Seq(SlipBytes)
    BY <2>1, <2>2
  <2>4. ReceiveChunk(SubSeq(fr, 1, n)) /\ rest' = SubSeq(fr, n + 1, Len(fr)) /\ misses' = 0
    BY <1>6 DEF ReceiveTorn, fr
  <2> QED  BY <1>3, <2>3, <2>4
<1>7. CASE ReceiveRest
  <2>1. <<>> \in Seq(SlipBytes)  OBVIOUS
  <2> QED  BY <1>1, <1>3, <1>7, <2>1 DEF ReceiveRest
<1>8. CASE LoseRest
  <2>1. <<>> \in Seq(SlipBytes)  OBVIOUS
  <2> QED  BY <1>4, <1>8, <2>1 DEF LoseRest
<1>9. ASSUME NEW data \in Messages, SendMessage(data)  PROVE SlipInv' /\ SlipStepOK
  BY <1>1, <1>4, <1>9 DEF SendMessage
<1> QED  BY <1>2, <1>5, <1>6, <1>7, <1>8, <1>9 DEF SlipNext

LEMMA SlipRests == SlipInv /\ UNCHANGED slipVars => SlipInv' /\ SlipStepOK
<1> SUFFICES ASSUME SlipInv, UNCHANGED slipVars PROVE SlipInv' /\ SlipStepOK  OBVIOUS
<1>1. SlipInv'  BY DEF SlipInv, slipVars
<1>2. SlipStepOK  BY NoMoreMisses DEF slipVars
<1> QED  BY <1>1, <1>2

(***************************************************************************)
(* The decoder finds its way back (slip.c:62-135, 327), for messages of    *)
(* every length, whatever the network tears or loses before: what is       *)
(* encoded and arrives whole, in a chunk of its own, is decoded as it was, *)
(* unless the chunk before ended inside a packet or an escape sequence, and*)
(* then the next one is.  Two frames in one chunk are excepted.            *)
(***************************************************************************)
THEOREM FramesComeBack == PartsSpec => DecoderRecovers
<1>1. PartsInit => SlipInv  BY SlipInitial DEF PartsInit
<1>2. SlipInv /\ [PartsNext]_partsVars => SlipInv' /\ SlipStepOK
  <2> SUFFICES ASSUME SlipInv, [PartsNext]_partsVars PROVE SlipInv' /\ SlipStepOK  OBVIOUS
  <2>1. CASE UNCHANGED partsVars  BY <2>1, SlipRests DEF partsVars
  <2>2. CASE Works("slip") /\ SlipNext  BY <2>2, SlipStep
  <2>3. CASE PartsNext /\ ~(Works("slip") /\ SlipNext)
    <3>1. UNCHANGED slipVars  BY <2>3 DEF PartsNext, Works
    <3> QED  BY <3>1, SlipRests
  <2> QED  BY <2>1, <2>2, <2>3
<1>3. SlipStepOK => [misses' > misses => frames' = 2 \/ (misses = 0 /\ (inside \/ esc))]_slipVars
  BY DEF SlipStepOK
<1> QED  BY <1>1, <1>2, <1>3, PTL DEF PartsSpec, partsVars, DecoderRecovers

-----------------------------------------------------------------------------
(* The inverter's energies                                                 *)

Energies == [Counters -> Int]

\* The sums of the first m entries of s
Sums(u, m, s) ==
  /\ u[0] = NoEnergies
  /\ \A n \in 1..m : u[n] = Plus(u[n - 1], s[n])

\* Equal but for the wraps of a counter
Near(a, b) == a % EnergyMod = b % EnergyMod

LEMMA NearSum ==
  ASSUME NEW a \in Int, NEW b \in Int, NEW c \in Int, NEW d \in Int, Near(a, b), Near(c, d)
  PROVE  Near(a + c, b + d)
<1>1. EnergyMod \in Nat \ {0}  BY InverterAssumption
<1>2. (a + c) % EnergyMod = ((a % EnergyMod) + c) % EnergyMod  BY <1>1, SumOfRemainders
<1>3. (b + c) % EnergyMod = ((b % EnergyMod) + c) % EnergyMod  BY <1>1, SumOfRemainders
<1>4. (c + b) % EnergyMod = ((c % EnergyMod) + b) % EnergyMod  BY <1>1, SumOfRemainders
<1>5. (d + b) % EnergyMod = ((d % EnergyMod) + b) % EnergyMod  BY <1>1, SumOfRemainders
<1>6. c + b = b + c /\ d + b = b + d  OBVIOUS
<1>7. (a + c) % EnergyMod = (b + c) % EnergyMod  BY <1>2, <1>3 DEF Near
<1>8. (c + b) % EnergyMod = (d + b) % EnergyMod  BY <1>4, <1>5 DEF Near
<1> QED  BY <1>6, <1>7, <1>8 DEF Near

LEMMA NearRemainder ==
  ASSUME NEW a \in Int
  PROVE  Near(a % EnergyMod, a) /\ Near(a, a) /\ a % EnergyMod \in Int
<1>1. EnergyMod \in Nat \ {0} /\ 0 \in Int  BY InverterAssumption
<1> DEFINE r == a % EnergyMod
<1>2. r \in Int  BY <1>1
<1>3. ((a % EnergyMod) + 0) % EnergyMod = (a + 0) % EnergyMod  BY <1>1, SumOfRemainders
<1>4. r % EnergyMod = a % EnergyMod
  <2>1. r + 0 = r /\ a + 0 = a  BY <1>2
  <2>2. (r + 0) % EnergyMod = (a + 0) % EnergyMod  BY <1>3
  <2> HIDE DEF r
  <2> QED  BY <2>1, <2>2
<1> QED  BY <1>2, <1>4 DEF Near

LEMMA PlusIs ==
  ASSUME NEW e \in Energies, NEW f \in Energies
  PROVE  /\ Plus(e, f) \in Energies
         /\ \A c \in Counters : /\ e[c] \in Int /\ f[c] \in Int
                              /\ Plus(e, f)[c] = (e[c] + f[c]) % EnergyMod
                              /\ Near(Plus(e, f)[c], e[c] + f[c])
<1>1. ASSUME NEW c \in Counters
      PROVE  /\ e[c] \in Int /\ f[c] \in Int /\ (e[c] + f[c]) % EnergyMod \in Int
             /\ Near((e[c] + f[c]) % EnergyMod, e[c] + f[c])
  <2>1. e[c] \in Int /\ f[c] \in Int  BY DEF Energies
  <2>2. e[c] + f[c] \in Int  BY <2>1
  <2> QED  BY <2>1, <2>2, NearRemainder
<1> QED  BY <1>1 DEF Plus, Energies

LEMMA NoEnergiesIs == NoEnergies \in Energies /\ \A c \in Counters : NoEnergies[c] = 0
  BY DEF NoEnergies, Energies

LEMMA SumsExist ==
  ASSUME NEW s \in Seq(Energies), NEW m \in 0..Len(s)
  PROVE  \E u \in [0..m -> Energies] : Sums(u, m, s)
<1> DEFINE step == [p \in (1..m) \X Energies |-> Plus(p[2], s[p[1]])]
<1>1. m \in Nat /\ \A n \in 1..m : s[n] \in Energies  OBVIOUS
<1>2. step \in [(1..m) \X Energies -> Energies]  BY <1>1, PlusIs
<1>3. \A n \in 1..m, e \in Energies : step[<<n, e>>] = Plus(e, s[n])  OBVIOUS
<1> HIDE DEF step
<1>4. PICK u \in [0..m -> Energies] : GoesFrom(u, NoEnergies, step, m)
  BY <1>1, <1>2, NoEnergiesIs, Recursion
<1>5. ASSUME NEW n \in 1..m  PROVE u[n] = Plus(u[n - 1], s[n])
  <2>1. u[n - 1] \in Energies  BY <1>1
  <2> QED  BY <1>3, <1>4, <2>1 DEF GoesFrom
<1> QED  BY <1>4, <1>5 DEF GoesFrom, Sums

\* ... and there is one way to sum.
LEMMA SumsUnique ==
  ASSUME NEW s, NEW m \in Nat, NEW u, NEW v, Sums(u, m, s), Sums(v, m, s)
  PROVE  \A n \in 0..m : u[n] = v[n]
<1> DEFINE T == {n \in 0..m : u[n] = v[n]}
<1>1. 0 \in T  BY DEF Sums
<1>2. ASSUME NEW n \in 1..m, n - 1 \in T  PROVE n \in T
  <2>1. n \in 0..m /\ u[n - 1] = v[n - 1]  BY <1>2
  <2> QED  BY <2>1 DEF Sums
<1> HIDE DEF T
<1>3. \A n \in 0..m : n \in T  BY <1>1, <1>2, Induction
<1> QED  BY <1>3 DEF T

LEMMA TotalSums ==
  ASSUME NEW s \in Seq(Energies)
  PROVE  /\ Total(s) \in Energies
         /\ \A u : Sums(u, Len(s), s) => Total(s) = u[Len(s)]
<1> DEFINE upto == CHOOSE u : u = [n \in 0..Len(s) |->
                                     IF n = 0 THEN NoEnergies ELSE Plus(u[n - 1], s[n])]
<1>1. Len(s) \in Nat /\ Len(s) \in 0..Len(s)  OBVIOUS
<1>2. PICK u \in [0..Len(s) -> Energies] : Sums(u, Len(s), s)  BY <1>1, SumsExist
<1>3. u = [n \in 0..Len(s) |-> IF n = 0 THEN NoEnergies ELSE Plus(u[n - 1], s[n])]
  <2>1. \A n \in 0..Len(s) : u[n] = IF n = 0 THEN NoEnergies ELSE Plus(u[n - 1], s[n])
    BY <1>1, <1>2 DEF Sums
  <2> QED  BY <2>1
<1>4. upto = [n \in 0..Len(s) |-> IF n = 0 THEN NoEnergies ELSE Plus(upto[n - 1], s[n])]
  BY <1>3
<1>5. Total(s) = upto[Len(s)]  BY DEF Total
<1> HIDE DEF upto
<1>6. Sums(upto, Len(s), s)
  <2>1. upto[0] = NoEnergies  BY <1>1, <1>4
  <2>2. ASSUME NEW n \in 1..Len(s)  PROVE upto[n] = Plus(upto[n - 1], s[n])
    <3>1. n \in 0..Len(s) /\ n # 0  BY <1>1
    <3> QED  BY <1>4, <3>1
  <2> QED  BY <2>1, <2>2 DEF Sums
<1>7. ASSUME NEW v, Sums(v, Len(s), s)  PROVE upto[Len(s)] = v[Len(s)]
  BY <1>1, <1>6, <1>7, SumsUnique
<1>8. upto[Len(s)] \in Energies
  <2>1. upto[Len(s)] = u[Len(s)]  BY <1>2, <1>7
  <2> QED  BY <1>1, <1>2, <2>1
<1> QED  BY <1>5, <1>7, <1>8

LEMMA TotalEmpty == Total(<<>>) = NoEnergies
<1> DEFINE u == [n \in 0..0 |-> NoEnergies]
<1>1. <<>> \in Seq(Energies) /\ Len(<<>>) = 0 /\ 1..0 = {}  OBVIOUS
<1>2. u[0] = NoEnergies  OBVIOUS
<1> HIDE DEF u
<1>3. Sums(u, 0, <<>>)  BY <1>1, <1>2 DEF Sums
<1> QED  BY <1>1, <1>2, <1>3, TotalSums

LEMMA TotalAppend ==
  ASSUME NEW s \in Seq(Energies), NEW e \in Energies
  PROVE  Total(Append(s, e)) = Plus(Total(s), e)
<1> DEFINE more == Append(s, e)
           n == Len(s)
<1>1. /\ more \in Seq(Energies) /\ Len(more) = n + 1 /\ n \in Nat /\ n \in 0..Len(s)
      /\ more[n + 1] = e /\ \A k \in 1..n : more[k] = s[k]
  OBVIOUS
<1> HIDE DEF more, n
<1>2. n + 1 \in 0..Len(more) /\ n + 1 \in 1..n+1 /\ (n + 1) - 1 = n  BY <1>1
<1>3. PICK u \in [0..n+1 -> Energies] : Sums(u, n + 1, more)  BY <1>1, <1>2, SumsExist
<1>4. Sums(u, n, s)
  <2>1. \A k \in 1..n : k \in 1..n+1  BY <1>1
  <2> QED  BY <1>1, <1>3, <2>1 DEF Sums
<1>5. Total(s) = u[n]  BY <1>4, TotalSums DEF n
<1>6. Total(more) = u[n + 1]  BY <1>1, <1>3, TotalSums
<1>7. u[n + 1] = Plus(u[n], e)  BY <1>1, <1>2, <1>3 DEF Sums
<1> QED  BY <1>5, <1>6, <1>7 DEF more

\* What the recording of energies keeps
EnergyTypes ==
  /\ now \in Nat \ {0}
  /\ power \in [Lines -> Int] /\ power["ac"] \in Nat
  /\ timestamp \in [Lines -> Nat] /\ (timestamp["ac"] = 0 => timestamp["pv"] = 0)
  /\ integral \in [Lines -> Int] /\ missed \in Int
  /\ energy_meas \in Energies /\ history \in Seq(Energies)

\* The energies that are recorded, and what the clock says has flowed
EnergiesAgree ==
  /\ Near(Recorded["charge"], integral["battery"] + Recorded["discharge"])
  /\ Near(Recorded["pv"], integral["pv"])
  /\ Near(Recorded["ac"], integral["ac"] - missed)

StatusTypes ==
  /\ inv_status \in [mode : Flags \cup {0}, status : Flags \cup {0},
                     warnings : Flags \cup {0}, changed : BOOLEAN]
  /\ server \in [mode : Flags \cup {0}, status : Flags \cup {0}, warnings : Flags \cup {0}]

ServerAgrees == ~inv_status.changed => server = [f \in DOMAIN server |-> inv_status[f]]

EnergyInv == EnergyTypes /\ EnergiesAgree /\ StatusTypes /\ ServerAgrees

LEMMA NothingAdded == \A c \in Counters : Plus(NoEnergies, NoEnergies)[c] = 0
<1>1. \A c \in Counters : Plus(NoEnergies, NoEnergies)[c] = (0 + 0) % EnergyMod
  BY NoEnergiesIs, PlusIs
<1>2. (0 + 0) % EnergyMod = 0
  <2>1. EnergyMod \in Nat \ {0}  BY InverterAssumption
  <2> QED  BY <2>1
<1> QED  BY <1>1, <1>2

LEMMA NothingAgrees ==
  ASSUME \A c \in {"charge", "discharge", "ac", "pv"} : Recorded[c] = 0,
         \A l \in {"battery", "ac", "pv"} : integral[l] = 0, missed = 0
  PROVE  EnergiesAgree
<1>1. 0 + 0 = 0 /\ 0 - 0 = 0  OBVIOUS
<1> QED  BY <1>1 DEF EnergiesAgree, Near

LEMMA EnergyInitial == InverterInit => EnergyInv
<1> SUFFICES ASSUME InverterInit PROVE EnergyInv  OBVIOUS
<1> USE DEF InverterInit
<1>1. EnergyTypes
  <2>1. <<>> \in Seq(Energies)  OBVIOUS
  <2> QED  BY <2>1, NoEnergiesIs DEF EnergyTypes, Lines
<1>2. EnergiesAgree
  <2>1. \A c \in Counters : Recorded[c] = 0
    <3>1. Recorded = Plus(NoEnergies, NoEnergies)  BY TotalEmpty DEF Recorded
    <3> QED  BY <3>1, NothingAdded
  <2>2. \A c \in {"charge", "discharge", "ac", "pv"} : Recorded[c] = 0  BY <2>1 DEF Counters
  <2>3. \A l \in {"battery", "ac", "pv"} : integral[l] = 0  BY DEF Lines
  <2> QED  BY <2>2, <2>3, NothingAgrees
<1>3. StatusTypes /\ ServerAgrees  BY DEF StatusTypes, ServerAgrees
<1> QED  BY <1>1, <1>2, <1>3 DEF EnergyInv

LEMMA RecordedIs ==
  EnergyTypes => /\ Total(history) \in Energies /\ Recorded \in Energies
                 /\ \A c \in Counters :
                      /\ Recorded[c] \in Int
                      /\ Recorded[c] = (energy_meas[c] + Total(history)[c]) % EnergyMod
                      /\ Near(Recorded[c], energy_meas[c] + Total(history)[c])
<1> SUFFICES ASSUME EnergyTypes
             PROVE  /\ Total(history) \in Energies /\ Recorded \in Energies
                    /\ \A c \in Counters :
                         /\ Recorded[c] \in Int
                         /\ Recorded[c] = (energy_meas[c] + Total(history)[c]) % EnergyMod
                         /\ Near(Recorded[c], energy_meas[c] + Total(history)[c])
  OBVIOUS
<1>1. energy_meas \in Energies /\ Total(history) \in Energies
  BY TotalSums DEF EnergyTypes
<1>2. Recorded \in Energies  BY <1>1, PlusIs DEF Recorded
<1>3. \A c \in Counters : Recorded[c] \in Int  BY <1>2 DEF Energies
<1> QED  BY <1>1, <1>2, <1>3, PlusIs DEF Recorded

\* What is stored is recorded, wherever it is put, until the history is cleared.
LEMMA StoredIsRecorded ==
  ASSUME EnergyTypes, NEW e \in Energies, StoreEnergy(Plus(energy_meas, e))
  PROVE  /\ energy_meas' \in Energies /\ history' \in Seq(Energies)
         /\ history' = <<>> => \A c \in Counters : Recorded'[c] = 0
         /\ history' # <<>> => \A c \in Counters : Near(Recorded'[c], Recorded[c] + e[c])
<1> DEFINE total == Total(history)
           stored == Plus(energy_meas, e)
           entries == Append(history, stored)
<1>1. /\ energy_meas \in Energies /\ history \in Seq(Energies) /\ total \in Energies
      /\ \A c \in Counters : /\ Recorded[c] \in Int
                            /\ Near(Recorded[c], energy_meas[c] + total[c])
  BY RecordedIs DEF EnergyTypes
<1>2. /\ stored \in Energies
      /\ \A c \in Counters : Near(stored[c], energy_meas[c] + e[c])
  BY <1>1, PlusIs
<1>3. Recorded' = Plus(energy_meas', Total(history'))  BY DEF Recorded
<1>4. \A c \in Counters : /\ energy_meas[c] \in Int /\ total[c] \in Int /\ e[c] \in Int
                          /\ stored[c] \in Int
  BY <1>1, <1>2 DEF Energies
<1>5. entries \in Seq(Energies) /\ entries # <<>> /\ <<>> \in Seq(Energies)
  <2> HIDE DEF stored
  <2> QED  BY <1>1, <1>2
<1>6. Total(entries) = Plus(total, stored) /\ Total(entries) \in Energies
  BY <1>1, <1>2, TotalAppend, PlusIs
<1>7. \/ energy_meas' = stored /\ history' = history /\ history # <<>>
      \/ energy_meas' = NoEnergies /\ history' = entries
      \/ energy_meas' = NoEnergies /\ history' = <<>>
  BY DEF StoreEnergy
<1> HIDE DEF stored, entries, total
\* What is near to what is stored on top of what is recorded
<1>8. ASSUME NEW c \in Counters, NEW a \in Int, Near(a, stored[c] + total[c])
      PROVE  Near(a, Recorded[c] + e[c])
  <2> DEFINE m == energy_meas[c]  n == total[c]  k == e[c]  r == Recorded[c]  s == stored[c]
  <2>1. /\ m \in Int /\ n \in Int /\ k \in Int /\ r \in Int /\ s \in Int
        /\ Near(r, m + n) /\ Near(s, m + k) /\ Near(a, s + n)
    BY <1>1, <1>2, <1>4, <1>8
  <2> HIDE DEF m, n, k, r, s
  <2>2. m + n \in Int /\ m + k \in Int /\ (m + k) + n = (m + n) + k  BY <2>1
  <2>3. Near(n, n) /\ Near(k, k)  BY <2>1, NearRemainder
  <2>4. Near(s + n, (m + k) + n)  BY <2>1, <2>2, <2>3, NearSum
  <2>5. Near(r + k, (m + n) + k)  BY <2>1, <2>2, <2>3, NearSum
  <2>6. Near(a, r + k)  BY <2>1, <2>2, <2>4, <2>5 DEF Near
  <2> QED  BY <2>6 DEF r, k
<1>9. CASE energy_meas' = stored /\ history' = history /\ history # <<>>
  <2>1. Recorded' = Plus(stored, total)  BY <1>3, <1>9 DEF total
  <2>2. /\ Plus(stored, total) \in Energies
        /\ \A c \in Counters : Near(Recorded'[c], stored[c] + total[c])
    BY <1>1, <1>2, <2>1, PlusIs
  <2>3. \A c \in Counters : Recorded'[c] \in Int  BY <2>1, <2>2 DEF Energies
  <2> QED  BY <1>1, <1>2, <1>8, <1>9, <2>2, <2>3
<1>10. CASE energy_meas' = NoEnergies /\ history' = entries
  <2>1. Recorded' = Plus(NoEnergies, Total(entries))  BY <1>3, <1>10
  <2>2. /\ Recorded' \in Energies
        /\ \A c \in Counters : Near(Recorded'[c], 0 + Total(entries)[c])
    BY <1>6, <2>1, NoEnergiesIs, PlusIs
  <2>3. ASSUME NEW c \in Counters  PROVE Near(Recorded'[c], Recorded[c] + e[c])
    <3>1. /\ Total(entries)[c] \in Int /\ Recorded'[c] \in Int
          /\ Near(Recorded'[c], 0 + Total(entries)[c])
      BY <1>6, <2>2 DEF Energies
    <3>2. Near(Total(entries)[c], total[c] + stored[c])  BY <1>1, <1>2, <1>6, PlusIs
    <3>3. 0 + Total(entries)[c] = Total(entries)[c] /\ total[c] + stored[c] = stored[c] + total[c]
      BY <1>4, <3>1
    <3>4. Near(Recorded'[c], stored[c] + total[c])  BY <3>1, <3>2, <3>3 DEF Near
    <3> QED  BY <1>8, <3>1, <3>4
  <2> QED  BY <1>5, <1>10, <2>3, NoEnergiesIs
<1>11. CASE energy_meas' = NoEnergies /\ history' = <<>>
  <2>1. Recorded' = Plus(NoEnergies, NoEnergies)  BY <1>3, <1>11, TotalEmpty
  <2> QED  BY <1>5, <1>11, <2>1, NoEnergiesIs, NothingAdded
<1> QED  BY <1>7, <1>9, <1>10, <1>11

\* ... after a step, too
LEMMA RecordedIsThen == EnergyTypes' => Recorded' \in Energies
<1> SUFFICES ASSUME EnergyTypes' PROVE Recorded' \in Energies  OBVIOUS
<1>1. energy_meas' \in Energies /\ Total(history') \in Energies
  BY TotalSums DEF EnergyTypes
<1> QED  BY <1>1, PlusIs DEF Recorded

\* A power over two times, one after the other
LEMMA FlowsOn ==
  ASSUME NEW w \in Int, NEW s \in Int, NEW t \in Int
  PROVE  w * (s + t) = w * s + w * t
  BY SMT

LEMMA FlowIsWhole == ASSUME NEW w \in Int, NEW s \in Int PROVE w * s \in Int
  BY SMT

\* The time on the clock over which the power of line l flowed
Flowed(l, at) == IF timestamp[l] = 0 THEN 0 ELSE power[l] * (at[l] - timestamp[l])

\* What the AC output misses between a measurement and the next
Unmeasured == power["ac"] * (timestamp["pv"] - timestamp["ac"])

\* What a measurement adds to the counters, line by line
LEMMA EnergiesFlow ==
  ASSUME EnergyTypes, NEW at \in [Lines -> Nat]
  PROVE  /\ EnergiesOf(at) \in Energies
         /\ \A l \in Lines : Flowed(l, at) \in Int
         /\ EnergiesOf(at)["charge"] = Flowed("battery", at) + EnergiesOf(at)["discharge"]
         /\ EnergiesOf(at)["pv"] = Flowed("pv", at)
         /\ EnergiesOf(at)["ac"] + Unmeasured = Flowed("ac", at) /\ Unmeasured \in Int
<1>1. /\ power \in [Lines -> Int] /\ power["ac"] \in Int
      /\ timestamp \in [Lines -> Nat] /\ (timestamp["ac"] = 0 => timestamp["pv"] = 0)
      /\ "ac" \in Lines /\ "pv" \in Lines
  BY DEF EnergyTypes, Lines
<1>2. \A l \in Lines : /\ power[l] \in Int /\ timestamp[l] \in Nat /\ at[l] \in Nat
                       /\ at[l] - timestamp[l] \in Int
  BY <1>1
<1>3. ASSUME NEW l \in Lines  PROVE Flowed(l, at) \in Int
  BY <1>2, FlowIsWhole DEF Flowed
<1>4. ASSUME NEW l \in {"battery", "pv"}
      PROVE  Delta(l, at) = Flowed(l, at) /\ Delta(l, at) \in Int
  <2>1. l \in Lines /\ l # "ac"  BY DEF Lines
  <2>2. CASE timestamp[l] = 0
    <3>1. Elapsed(l, at) = 0 /\ power[l] \in Int  BY <1>2, <2>1, <2>2 DEF Elapsed
    <3> QED  BY <2>2, <3>1 DEF Delta, Flowed
  <2>3. CASE timestamp[l] # 0
    <3>1. Elapsed(l, at) = at[l] - timestamp[l]  BY <2>1, <2>3 DEF Elapsed
    <3> QED  BY <1>3, <2>1, <2>3, <3>1 DEF Delta, Flowed
  <2> QED  BY <2>2, <2>3
<1>5. Delta("ac", at) + Unmeasured = Flowed("ac", at) /\ Delta("ac", at) \in Int /\ Unmeasured \in Int
  <2>0. timestamp["pv"] - timestamp["ac"] \in Int  BY <1>1, <1>2
  <2>1. Unmeasured \in Int  BY <1>1, <2>0, FlowIsWhole DEF Unmeasured
  <2>2. CASE timestamp["ac"] = 0
    <3>1. Elapsed("ac", at) = 0  BY <2>2 DEF Elapsed
    <3>2. timestamp["pv"] - timestamp["ac"] = 0  BY <1>1, <2>2
    <3>3. \A w \in Int : w * 0 = 0  OBVIOUS
    <3>4. Unmeasured = 0 /\ Delta("ac", at) = 0  BY <1>1, <3>1, <3>2, <3>3 DEF Unmeasured, Delta
    <3> QED  BY <2>2, <3>4 DEF Flowed
  <2>3. CASE timestamp["ac"] # 0
    <3> DEFINE s == at["ac"] - timestamp["pv"]
               t == timestamp["pv"] - timestamp["ac"]
               u == at["ac"] - timestamp["ac"]
               w == power["ac"]
    <3>1. Elapsed("ac", at) = s  BY <2>3 DEF Elapsed
    <3>2. s \in Int /\ t \in Int /\ u = s + t /\ w \in Int  BY <1>1, <1>2
    <3>3. Flowed("ac", at) = w * u /\ Unmeasured = w * t  BY <2>3 DEF Flowed, Unmeasured
    <3>4. Delta("ac", at) = w * s  BY <3>1 DEF Delta
    <3> HIDE DEF s, t, u, w
    <3>5. w * s \in Int /\ w * u = w * s + w * t  BY <3>2, FlowIsWhole, FlowsOn
    <3> QED  BY <2>1, <3>3, <3>4, <3>5
  <2> QED  BY <2>1, <2>2, <2>3
<1> DEFINE battery == Delta("battery", at)
           charge == IF battery > 0 THEN battery ELSE 0
           discharge == IF battery > 0 THEN 0 ELSE -battery
<1>6. battery \in Int /\ battery = Flowed("battery", at)  BY <1>4
<1>7. /\ EnergiesOf(at) = [charge |-> charge, discharge |-> discharge,
                           ac |-> Delta("ac", at), pv |-> Delta("pv", at)]
  BY DEF EnergiesOf
<1> HIDE DEF battery
<1>8. charge \in Int /\ discharge \in Int /\ charge = battery + discharge  BY <1>6
<1> HIDE DEF charge, discharge
<1>9. Delta("pv", at) \in Int /\ Delta("pv", at) = Flowed("pv", at)  BY <1>4
<1>10. EnergiesOf(at) \in Energies
  BY <1>5, <1>7, <1>8, <1>9 DEF Energies, Counters
<1> QED  BY <1>3, <1>5, <1>6, <1>7, <1>8, <1>9, <1>10

LEMMA EnergyMeasured ==
  ASSUME EnergyInv, NEW next \in NextPowers, NEW status \in Flags, NEW tick,
         QpigsHandler(next, status, tick)
  PROVE  EnergyTypes' /\ EnergiesAgree'
<1> DEFINE late == now + (IF tick = "before ac" THEN 1 ELSE 0)
           final == now + (IF tick = "none" THEN 0 ELSE 1)
           at == [battery |-> now, ac |-> late, pv |-> final]
           e == EnergiesOf(at)
<1>1. EnergyTypes /\ EnergiesAgree  BY DEF EnergyInv
<1>2. /\ now' = at["pv"] /\ StoreEnergy(Plus(energy_meas, e))
      /\ integral' = [l \in Lines |-> IF history' = <<>> THEN 0 ELSE integral[l] + Flowed(l, at)]
      /\ missed' = IF history' = <<>> THEN 0 ELSE missed + Unmeasured
      /\ power' = next /\ timestamp' = at
  BY DEF QpigsHandler, Flowed, Unmeasured
<1>3. now \in Nat /\ late \in Nat \ {0} /\ final \in Nat \ {0}
  <2>1. now \in Nat /\ now + 0 \in Nat \ {0} /\ now + 1 \in Nat \ {0}
    BY <1>1 DEF EnergyTypes
  <2>2. (late = now + 0 \/ late = now + 1) /\ (final = now + 0 \/ final = now + 1)  OBVIOUS
  <2> HIDE DEF late, final
  <2> QED  BY <2>1, <2>2
<1> HIDE DEF late, final
<1>4. at \in [Lines -> Nat] /\ at["ac"] # 0 /\ at["pv"] \in Nat \ {0}
  <2>1. at["ac"] = late /\ at["pv"] = final /\ at["battery"] = now  OBVIOUS
  <2>2. DOMAIN at = Lines  BY DEF Lines
  <2>3. at = [l \in Lines |-> at[l]]  BY <2>2
  <2>4. \A l \in Lines : at[l] \in Nat  BY <1>3, <2>1 DEF Lines
  <2> HIDE DEF at
  <2> QED  BY <1>3, <2>1, <2>3, <2>4
<1> HIDE DEF at
<1>5. /\ e \in Energies /\ \A l \in Lines : Flowed(l, at) \in Int
      /\ e["charge"] = Flowed("battery", at) + e["discharge"]
      /\ e["pv"] = Flowed("pv", at)
      /\ e["ac"] + Unmeasured = Flowed("ac", at) /\ Unmeasured \in Int
  BY <1>1, <1>4, EnergiesFlow
<1> HIDE DEF e
<1>6. /\ energy_meas' \in Energies /\ history' \in Seq(Energies)
      /\ history' = <<>> => \A c \in Counters : Recorded'[c] = 0
      /\ history' # <<>> => \A c \in Counters : Near(Recorded'[c], Recorded[c] + e[c])
  BY <1>1, <1>2, <1>5, StoredIsRecorded
<1>7. next \in [Lines -> Int] /\ next["ac"] \in Nat
  <2>1. ASSUME NEW p \in Powers  PROVE p \in Nat /\ p \in Int /\ -p \in Int
    <3>1. p \in Nat  BY InverterAssumption
    <3> QED  BY <3>1
  <2>2. \A p \in Powers \cup {-w : w \in Powers} : p \in Int  BY <2>1
  <2>3. next \in [Lines -> Powers \cup {-w : w \in Powers}] /\ next["ac"] \in Powers
    BY DEF NextPowers
  <2> QED  BY <2>1, <2>2, <2>3
<1>8. /\ missed \in Int /\ missed + Unmeasured \in Int /\ 0 \in Int
      /\ \A l \in Lines : integral[l] \in Int /\ integral[l] + Flowed(l, at) \in Int
  <2>1. missed \in Int /\ \A l \in Lines : integral[l] \in Int  BY <1>1 DEF EnergyTypes
  <2> QED  BY <1>5, <2>1
<1>9. EnergyTypes'
  <2>1. integral' \in [Lines -> Int] /\ missed' \in Int  BY <1>2, <1>8
  <2> QED  BY <1>2, <1>4, <1>6, <1>7, <2>1 DEF EnergyTypes
<1>10. ASSUME history' = <<>>  PROVE EnergiesAgree'
  <2>1. \A c \in {"charge", "discharge", "ac", "pv"} : Recorded'[c] = 0  BY <1>6, <1>10 DEF Counters
  <2>2. missed' = 0 /\ \A l \in {"battery", "ac", "pv"} : integral'[l] = 0
    BY <1>2, <1>10 DEF Lines
  <2>3. 0 + 0 = 0 /\ 0 - 0 = 0  OBVIOUS
  <2> QED  BY <2>1, <2>2, <2>3 DEF EnergiesAgree, Near
<1>11. ASSUME history' # <<>>  PROVE EnergiesAgree'
  <2>1. \A c \in Counters : Recorded[c] \in Int /\ e[c] \in Int
    BY <1>1, <1>5, RecordedIs DEF Energies
  <2>2. \A c \in Counters : Recorded'[c] \in Int
    <3>1. Recorded' \in Energies  BY <1>9, RecordedIsThen
    <3> QED  BY <3>1 DEF Energies
  <2>3. /\ \A c \in {"charge", "discharge", "ac", "pv"} :
             /\ Recorded[c] \in Int /\ e[c] \in Int /\ Recorded'[c] \in Int
             /\ Near(Recorded'[c], Recorded[c] + e[c])
        /\ missed' = missed + Unmeasured
        /\ \A l \in {"battery", "ac", "pv"} :
             /\ integral'[l] = integral[l] + Flowed(l, at)
             /\ integral[l] \in Int /\ Flowed(l, at) \in Int
    BY <1>2, <1>5, <1>6, <1>8, <1>11, <2>1, <2>2 DEF Counters, Lines
  <2>4. /\ Near(Recorded["charge"], integral["battery"] + Recorded["discharge"])
        /\ Near(Recorded["pv"], integral["pv"])
        /\ Near(Recorded["ac"], integral["ac"] - missed)
    BY <1>1 DEF EnergiesAgree
  <2>5. Near(Recorded'["charge"], integral'["battery"] + Recorded'["discharge"])
    <3> DEFINE a == Recorded["charge"]  b == Recorded["discharge"]  c == e["charge"]
               d == e["discharge"]  f == integral["battery"]  g == Flowed("battery", at)
               h == Recorded'["charge"]  k == Recorded'["discharge"]
    <3>1. /\ a \in Int /\ b \in Int /\ c \in Int /\ d \in Int /\ f \in Int /\ g \in Int
          /\ h \in Int /\ k \in Int /\ c = g + d
          /\ Near(a, f + b) /\ Near(h, a + c) /\ Near(k, b + d)
          /\ integral'["battery"] = f + g
      BY <1>5, <2>3, <2>4
    <3> HIDE DEF a, b, c, d, f, g, h, k
    <3>2. /\ f + b \in Int /\ f + g \in Int /\ b + d \in Int
          /\ (f + b) + c = (f + g) + (b + d)
      BY <3>1
    <3>3. Near(c, c) /\ Near(f + g, f + g)  BY <3>1, <3>2, NearRemainder
    <3>4. Near(a + c, (f + b) + c)  BY <3>1, <3>2, <3>3, NearSum
    <3>5. Near((f + g) + k, (f + g) + (b + d))  BY <3>1, <3>2, <3>3, NearSum
    <3>6. Near(h, (f + g) + k)  BY <3>1, <3>2, <3>4, <3>5 DEF Near
    <3> QED  BY <3>1, <3>6 DEF h, k
  <2>6. Near(Recorded'["pv"], integral'["pv"])
    <3> DEFINE a == Recorded["pv"]  c == e["pv"]  f == integral["pv"]  h == Recorded'["pv"]
    <3>1. /\ a \in Int /\ c \in Int /\ f \in Int /\ Near(a, f) /\ Near(h, a + c)
          /\ integral'["pv"] = f + c
      BY <1>5, <2>3, <2>4
    <3> HIDE DEF a, c, f, h
    <3>2. Near(c, c)  BY <3>1, NearRemainder
    <3>3. Near(a + c, f + c)  BY <3>1, <3>2, NearSum
    <3> QED  BY <3>1, <3>3 DEF Near, h
  <2>7. Near(Recorded'["ac"], integral'["ac"] - missed')
    <3> DEFINE a == Recorded["ac"]  c == e["ac"]  f == integral["ac"]  g == Flowed("ac", at)
               h == Recorded'["ac"]  m == missed  u == Unmeasured
    <3>1. /\ a \in Int /\ c \in Int /\ f \in Int /\ g \in Int /\ m \in Int /\ u \in Int
          /\ c + u = g /\ Near(a, f - m) /\ Near(h, a + c)
          /\ integral'["ac"] = f + g /\ missed' = m + u
      BY <1>5, <1>8, <2>3, <2>4
    <3> HIDE DEF a, c, f, g, h, m, u
    <3>2. f - m \in Int /\ (f - m) + c = (f + g) - (m + u)  BY <3>1
    <3>3. Near(c, c)  BY <3>1, NearRemainder
    <3>4. Near(a + c, (f - m) + c)  BY <3>1, <3>2, <3>3, NearSum
    <3>5. Near(h, (f + g) - (m + u))  BY <3>1, <3>2, <3>4 DEF Near
    <3> QED  BY <3>1, <3>5 DEF h
  <2> QED  BY <2>5, <2>6, <2>7 DEF EnergiesAgree
<1> QED  BY <1>9, <1>10, <1>11

\* What is set and differs is marked as changed.
LEMMA ChangedIs ==
  ASSUME StatusTypes, ServerAgrees,
         NEW field \in {"mode", "status", "warnings"}, NEW value \in Flags
  PROVE  /\ Changed(field, value) \in [mode : Flags \cup {0}, status : Flags \cup {0},
                                       warnings : Flags \cup {0}, changed : BOOLEAN]
         /\ ~Changed(field, value).changed =>
              server = [f \in DOMAIN server |-> Changed(field, value)[f]]
<1> DEFINE new == Changed(field, value)
<1>1. new \in [mode : Flags \cup {0}, status : Flags \cup {0},
               warnings : Flags \cup {0}, changed : BOOLEAN]
  BY DEF Changed, StatusTypes
<1>2. ASSUME ~new.changed  PROVE server = [f \in DOMAIN server |-> new[f]]
  <2>1. ~inv_status.changed /\ inv_status[field] = value
    BY <1>2 DEF Changed, StatusTypes
  <2>2. \A f \in {"mode", "status", "warnings"} : new[f] = inv_status[f]
    BY <2>1 DEF Changed, StatusTypes
  <2>3. DOMAIN server = {"mode", "status", "warnings"}  BY DEF StatusTypes
  <2>4. server = [f \in DOMAIN server |-> inv_status[f]]  BY <2>1 DEF ServerAgrees
  <2> HIDE DEF new
  <2> QED  BY <2>2, <2>3, <2>4
<1> QED  BY <1>1, <1>2

LEMMA StatusReported ==
  ASSUME EnergyInv, NEW next \in NextPowers, NEW status \in Flags, NEW tick,
         QpigsHandler(next, status, tick)
  PROVE  StatusTypes' /\ ServerAgrees'
<1>1. inv_status' = Changed("status", status) /\ server' = server  BY DEF QpigsHandler
<1>2. StatusTypes /\ ServerAgrees  BY DEF EnergyInv
<1> QED  BY <1>1, <1>2, ChangedIs DEF StatusTypes, ServerAgrees

LEMMA WarningsKept ==
  ASSUME EnergyInv, NEW flags \in Flags, WarningFlagsHandler(flags)
  PROVE  StatusTypes' /\ ServerAgrees'
<1>1. inv_status' = Changed("warnings", flags) /\ server' = server
  BY DEF WarningFlagsHandler
<1>2. StatusTypes /\ ServerAgrees  BY DEF EnergyInv
<1> QED  BY <1>1, <1>2, ChangedIs DEF StatusTypes, ServerAgrees

\* With the mode the server has everything.
LEMMA ModeReported ==
  ASSUME EnergyInv, NEW mode \in Flags, ModeHandler(mode)
  PROVE  StatusTypes' /\ ServerAgrees'
<1> DEFINE new == Changed("mode", mode)
<1>1. /\ inv_status' = [new EXCEPT !.changed = FALSE]
      /\ server' = IF new.changed THEN [f \in DOMAIN server |-> new[f]] ELSE server
  BY DEF ModeHandler
<1>2. /\ new \in [mode : Flags \cup {0}, status : Flags \cup {0},
                  warnings : Flags \cup {0}, changed : BOOLEAN]
      /\ ~new.changed => server = [f \in DOMAIN server |-> new[f]]
  BY ChangedIs DEF EnergyInv
<1> HIDE DEF new
<1>3. server' = [f \in DOMAIN server |-> new[f]]  BY <1>1, <1>2
<1>4. DOMAIN server = {"mode", "status", "warnings"}  BY DEF EnergyInv, StatusTypes
<1>5. server' = [f \in {"mode", "status", "warnings"} |-> new[f]]  BY <1>3, <1>4
<1>6. \A f \in {"mode", "status", "warnings"} : inv_status'[f] = new[f]  BY <1>1, <1>2
<1>7. StatusTypes'
  <2>1. inv_status' \in [mode : Flags \cup {0}, status : Flags \cup {0},
                         warnings : Flags \cup {0}, changed : BOOLEAN]
    BY <1>1, <1>2
  <2>2. server' \in [mode : Flags \cup {0}, status : Flags \cup {0}, warnings : Flags \cup {0}]
    BY <1>2, <1>5
  <2> QED  BY <2>1, <2>2 DEF StatusTypes
<1>8. ServerAgrees'
  <2>1. server' = [f \in DOMAIN server' |-> inv_status'[f]]  BY <1>5, <1>6
  <2> QED  BY <2>1 DEF ServerAgrees
<1> QED  BY <1>7, <1>8

LEMMA EnergyUnchanged ==
  EnergyInv /\ UNCHANGED <<energyVars, statusVars>> /\ now' \in Nat \ {0} => EnergyInv'
  BY DEF EnergyInv, EnergyTypes, EnergiesAgree, StatusTypes, ServerAgrees, Recorded,
         energyVars, statusVars

LEMMA EnergyStep == EnergyInv /\ InverterNext => EnergyInv'
<1> SUFFICES ASSUME EnergyInv, InverterNext PROVE EnergyInv'  OBVIOUS
<1>1. CASE \E next \in NextPowers, status \in Flags, tick \in {"none", "before ac", "before pv"} :
             QpigsHandler(next, status, tick)
  BY <1>1, EnergyMeasured, StatusReported DEF EnergyInv
<1>2. CASE \E f \in Flags : WarningFlagsHandler(f) \/ ModeHandler(f)
  <2>1. PICK f \in Flags : WarningFlagsHandler(f) \/ ModeHandler(f)  BY <1>2
  <2>2. StatusTypes' /\ ServerAgrees'  BY <2>1, WarningsKept, ModeReported
  <2>3. UNCHANGED <<now, energyVars>>  BY <2>1 DEF WarningFlagsHandler, ModeHandler
  <2>4. EnergyTypes' /\ EnergiesAgree'
    BY <2>3 DEF EnergyInv, EnergyTypes, EnergiesAgree, Recorded, energyVars
  <2> QED  BY <2>2, <2>4 DEF EnergyInv
<1>3. CASE ClockMoves
  <2>1. now' \in Nat \ {0}  BY <1>3, InverterAssumption DEF ClockMoves
  <2> QED  BY <1>3, <2>1, EnergyUnchanged DEF ClockMoves
<1> QED  BY <1>1, <1>2, <1>3 DEF InverterNext

LEMMA EnergyGoesOn == PartsSpec => []EnergyInv
<1>1. PartsInit => EnergyInv  BY EnergyInitial DEF PartsInit
<1>2. EnergyInv /\ [PartsNext]_partsVars => EnergyInv'
  <2> SUFFICES ASSUME EnergyInv, [PartsNext]_partsVars PROVE EnergyInv'  OBVIOUS
  <2>1. CASE Works("inverter") /\ InverterNext  BY <2>1, EnergyStep
  <2>2. CASE UNCHANGED inverterVars
    <3>1. now' \in Nat \ {0}  BY <2>2 DEF inverterVars, EnergyInv, EnergyTypes
    <3> QED  BY <2>2, <3>1, EnergyUnchanged DEF inverterVars
  <2>3. CASE PartsNext /\ ~(Works("inverter") /\ InverterNext)
    <3>1. UNCHANGED inverterVars  BY <2>3 DEF PartsNext, Works
    <3> QED  BY <2>2, <3>1
  <2>4. CASE UNCHANGED partsVars  BY <2>2, <2>4 DEF partsVars
  <2> QED  BY <2>1, <2>3, <2>4
<1> QED  BY <1>1, <1>2, PTL DEF PartsSpec, partsVars

\* The energies are below the modulus.
LEMMA EnergyFollows == EnergyInv => EnergyKept
<1> SUFFICES ASSUME EnergyInv PROVE EnergyKept  OBVIOUS
<1>1. ASSUME NEW c \in Counters, NEW b \in Int, Near(Recorded[c], b)
      PROVE  Recorded[c] = b % EnergyMod
  <2> DEFINE a == energy_meas[c] + Total(history)[c]
  <2>1. a \in Int
    <3>1. energy_meas \in Energies /\ Total(history) \in Energies
      BY RecordedIs DEF EnergyInv, EnergyTypes
    <3>2. energy_meas[c] \in Int /\ Total(history)[c] \in Int  BY <3>1 DEF Energies
    <3> QED  BY <3>2
  <2>2. Recorded[c] = a % EnergyMod  BY RecordedIs DEF EnergyInv
  <2> HIDE DEF a
  <2>3. Near(a % EnergyMod, a)  BY <2>1, NearRemainder
  <2> QED  BY <1>1, <2>2, <2>3 DEF Near
<1>2. /\ integral["battery"] + Recorded["discharge"] \in Int /\ integral["pv"] \in Int
      /\ integral["ac"] - missed \in Int
  <2>1. EnergyTypes  BY DEF EnergyInv
  <2>2. Recorded["discharge"] \in Int  BY <2>1, RecordedIs DEF Counters
  <2>3. /\ integral["battery"] \in Int /\ integral["pv"] \in Int /\ integral["ac"] \in Int
        /\ missed \in Int
    BY <2>1 DEF EnergyTypes, Lines
  <2> QED  BY <2>2, <2>3
<1>3. "charge" \in Counters /\ "pv" \in Counters /\ "ac" \in Counters  BY DEF Counters
<1>4. /\ Near(Recorded["charge"], integral["battery"] + Recorded["discharge"])
      /\ Near(Recorded["pv"], integral["pv"])
      /\ Near(Recorded["ac"], integral["ac"] - missed)
      /\ ServerAgrees
  BY DEF EnergyInv, EnergiesAgree
<1>5. /\ Recorded["charge"] = (integral["battery"] + Recorded["discharge"]) % EnergyMod
      /\ Recorded["pv"] = integral["pv"] % EnergyMod
      /\ Recorded["ac"] = (integral["ac"] - missed) % EnergyMod
  BY <1>1, <1>2, <1>3, <1>4
<1> QED  BY <1>4, <1>5 DEF ServerAgrees, EnergyKept

(***************************************************************************)
(* From one clearing of the history to the next, no energy is lost or      *)
(* counted twice between the counters and the history, modulo the width of *)
(* a counter, and the server's view is the device's unless a change waits  *)
(* for the next mode (inverter.c:185-258, 420), for every length of the    *)
(* history, every width, all powers, and a clock that is set at will.      *)
(***************************************************************************)
THEOREM EnergyIsKept == PartsSpec => []EnergyKept
  BY EnergyFollows, EnergyGoesOn, PTL

-----------------------------------------------------------------------------
(* The button's callbacks with arguments                                   *)

ArgCallbacks == [arg : Nat, f : Callees]

\* A list of callbacks is in order, and has none twice.
InOrder(s) == \A i, j \in DOMAIN s : i <= j => s[i].arg <= s[j].arg
Listed(s) == s \in Seq(ArgCallbacks) /\ IsInjective(s) /\ InOrder(s)

\* A bounded set of numbers has a greatest one.
LEMMA GreatestNumber ==
  ASSUME NEW T \in SUBSET Nat, T # {}, NEW b \in Nat, \A n \in T : n <= b
  PROVE  Max(T) \in T /\ \A n \in T : n <= Max(T)
<1> DEFINE Upper == {k \in Nat : \A n \in T : n <= k}
<1>1. Upper \in SUBSET Nat /\ Upper # {}  OBVIOUS
<1>2. PICK k \in Upper : \A u \in Upper : k <= u
  <2> HIDE DEF Upper
  <2> QED  BY <1>1, LeastNumber
<1>3. k \in T
  <2> SUFFICES ASSUME k \notin T PROVE FALSE  OBVIOUS
  <2>1. k \in Nat /\ \A n \in T : n \in Nat /\ n <= k /\ n # k  OBVIOUS
  <2>2. k - 1 \in Nat /\ \A n \in T : n <= k - 1
    <3>1. PICK n \in T : TRUE  OBVIOUS
    <3> QED  BY <2>1, <3>1
  <2>3. k - 1 \in Upper  BY <2>2
  <2> QED  BY <1>2, <2>2, <2>3
<1>4. \A n \in T : k >= n  OBVIOUS
<1>5. Max(T) \in T /\ \A n \in T : Max(T) >= n  BY <1>3, <1>4 DEF Max
<1> QED  BY <1>5

\* What is left of a list behind the first p
LEMMA RestOfList ==
  ASSUME NEW s \in Seq(ArgCallbacks), NEW p \in 0..Len(s)
  PROVE  LET after == SubSeq(s, p + 1, Len(s)) IN
         /\ after \in Seq(ArgCallbacks) /\ Len(after) = Len(s) - p
         /\ \A i \in 1..Len(s) - p : after[i] = s[i + p]
<1> DEFINE n == Len(s)
           after == SubSeq(s, p + 1, n)
<1>1. n \in Nat /\ p \in 0..n /\ \A i \in 1..n : s[i] \in ArgCallbacks  OBVIOUS
<1>2. CASE p = n
  <2>1. after = <<>> /\ <<>> \in Seq(ArgCallbacks) /\ Len(<<>>) = 0  BY <1>2
  <2> HIDE DEF after
  <2>2. after \in Seq(ArgCallbacks) /\ Len(after) = 0  BY <2>1
  <2> HIDE DEF n
  <2>3. n - p = 0 /\ 1..n - p = {}  BY <1>1, <1>2
  <2> QED  BY <2>2, <2>3 DEF n, after
<1>3. CASE p # n
  <2> HIDE DEF n
  <2>1. /\ p + 1 \in 1..n + 1 /\ p + 1 <= n /\ n - (p + 1) + 1 = n - p
        /\ \A i \in p + 1..n : i \in 1..n
        /\ \A i \in 1..n - p : (p + 1) + i - 1 = i + p
    BY <1>1, <1>3
  <2>2. \A i \in p + 1..n : s[i] \in ArgCallbacks  BY <1>1, <2>1
  <2>3. /\ after \in Seq(ArgCallbacks) /\ Len(after) = n - (p + 1) + 1
        /\ \A i \in 1..n - (p + 1) + 1 : after[i] = s[(p + 1) + i - 1]
    BY <2>1, <2>2, SubSeqProperties DEF n
  <2> HIDE DEF after
  <2>4. \A i \in 1..n - p : after[i] = s[i + p]  BY <2>1, <2>3
  <2>5. Len(after) = n - p  BY <2>1, <2>3
  <2> QED  BY <2>3, <2>4, <2>5 DEF n, after
<1> QED  BY <1>2, <1>3

\* How many of a list there are up to c.arg, and where c is put
LEMMA InsertedIs ==
  ASSUME NEW s, Listed(s), NEW c \in ArgCallbacks
  PROVE  \E p \in 0..Len(s) :
           /\ \A i \in 1..Len(s) : s[i].arg <= c.arg <=> i <= p
           /\ Inserted(s, c) \in Seq(ArgCallbacks)
           /\ Len(Inserted(s, c)) = Len(s) + 1
           /\ \A i \in 1..Len(s) + 1 :
                Inserted(s, c)[i] = IF i <= p THEN s[i] ELSE IF i = p + 1 THEN c ELSE s[i - 1]
<1> DEFINE T == {0} \cup {i \in DOMAIN s : s[i].arg <= c.arg}
           p == Max(T)
<1>1. /\ s \in Seq(ArgCallbacks) /\ Len(s) \in Nat /\ DOMAIN s = 1..Len(s)
      /\ c.arg \in Nat /\ \A i \in 1..Len(s) : s[i] \in ArgCallbacks /\ s[i].arg \in Nat
      /\ \A i, j \in 1..Len(s) : i <= j => s[i].arg <= s[j].arg
  <2>1. s \in Seq(ArgCallbacks) /\ InOrder(s)  BY DEF Listed
  <2>2. Len(s) \in Nat /\ DOMAIN s = 1..Len(s) /\ \A i \in 1..Len(s) : s[i] \in ArgCallbacks
    BY <2>1
  <2>3. \A x \in ArgCallbacks : x.arg \in Nat  BY DEF ArgCallbacks
  <2> QED  BY <2>1, <2>2, <2>3 DEF InOrder
<1>2. T \in SUBSET Nat /\ T # {} /\ \A n \in T : n <= Len(s)  BY <1>1
<1>3. p \in T /\ \A n \in T : n <= p
  <2> HIDE DEF T
  <2> QED  BY <1>1, <1>2, GreatestNumber
<1>4. Inserted(s, c) = InsertAt(s, 1 + p, c)  BY DEF Inserted
<1> HIDE DEF p
<1>5. p \in 0..Len(s)  BY <1>1, <1>2, <1>3
<1>6. \A i \in 1..Len(s) : s[i].arg <= c.arg <=> i <= p
  <2> SUFFICES ASSUME NEW i \in 1..Len(s) PROVE s[i].arg <= c.arg <=> i <= p  OBVIOUS
  <2>1. ASSUME s[i].arg <= c.arg  PROVE i <= p
    <3>1. i \in T  BY <1>1, <2>1
    <3> QED  BY <1>3, <3>1
  <2>2. ASSUME i <= p  PROVE s[i].arg <= c.arg
    <3>1. p # 0 /\ p \in DOMAIN s /\ s[p].arg <= c.arg  BY <1>3, <1>5, <2>2
    <3>2. s[i].arg <= s[p].arg /\ s[i].arg \in Nat /\ s[p].arg \in Nat  BY <1>1, <2>2, <3>1
    <3> QED  BY <1>1, <3>1, <3>2
  <2> QED  BY <2>1, <2>2
<1> HIDE DEF T
<1> DEFINE before == SubSeq(s, 1, p)
           after == SubSeq(s, p + 1, Len(s))
<1>7. InsertAt(s, 1 + p, c) = before \o <<c>> \o after
  <2>1. (1 + p) - 1 = p /\ 1 + p = p + 1  BY <1>5
  <2> QED  BY <2>1 DEF InsertAt
<1>8. /\ before \in Seq(ArgCallbacks) /\ Len(before) = p
      /\ \A i \in 1..p : before[i] = s[i]
  BY <1>1, <1>5
<1>9. /\ after \in Seq(ArgCallbacks) /\ Len(after) = Len(s) - p
      /\ \A i \in 1..Len(s) - p : after[i] = s[i + p]
  BY <1>1, <1>5, RestOfList
<1> HIDE DEF before, after
<1>10. /\ before \o <<c>> \in Seq(ArgCallbacks) /\ Len(before \o <<c>>) = p + 1
       /\ \A i \in 1..p + 1 : (before \o <<c>>)[i] = IF i <= p THEN s[i] ELSE c
  BY <1>5, <1>8
<1> DEFINE front == before \o <<c>>
<1> HIDE DEF front
<1>11. /\ front \in Seq(ArgCallbacks) /\ Len(front) = p + 1
       /\ \A i \in 1..p + 1 : front[i] = IF i <= p THEN s[i] ELSE c
  BY <1>10 DEF front
<1>12. /\ front \o after \in Seq(ArgCallbacks)
       /\ Len(front \o after) = (p + 1) + (Len(s) - p)
       /\ \A i \in 1..p + 1 : (front \o after)[i] = front[i]
       /\ \A i \in p + 2..Len(s) + 1 : (front \o after)[i] = after[i - (p + 1)]
  <2> DEFINE whole == front \o after
  <2>1. /\ whole \in Seq(ArgCallbacks)
        /\ Len(whole) = (p + 1) + (Len(s) - p)
        /\ \A i \in 1..(p + 1) + (Len(s) - p) :
             whole[i] = IF i <= p + 1 THEN front[i] ELSE after[i - (p + 1)]
    BY <1>9, <1>11, ConcatProperties
  <2> HIDE DEF whole
  <2>2. /\ \A i \in 1..p + 1 : i \in 1..(p + 1) + (Len(s) - p) /\ i <= p + 1
        /\ \A i \in p + 2..Len(s) + 1 : i \in 1..(p + 1) + (Len(s) - p) /\ ~(i <= p + 1)
    BY <1>1, <1>5
  <2>3. /\ \A i \in 1..p + 1 : whole[i] = front[i]
        /\ \A i \in p + 2..Len(s) + 1 : whole[i] = after[i - (p + 1)]
    BY <2>1, <2>2
  <2> QED  BY <2>1, <2>3 DEF whole
<1>13. ASSUME NEW i \in p + 2..Len(s) + 1  PROVE after[i - (p + 1)] = s[i - 1]
  <2>1. i - (p + 1) \in 1..Len(s) - p /\ (i - (p + 1)) + p = i - 1  BY <1>1, <1>5
  <2> QED  BY <1>9, <2>1
<1>14. Inserted(s, c) = front \o after  BY <1>4, <1>7 DEF front
<1> HIDE DEF p
<1>15. (p + 1) + (Len(s) - p) = Len(s) + 1  BY <1>1, <1>5
<1>16. ASSUME NEW i \in 1..Len(s) + 1
       PROVE  (front \o after)[i] = IF i <= p THEN s[i] ELSE IF i = p + 1 THEN c ELSE s[i - 1]
  <2>1. CASE i <= p + 1
    <3>1. i \in 1..p + 1  BY <1>5, <2>1
    <3>2. i <= p \/ i = p + 1  BY <1>5, <2>1
    <3> QED  BY <1>5, <1>11, <1>12, <3>1, <3>2
  <2>2. CASE ~(i <= p + 1)
    <3>1. i \in p + 2..Len(s) + 1 /\ ~(i <= p) /\ i # p + 1  BY <1>1, <1>5, <2>2
    <3> QED  BY <1>12, <1>13, <3>1
  <2> QED  BY <2>1, <2>2
<1> QED  BY <1>5, <1>6, <1>12, <1>14, <1>15, <1>16

\* Putting a callback in keeps a list in order.
LEMMA InsertedListed ==
  ASSUME NEW s, Listed(s), NEW c \in ArgCallbacks, c \notin Range(s)
  PROVE  Listed(Inserted(s, c)) /\ Range(Inserted(s, c)) = Range(s) \cup {c}
<1> DEFINE t == Inserted(s, c)
           n == Len(s)
<1>1. /\ s \in Seq(ArgCallbacks) /\ n \in Nat /\ DOMAIN s = 1..n
      /\ \A i \in 1..n : s[i] \in ArgCallbacks /\ s[i].arg \in Nat /\ s[i] # c
      /\ \A i, j \in 1..n : s[i] = s[j] => i = j
      /\ \A i, j \in 1..n : i <= j => s[i].arg <= s[j].arg
      /\ c.arg \in Nat
  <2>1. s \in Seq(ArgCallbacks) /\ IsInjective(s) /\ InOrder(s)  BY DEF Listed
  <2>2. Len(s) \in Nat /\ DOMAIN s = 1..Len(s) /\ \A i \in 1..Len(s) : s[i] \in ArgCallbacks
    BY <2>1
  <2>3. \A x \in ArgCallbacks : x.arg \in Nat  BY DEF ArgCallbacks
  <2> QED  BY <2>1, <2>2, <2>3 DEF InOrder, IsInjective, Range
<1>2. PICK p \in 0..n :
        /\ \A i \in 1..n : s[i].arg <= c.arg <=> i <= p
        /\ t \in Seq(ArgCallbacks) /\ Len(t) = n + 1
        /\ \A i \in 1..n + 1 :
             t[i] = IF i <= p THEN s[i] ELSE IF i = p + 1 THEN c ELSE s[i - 1]
  BY InsertedIs
<1> HIDE DEF t, n
<1>3. DOMAIN t = 1..n + 1  BY <1>1, <1>2
\* Where the callbacks of t were in s
<1> DEFINE from(i) == IF i <= p THEN i ELSE i - 1
<1>4. ASSUME NEW i \in 1..n + 1, i # p + 1
      PROVE  from(i) \in 1..n /\ t[i] = s[from(i)] /\ (from(i) <= p <=> i <= p)
  <2>1. CASE i <= p
    <3>1. i \in 1..n  BY <1>1, <2>1
    <3> QED  BY <1>2, <2>1, <3>1
  <2>2. CASE ~(i <= p)
    <3>1. i - 1 \in 1..n /\ ~(i - 1 <= p)  BY <1>1, <1>4, <2>2
    <3> QED  BY <1>2, <1>4, <2>2, <3>1
  <2> QED  BY <2>1, <2>2
<1>5. p + 1 \in 1..n + 1 /\ t[p + 1] = c
  <2>1. p + 1 \in 1..n + 1 /\ ~(p + 1 <= p)  BY <1>1
  <2> QED  BY <1>2, <2>1
<1>6. \A i, j \in 1..n + 1 : i # p + 1 /\ j # p + 1 =>
        /\ from(i) = from(j) => i = j
        /\ i <= j => from(i) <= from(j)
  BY <1>1
<1> HIDE DEF from
<1>7. IsInjective(t)
  <2> SUFFICES ASSUME NEW i \in 1..n + 1, NEW j \in 1..n + 1, t[i] = t[j] PROVE i = j
    BY <1>3 DEF IsInjective
  <2>1. CASE i = p + 1 /\ j # p + 1  BY <1>1, <1>4, <1>5, <2>1
  <2>2. CASE j = p + 1 /\ i # p + 1  BY <1>1, <1>4, <1>5, <2>2
  <2>3. CASE i # p + 1 /\ j # p + 1
    <3>1. from(i) = from(j)  BY <1>1, <1>4, <2>3
    <3> QED  BY <1>6, <2>3, <3>1
  <2> QED  BY <2>1, <2>2, <2>3
<1>8. InOrder(t)
  <2> SUFFICES ASSUME NEW i \in 1..n + 1, NEW j \in 1..n + 1, i <= j
               PROVE  t[i].arg <= t[j].arg
    BY <1>3 DEF InOrder
  <2>1. CASE i = p + 1 /\ j = p + 1  BY <1>1, <1>5, <2>1
  <2>2. CASE i = p + 1 /\ j # p + 1
    <3>1. ~(j <= p)  BY <2>2
    <3>2. from(j) \in 1..n /\ t[j] = s[from(j)] /\ ~(from(j) <= p)  BY <1>4, <2>2, <3>1
    <3>3. ~(s[from(j)].arg <= c.arg) /\ s[from(j)].arg \in Nat  BY <1>1, <1>2, <3>2
    <3> QED  BY <1>1, <1>5, <2>2, <3>2, <3>3
  <2>3. CASE i # p + 1 /\ j = p + 1
    <3>1. i <= p  BY <2>3
    <3>2. from(i) \in 1..n /\ t[i] = s[from(i)] /\ from(i) <= p  BY <1>4, <2>3, <3>1
    <3> QED  BY <1>2, <1>5, <2>3, <3>2
  <2>4. CASE i # p + 1 /\ j # p + 1
    <3>1. from(i) \in 1..n /\ t[i] = s[from(i)]  BY <1>4, <2>4
    <3>2. from(j) \in 1..n /\ t[j] = s[from(j)]  BY <1>4, <2>4
    <3>3. from(i) <= from(j)  BY <1>6, <2>4
    <3> QED  BY <1>1, <3>1, <3>2, <3>3
  <2> QED  BY <2>1, <2>2, <2>3, <2>4
<1>9. Range(t) = Range(s) \cup {c}
  <2>1. Range(t) = {t[i] : i \in 1..n + 1} /\ Range(s) = {s[i] : i \in 1..n}
    BY <1>1, <1>3 DEF Range
  <2>2. ASSUME NEW i \in 1..n + 1  PROVE t[i] \in Range(s) \cup {c}
    <3>1. CASE i = p + 1  BY <1>5, <3>1
    <3>2. CASE i # p + 1  BY <1>4, <2>1, <3>2
    <3> QED  BY <3>1, <3>2
  <2>3. ASSUME NEW i \in 1..n  PROVE s[i] \in Range(t)
    <3>1. CASE i <= p
      <4>1. i \in 1..n + 1  BY <1>1
      <4>2. t[i] = s[i]  BY <1>2, <3>1, <4>1
      <4> QED  BY <2>1, <4>1, <4>2
    <3>2. CASE ~(i <= p)
      <4>1. i + 1 \in 1..n + 1 /\ ~(i + 1 <= p) /\ i + 1 # p + 1 /\ (i + 1) - 1 = i
        BY <1>1, <3>2
      <4>2. t[i + 1] = s[i]  BY <1>2, <4>1
      <4> QED  BY <2>1, <4>1, <4>2
    <3> QED  BY <3>1, <3>2
  <2>4. c \in Range(t)  BY <1>5, <2>1
  <2> QED  BY <2>1, <2>2, <2>3, <2>4
<1> QED  BY <1>2, <1>7, <1>8, <1>9 DEF Listed, t

\* Taking one out, too
LEMMA RemovedListed ==
  ASSUME NEW s, Listed(s), NEW k \in DOMAIN s
  PROVE  /\ Listed(RemoveAt(s, k)) /\ Range(RemoveAt(s, k)) = Range(s) \ {s[k]}
         /\ RemoveAt(s, k) # <<>> => s # <<>>
<1> DEFINE t == RemoveAt(s, k)
           n == Len(s)
           before == SubSeq(s, 1, k - 1)
           after == SubSeq(s, k + 1, n)
<1>1. /\ s \in Seq(ArgCallbacks) /\ n \in Nat /\ DOMAIN s = 1..n /\ k \in 1..n
      /\ \A i \in 1..n : s[i] \in ArgCallbacks
      /\ \A i, j \in 1..n : s[i] = s[j] => i = j
      /\ \A i, j \in 1..n : i <= j => s[i].arg <= s[j].arg
  <2>1. s \in Seq(ArgCallbacks) /\ IsInjective(s) /\ InOrder(s)  BY DEF Listed
  <2>2. Len(s) \in Nat /\ DOMAIN s = 1..Len(s) /\ \A i \in 1..Len(s) : s[i] \in ArgCallbacks
    BY <2>1
  <2> QED  BY <2>1, <2>2 DEF InOrder, IsInjective
<1>2. t = before \o after  BY DEF RemoveAt
<1>3. s # <<>>  BY <1>1
<1> HIDE DEF t
<1>4. /\ k - 1 \in Nat /\ n - k \in Nat /\ k + 1 \in Int /\ k \in Nat
      /\ (k - 1) + (n - k) = n - 1
  <2> HIDE DEF n
  <2> QED  BY <1>1
<1>5. /\ before \in Seq(ArgCallbacks) /\ Len(before) = k - 1
      /\ \A i \in 1..k - 1 : before[i] = s[i]
  BY <1>1
<1>6. /\ after \in Seq(ArgCallbacks) /\ Len(after) = n - k
      /\ \A i \in 1..n - k : after[i] = s[i + k]
  <2>1. k \in 0..Len(s)  BY <1>1
  <2> QED  BY <1>1, <2>1, RestOfList
<1> HIDE DEF before, after, n
<1>7. /\ t \in Seq(ArgCallbacks) /\ Len(t) = n - 1
      /\ \A i \in 1..n - 1 : t[i] = IF i <= k - 1 THEN before[i] ELSE after[i - (k - 1)]
  <2>1. /\ t \in Seq(ArgCallbacks) /\ Len(t) = Len(before) + Len(after)
        /\ \A i \in 1..Len(before) + Len(after) :
             t[i] = IF i <= Len(before) THEN before[i] ELSE after[i - Len(before)]
    BY <1>2, <1>5, <1>6, ConcatProperties
  <2>2. Len(before) + Len(after) = n - 1  BY <1>4, <1>5, <1>6
  <2> QED  BY <1>5, <2>1, <2>2
\* Where the callbacks of t were in s
<1> DEFINE from(i) == IF i < k THEN i ELSE i + 1
<1>8. ASSUME NEW i \in 1..n - 1
      PROVE  from(i) \in 1..n /\ from(i) # k /\ t[i] = s[from(i)]
  <2>1. CASE i < k
    <3>1. i <= k - 1 /\ i \in 1..k - 1 /\ i \in 1..n /\ i # k  BY <1>1, <2>1
    <3> QED  BY <1>5, <1>7, <2>1, <3>1
  <2>2. CASE ~(i < k)
    <3>1. /\ ~(i <= k - 1) /\ i - (k - 1) \in 1..n - k /\ (i - (k - 1)) + k = i + 1
          /\ i + 1 \in 1..n /\ i + 1 # k
      BY <1>1, <2>2
    <3> QED  BY <1>6, <1>7, <2>2, <3>1
  <2> QED  BY <2>1, <2>2
<1>9. \A i, j \in 1..n - 1 : (from(i) = from(j) => i = j) /\ (i <= j => from(i) <= from(j))
  BY <1>1
<1>10. \A j \in 1..n : j # k => \E i \in 1..n - 1 : from(i) = j
  <2> SUFFICES ASSUME NEW j \in 1..n, j # k PROVE \E i \in 1..n - 1 : from(i) = j  OBVIOUS
  <2>1. CASE j < k
    <3>1. j \in 1..n - 1  BY <1>1, <2>1
    <3> QED  BY <2>1, <3>1
  <2>2. CASE ~(j < k)
    <3>1. j - 1 \in 1..n - 1 /\ ~(j - 1 < k) /\ (j - 1) + 1 = j  BY <1>1, <2>2
    <3> QED  BY <3>1
  <2> QED  BY <2>1, <2>2
<1> HIDE DEF from
<1>11. DOMAIN t = 1..n - 1  BY <1>7
<1>12. IsInjective(t)  BY <1>1, <1>8, <1>9, <1>11 DEF IsInjective
<1>13. InOrder(t)  BY <1>1, <1>8, <1>9, <1>11 DEF InOrder
<1>14. Range(t) = Range(s) \ {s[k]}
  <2>1. Range(t) = {t[i] : i \in 1..n - 1} /\ Range(s) = {s[i] : i \in 1..n}
    BY <1>1, <1>11 DEF Range
  <2>2. ASSUME NEW i \in 1..n - 1  PROVE t[i] \in Range(s) \ {s[k]}
    BY <1>1, <1>8, <2>1
  <2>3. ASSUME NEW j \in 1..n, s[j] # s[k]  PROVE s[j] \in Range(t)
    <3>1. PICK i \in 1..n - 1 : from(i) = j  BY <1>10, <2>3
    <3> QED  BY <1>8, <2>1, <3>1
  <2> QED  BY <2>1, <2>2, <2>3
<1> QED  BY <1>3, <1>7, <1>12, <1>13, <1>14 DEF Listed, t

\* The callbacks from k on that have the time of the first of them are next
\* to one another, and are counted.
LEMMA SameTime ==
  ASSUME NEW s, Listed(s), NEW k \in Nat, k < Len(s), NEW time, s[k + 1].arg = time
  PROVE  LET next == Cardinality({i \in k + 1..Len(s) : s[i].arg = time}) IN
         /\ next \in Nat /\ k + next <= Len(s)
         /\ \A i \in k + 1..k + next : s[i].arg = time
         /\ \A i \in k + next + 1..Len(s) : s[i].arg > time
<1> DEFINE n == Len(s)
           T == {i \in k + 1..n : s[i].arg = time}
<1>1. /\ n \in Nat /\ k \in Nat /\ k < n /\ time \in Nat
      /\ \A i \in 1..n : s[i].arg \in Nat
      /\ \A i, j \in 1..n : i <= j => s[i].arg <= s[j].arg
  <2>1. s \in Seq(ArgCallbacks) /\ InOrder(s)  BY DEF Listed
  <2>2. Len(s) \in Nat /\ DOMAIN s = 1..Len(s) /\ \A i \in 1..Len(s) : s[i] \in ArgCallbacks
    BY <2>1
  <2>3. \A x \in ArgCallbacks : x.arg \in Nat  BY DEF ArgCallbacks
  <2>4. k + 1 \in 1..Len(s)  BY <2>2
  <2>5. time \in Nat  BY <2>2, <2>3, <2>4
  <2> QED  BY <2>1, <2>2, <2>3, <2>5 DEF InOrder
<1> HIDE DEF n
<1>2. T \in SUBSET Nat /\ T # {} /\ \A i \in T : i <= n
  <2>1. k + 1 \in T  BY <1>1
  <2> QED  BY <1>1, <2>1
<1>3. PICK m \in T : \A i \in T : i <= m
  <2> HIDE DEF T
  <2> QED  BY <1>1, <1>2, GreatestNumber
<1>4. m \in k + 1..n /\ s[m].arg = time  BY <1>3
<1>5. ASSUME NEW i \in k + 1..m  PROVE i \in T
  <2>1. i \in 1..n /\ k + 1 \in 1..n /\ m \in 1..n /\ k + 1 <= i /\ i <= m  BY <1>1, <1>4
  <2>2. s[k + 1].arg <= s[i].arg /\ s[i].arg <= s[m].arg /\ s[i].arg \in Nat  BY <1>1, <2>1
  <2>3. s[i].arg = time  BY <1>1, <1>4, <2>2
  <2> QED  BY <1>4, <2>1, <2>3
<1>6. T = k + 1..m
  <2>1. \A i \in T : i \in k + 1..m  BY <1>1, <1>3, <1>4
  <2> HIDE DEF T
  <2> QED  BY <1>5, <2>1
<1>7. Cardinality(T) = m - k
  <2>1. k + 1 \in Int /\ m \in Int /\ ~(k + 1 > m) /\ m - (k + 1) + 1 = m - k  BY <1>1, <1>4
  <2> HIDE DEF T
  <2> QED  BY <1>6, <2>1, FS_Interval
<1>8. m - k \in Nat /\ k + (m - k) = m /\ m <= n  BY <1>1, <1>4
<1>9. ASSUME NEW i \in m + 1..n  PROVE s[i].arg > time
  <2>1. i \in 1..n /\ m \in 1..n /\ m <= i /\ i \in k + 1..n /\ ~(i <= m)  BY <1>1, <1>4
  <2>2. s[m].arg <= s[i].arg /\ s[i].arg \in Nat  BY <1>1, <2>1
  <2>3. s[i].arg # time  BY <1>3, <2>1
  <2> QED  BY <1>1, <1>4, <2>2, <2>3
<1>10. \A i \in k + 1..m : s[i].arg = time  BY <1>5
<1> DEFINE next == Cardinality(T)
<1>11. next \in Nat /\ k + next = m  BY <1>7, <1>8
<1>12. /\ next \in Nat /\ k + next <= n
       /\ \A i \in k + 1..k + next : s[i].arg = time
       /\ \A i \in k + next + 1..n : s[i].arg > time
  BY <1>8, <1>9, <1>10, <1>11
<1> QED  BY <1>12 DEF n

\* The types: the lists, and what is wanted; no press is long before the
\* time of a callback.
CallbackLists ==
  /\ cb_info \in [ArgEvents -> Seq(ArgCallbacks)]
  /\ \A e \in ArgEvents : Listed(cb_info[e]) /\ Range(cb_info[e]) = wanted[e]
  /\ wanted \in [ArgEvents -> SUBSET ArgCallbacks]
  /\ long_ticks \in Nat \ {0}
  /\ \A c \in wanted["LONG_PRESS_START"] : c.arg >= long_ticks

\* The count starts at the first callback.
CountStarts ==
  /\ count \in Nat
  /\ phase \in {"released", "press up?"} /\ LongPresses # <<>> => count = 0

\* During a press, those up to the count have been called, about in time;
\* those that follow are still to come.
CalledSoFar ==
  /\ count <= Len(LongPresses)
  /\ called = SubSeq(LongPresses, 1, count)
  /\ \A i \in 1..count : LongPresses[i].arg - Tolerance <= ticks
  /\ \A i \in count + 1..Len(LongPresses) : LongPresses[i].arg > ticks

PressUnderWay ==
  /\ phase \in {"released", "press up?", "long press up?"}
  /\ ticks \in Nat
  /\ phase = "press up?" => called = <<>>
  /\ phase = "press up?" /\ steady => ticks < long_ticks
  /\ phase = "long press up?" /\ steady =>
       IF LongPresses = <<>> THEN called = <<>> ELSE CalledSoFar

CallbackInv == CallbackLists /\ CountStarts /\ PressUnderWay

LEMMA CallbacksInitial == CallbacksInit => CallbackInv
<1> SUFFICES ASSUME CallbacksInit PROVE CallbackInv  OBVIOUS
<1> USE DEF CallbacksInit
<1>1. \A e \in ArgEvents : cb_info[e] = <<>> /\ wanted[e] = {}  OBVIOUS
<1>2. Listed(<<>>) /\ Range(<<>>) = {}  BY DEF Listed, IsInjective, InOrder, Range
<1>3. CallbackLists
  <2>1. <<>> \in Seq(ArgCallbacks)  OBVIOUS
  <2>2. "LONG_PRESS_START" \in ArgEvents  BY DEF ArgEvents
  <2>3. wanted["LONG_PRESS_START"] = {}  BY <1>1, <2>2
  <2> QED  BY <1>1, <1>2, <2>1, <2>3, CallbacksAssumption DEF CallbackLists
<1>4. CountStarts  BY DEF CountStarts
<1>5. PressUnderWay  BY DEF PressUnderWay
<1> QED  BY <1>3, <1>4, <1>5 DEF CallbackInv

LEMMA CallbacksUnchanged == CallbackInv /\ UNCHANGED callbackVars => CallbackInv'
<1> SUFFICES ASSUME CallbackInv, UNCHANGED callbackVars PROVE CallbackInv'  OBVIOUS
<1> USE DEF CallbackInv, callbackVars
<1>1. LongPresses' = LongPresses  BY DEF LongPresses
<1>2. CallbackLists'  BY DEF CallbackLists
<1>3. CountStarts'  BY <1>1 DEF CountStarts
<1>4. CalledSoFar' = CalledSoFar  BY <1>1 DEF CalledSoFar
<1>5. PressUnderWay'  BY <1>1, <1>4 DEF PressUnderWay
<1> QED  BY <1>2, <1>3, <1>5

\* A change of the lists makes the press unsteady.
LEMMA ChangedPress ==
  ASSUME CallbackInv, steady' = FALSE, UNCHANGED <<phase, ticks, called>>
  PROVE  PressUnderWay'
  BY DEF CallbackInv, PressUnderWay

LEMMA CallbackRegistered ==
  ASSUME CallbackInv, NEW event \in ArgEvents, NEW f \in Callees, NEW args \in Nat,
         RegisterCb(event, args, f), event = "LONG_PRESS_START" => args \in PressTimes \cup {0}
  PROVE  CallbackInv'
<1> DEFINE arg == IF args = 0 THEN long_ticks ELSE args
           c == [arg |-> arg, f |-> f]
           s == cb_info[event]
<1>1. CallbackLists /\ CountStarts  BY DEF CallbackInv
<1>2. /\ c \notin wanted[event]
      /\ cb_info' = [cb_info EXCEPT ![event] = Inserted(s, c)]
      /\ wanted' = [wanted EXCEPT ![event] = @ \cup {c}]
      /\ count' = IF event = "LONG_PRESS_START" /\ s = <<>> THEN 0 ELSE count
      /\ long_ticks' = IF event = "LONG_PRESS_START" /\ arg < long_ticks THEN arg ELSE long_ticks
      /\ steady' = FALSE
      /\ UNCHANGED <<phase, ticks, called>>
  BY DEF RegisterCb
<1>3. arg \in Nat /\ (event = "LONG_PRESS_START" => arg # 0)
  <2>1. long_ticks \in Nat /\ long_ticks # 0  BY <1>1 DEF CallbackLists
  <2>2. event = "LONG_PRESS_START" /\ args # 0 => args \in PressTimes  OBVIOUS
  <2> QED  BY <2>1, <2>2
<1>4. c \in ArgCallbacks /\ c.arg = arg  BY <1>3 DEF ArgCallbacks
<1> HIDE DEF arg, c
<1>5. Listed(s) /\ Range(s) = wanted[event]  BY <1>1 DEF CallbackLists
<1> HIDE DEF s
<1>6. Listed(Inserted(s, c)) /\ Range(Inserted(s, c)) = wanted[event] \cup {c}
  BY <1>2, <1>4, <1>5, InsertedListed
<1>7. \A e \in ArgEvents : /\ cb_info'[e] = IF e = event THEN Inserted(s, c) ELSE cb_info[e]
                           /\ wanted'[e] = IF e = event THEN wanted[event] \cup {c} ELSE wanted[e]
  BY <1>1, <1>2 DEF CallbackLists
<1>8. long_ticks' \in Nat \ {0} /\ long_ticks' <= long_ticks
      /\ (event = "LONG_PRESS_START" => long_ticks' <= arg)
  <2>1. long_ticks \in Nat \ {0}  BY <1>1 DEF CallbackLists
  <2> QED  BY <1>2, <1>3, <2>1
<1>9. CallbackLists'
  <2>1. \A e \in ArgEvents : Listed(cb_info'[e]) /\ Range(cb_info'[e]) = wanted'[e]
    BY <1>1, <1>6, <1>7 DEF CallbackLists
  <2>2. cb_info' \in [ArgEvents -> Seq(ArgCallbacks)]
    <3>1. Inserted(s, c) \in Seq(ArgCallbacks)  BY <1>6 DEF Listed
    <3> QED  BY <1>1, <1>2, <3>1 DEF CallbackLists
  <2>3. wanted' \in [ArgEvents -> SUBSET ArgCallbacks]
    <3>1. wanted[event] \cup {c} \in SUBSET ArgCallbacks  BY <1>1, <1>4 DEF CallbackLists
    <3> QED  BY <1>1, <1>2, <3>1 DEF CallbackLists
  <2>4. ASSUME NEW x \in wanted'["LONG_PRESS_START"]  PROVE x.arg >= long_ticks'
    <3>1. "LONG_PRESS_START" \in ArgEvents  BY DEF ArgEvents
    <3>2. x \in ArgCallbacks /\ x.arg \in Nat  BY <2>3, <3>1 DEF ArgCallbacks
    <3>3. CASE x \in wanted["LONG_PRESS_START"]
      <4>1. x.arg >= long_ticks /\ long_ticks \in Nat  BY <1>1, <3>3 DEF CallbackLists
      <4> QED  BY <1>8, <3>2, <4>1
    <3>4. CASE x \notin wanted["LONG_PRESS_START"]
      <4>1. x = c /\ event = "LONG_PRESS_START"  BY <1>7, <3>1, <3>4
      <4> QED  BY <1>3, <1>4, <1>8, <4>1
    <3> QED  BY <3>3, <3>4
  <2> QED  BY <1>8, <2>1, <2>2, <2>3, <2>4 DEF CallbackLists
<1>10. CountStarts'
  <2>1. count' \in Nat
    <3>1. count \in Nat  BY <1>1 DEF CountStarts
    <3> QED  BY <1>2, <3>1
  <2>2. ASSUME phase \in {"released", "press up?"}, LongPresses' # <<>>  PROVE count' = 0
    <3>1. CASE event = "LONG_PRESS_START" /\ s = <<>>  BY <1>2, <3>1
    <3>2. CASE event = "LONG_PRESS_START" /\ s # <<>>
      <4>1. LongPresses # <<>>  BY <3>2 DEF LongPresses, s
      <4> QED  BY <1>1, <1>2, <2>2, <3>2, <4>1 DEF CountStarts
    <3>3. CASE event # "LONG_PRESS_START"
      <4>1. LongPresses' = LongPresses  BY <1>7, <3>3 DEF LongPresses, ArgEvents
      <4> QED  BY <1>1, <1>2, <2>2, <3>3, <4>1 DEF CountStarts
    <3> QED  BY <3>1, <3>2, <3>3
  <2> QED  BY <1>2, <2>1, <2>2 DEF CountStarts
<1> QED  BY <1>2, <1>9, <1>10, ChangedPress DEF CallbackInv

LEMMA CallbackUnregistered ==
  ASSUME CallbackInv, NEW event \in ArgEvents, NEW args, UnregisterCb(event, args)
  PROVE  CallbackInv'
<1> DEFINE s == cb_info[event]
<1>1. CallbackLists /\ CountStarts  BY DEF CallbackInv
<1>2. steady' = FALSE /\ UNCHANGED <<long_ticks, phase, ticks, called>>  BY DEF UnregisterCb
<1>3. PICK t, gone : /\ Listed(t) /\ Range(t) = wanted[event] \ gone
                     /\ t # <<>> => s # <<>> /\ count' = count
                     /\ count' \in {0, count}
                     /\ cb_info' = [cb_info EXCEPT ![event] = t]
                     /\ wanted' = [wanted EXCEPT ![event] = @ \ gone]
                     /\ event # "LONG_PRESS_START" => count' = count
  <2>1. Listed(s) /\ Range(s) = wanted[event]  BY <1>1 DEF CallbackLists
  <2>2. CASE /\ cb_info' = [cb_info EXCEPT ![event] = <<>>]
             /\ wanted' = [wanted EXCEPT ![event] = {}]
             /\ count' = IF event = "LONG_PRESS_START" THEN 0 ELSE count
    <3>1. Listed(<<>>) /\ Range(<<>>) = wanted[event] \ wanted[event]
      BY DEF Listed, IsInjective, InOrder, Range
    <3>2. wanted' = [wanted EXCEPT ![event] = @ \ wanted[event]]  BY <2>2
    <3> QED  BY <2>2, <3>1, <3>2
  <2>3. CASE /\ \E i \in DOMAIN s : /\ cb_info' = [cb_info EXCEPT ![event] = RemoveAt(@, i)]
                                    /\ wanted' = [wanted EXCEPT ![event] = @ \ {s[i]}]
             /\ count' = count
    <3>1. PICK i \in DOMAIN s : /\ cb_info' = [cb_info EXCEPT ![event] = RemoveAt(s, i)]
                                /\ wanted' = [wanted EXCEPT ![event] = @ \ {s[i]}]
      BY <2>3
    <3> HIDE DEF s
    <3>2. /\ Listed(RemoveAt(s, i)) /\ Range(RemoveAt(s, i)) = Range(s) \ {s[i]}
          /\ RemoveAt(s, i) # <<>> => s # <<>>
      BY <2>1, RemovedListed
    <3> QED  BY <2>1, <2>3, <3>1, <3>2
  <2> QED  BY <2>2, <2>3 DEF UnregisterCb
<1>4. \A e \in ArgEvents : /\ cb_info'[e] = IF e = event THEN t ELSE cb_info[e]
                           /\ wanted'[e] = IF e = event THEN wanted[event] \ gone ELSE wanted[e]
  BY <1>1, <1>3 DEF CallbackLists
<1>5. CallbackLists'
  <2>1. \A e \in ArgEvents : Listed(cb_info'[e]) /\ Range(cb_info'[e]) = wanted'[e]
    BY <1>1, <1>3, <1>4 DEF CallbackLists
  <2>2. cb_info' \in [ArgEvents -> Seq(ArgCallbacks)]
    <3>1. t \in Seq(ArgCallbacks)  BY <1>3 DEF Listed
    <3> QED  BY <1>1, <1>3, <3>1 DEF CallbackLists
  <2>3. wanted' \in [ArgEvents -> SUBSET ArgCallbacks]
    <3>1. wanted[event] \ gone \in SUBSET ArgCallbacks  BY <1>1 DEF CallbackLists
    <3> QED  BY <1>1, <1>3, <3>1 DEF CallbackLists
  <2>4. wanted'["LONG_PRESS_START"] \subseteq wanted["LONG_PRESS_START"]
    <3>1. "LONG_PRESS_START" \in ArgEvents  BY DEF ArgEvents
    <3> QED  BY <1>4, <3>1
  <2>5. long_ticks' = long_ticks  BY <1>2
  <2> QED  BY <1>1, <2>1, <2>2, <2>3, <2>4, <2>5 DEF CallbackLists
<1>6. CountStarts'
  <2>1. count' \in Nat
    <3>1. count \in Nat  BY <1>1 DEF CountStarts
    <3>2. count' = 0 \/ count' = count  BY <1>3
    <3> QED  BY <3>1, <3>2
  <2>2. LongPresses' # <<>> => LongPresses # <<>> /\ count' = count
    <3>1. "LONG_PRESS_START" \in ArgEvents  BY DEF ArgEvents
    <3> QED  BY <1>3, <1>4, <3>1 DEF LongPresses
  <2> QED  BY <1>1, <1>2, <2>1, <2>2 DEF CountStarts
<1> QED  BY <1>2, <1>5, <1>6, ChangedPress DEF CallbackInv

\* What is known of the list of long presses
LEMMA LongPressesKnown ==
  CallbackInv =>
    /\ Listed(LongPresses) /\ Range(LongPresses) = wanted["LONG_PRESS_START"]
    /\ LongPresses \in Seq(ArgCallbacks) /\ Len(LongPresses) \in Nat
    /\ DOMAIN LongPresses = 1..Len(LongPresses)
    /\ LongPresses # <<>> <=> Len(LongPresses) > 0
    /\ long_ticks \in Nat \ {0} /\ count \in Nat /\ ticks \in Nat
    /\ \A i \in 1..Len(LongPresses) :
         LongPresses[i].arg \in Nat /\ LongPresses[i].arg >= long_ticks
<1> SUFFICES ASSUME CallbackInv
             PROVE  /\ Listed(LongPresses) /\ Range(LongPresses) = wanted["LONG_PRESS_START"]
                    /\ LongPresses \in Seq(ArgCallbacks) /\ Len(LongPresses) \in Nat
                    /\ DOMAIN LongPresses = 1..Len(LongPresses)
                    /\ LongPresses # <<>> <=> Len(LongPresses) > 0
                    /\ long_ticks \in Nat \ {0} /\ count \in Nat /\ ticks \in Nat
                    /\ \A i \in 1..Len(LongPresses) :
                         LongPresses[i].arg \in Nat /\ LongPresses[i].arg >= long_ticks
  OBVIOUS
<1>1. "LONG_PRESS_START" \in ArgEvents  BY DEF ArgEvents
<1>2. Listed(LongPresses) /\ Range(LongPresses) = wanted["LONG_PRESS_START"]
  BY <1>1 DEF CallbackInv, CallbackLists, LongPresses
<1>3. LongPresses \in Seq(ArgCallbacks)  BY <1>2 DEF Listed
<1>4. /\ Len(LongPresses) \in Nat /\ DOMAIN LongPresses = 1..Len(LongPresses)
      /\ LongPresses # <<>> <=> Len(LongPresses) > 0
  BY <1>3
<1>5. long_ticks \in Nat \ {0} /\ count \in Nat /\ ticks \in Nat
  BY DEF CallbackInv, CallbackLists, CountStarts, PressUnderWay
<1>6. ASSUME NEW i \in 1..Len(LongPresses)
      PROVE  LongPresses[i].arg \in Nat /\ LongPresses[i].arg >= long_ticks
  <2>1. LongPresses[i] \in ArgCallbacks  BY <1>3
  <2>2. LongPresses[i] \in wanted["LONG_PRESS_START"]  BY <1>2, <1>4 DEF Range
  <2> QED  BY <2>1, <2>2 DEF ArgCallbacks, CallbackInv, CallbackLists
<1> QED  BY <1>2, <1>3, <1>4, <1>5, <1>6

\* Nothing is called at a list that stays: only the press goes on.
LEMMA ListsStay ==
  ASSUME CallbackInv, UNCHANGED <<cb_info, wanted, long_ticks>>
  PROVE  CallbackLists' /\ LongPresses' = LongPresses
  BY DEF CallbackInv, CallbackLists, LongPresses

LEMMA ButtonGoesDown == CallbackInv /\ GoesDown => CallbackInv'
<1> SUFFICES ASSUME CallbackInv, GoesDown PROVE CallbackInv'  OBVIOUS
<1>1. /\ phase = "released" /\ phase' = "press up?" /\ ticks' = 0 /\ called' = <<>>
      /\ UNCHANGED <<cb_info, wanted, long_ticks, count>>
  BY DEF GoesDown
<1>2. CallbackLists' /\ LongPresses' = LongPresses  BY <1>1, ListsStay
<1>3. CountStarts'  BY <1>1, <1>2 DEF CallbackInv, CountStarts
<1>4. 0 < long_ticks /\ ticks' \in Nat /\ ticks' < long_ticks'
  <2>1. long_ticks \in Nat \ {0}  BY LongPressesKnown
  <2>2. ticks' = 0 /\ long_ticks' = long_ticks  BY <1>1
  <2>3. 0 \in Nat /\ 0 < long_ticks  BY <2>1
  <2> QED  BY <2>2, <2>3
<1>5. PressUnderWay'  BY <1>1, <1>4 DEF PressUnderWay
<1> QED  BY <1>2, <1>3, <1>5 DEF CallbackInv

LEMMA ButtonGoesUp == CallbackInv /\ GoesUp => CallbackInv'
<1> SUFFICES ASSUME CallbackInv, GoesUp PROVE CallbackInv'  OBVIOUS
<1>1. /\ phase # "released" /\ phase' = "released" /\ ticks' = 0
      /\ count' = IF phase = "long press up?" /\ LongPresses # <<>> THEN 0 ELSE count
      /\ UNCHANGED <<cb_info, wanted, long_ticks>>
  BY DEF GoesUp
<1>2. CallbackLists' /\ LongPresses' = LongPresses  BY <1>1, ListsStay
<1>3. CountStarts'
  <2>1. count' \in Nat
    <3>1. count \in Nat  BY LongPressesKnown
    <3>2. count' = 0 \/ count' = count  BY <1>1
    <3> QED  BY <3>1, <3>2
  <2>2. LongPresses # <<>> => count' = 0
    <3>1. phase \in {"press up?", "long press up?"}  BY <1>1 DEF CallbackInv, PressUnderWay
    <3> QED  BY <1>1, <3>1 DEF CallbackInv, CountStarts
  <2> QED  BY <1>2, <2>1, <2>2 DEF CountStarts
<1>4. ticks' \in Nat  BY <1>1
<1>5. PressUnderWay'  BY <1>1, <1>4 DEF PressUnderWay
<1> QED  BY <1>2, <1>3, <1>5 DEF CallbackInv

LEMMA ButtonClicks ==
  ASSUME CallbackInv, NEW n, ClicksDone(n)
  PROVE  CallbackInv'
<1> USE DEF ClicksDone
<1>1. CallbackLists' /\ LongPresses' = LongPresses  BY ListsStay
<1>2. CountStarts'  BY <1>1 DEF CallbackInv, CountStarts
<1>3. PressUnderWay'  BY DEF CallbackInv, PressUnderWay
<1> QED  BY <1>1, <1>2, <1>3 DEF CallbackInv

\* A beginning of a list and the stretch that follows it
LEMMA StretchesJoin ==
  ASSUME NEW s \in Seq(ArgCallbacks), NEW k \in Nat, NEW n \in Nat, k + n <= Len(s)
  PROVE  SubSeq(s, 1, k) \o SubSeq(s, k + 1, k + n) = SubSeq(s, 1, k + n)
  OBVIOUS

\* The callbacks of one time are called: those before and those after are
\* where they were.
LEMMA CallsFrom ==
  ASSUME CallbackInv, NEW time, count < Len(LongPresses), LongPresses[count + 1].arg = time,
         CallFrom(time)
  PROVE  /\ count' \in Nat /\ count' <= Len(LongPresses) /\ count <= count'
         /\ called = SubSeq(LongPresses, 1, count) => called' = SubSeq(LongPresses, 1, count')
         /\ \A i \in count + 1..count' : LongPresses[i].arg = time
         /\ \A i \in count' + 1..Len(LongPresses) : LongPresses[i].arg > time
<1> DEFINE s == LongPresses
           next == Cardinality({i \in count + 1..Len(s) : s[i].arg = time})
<1>1. Listed(s) /\ count \in Nat /\ s \in Seq(ArgCallbacks) /\ Len(s) \in Nat
  BY LongPressesKnown
<1>2. count < Len(s) /\ s[count + 1].arg = time  OBVIOUS
<1>3. called' = called \o SubSeq(s, count + 1, count + next) /\ count' = count + next
  BY DEF CallFrom
<1>4. /\ next \in Nat /\ count + next <= Len(s)
      /\ \A i \in count + 1..count + next : s[i].arg = time
      /\ \A i \in count + next + 1..Len(s) : s[i].arg > time
  BY <1>1, <1>2, SameTime
<1> HIDE DEF next, s
<1>5. count' \in Nat /\ count' <= Len(s) /\ count <= count'
  <2>1. count \in Nat /\ next \in Nat /\ count + next <= Len(s) /\ count' = count + next
    BY <1>1, <1>3, <1>4, Zenon
  <2>2. count + next \in Nat /\ count <= count + next  BY <2>1
  <2> QED  BY <2>1, <2>2
<1>6. ASSUME called = SubSeq(s, 1, count)  PROVE called' = SubSeq(s, 1, count')
  <2>1. SubSeq(s, 1, count) \o SubSeq(s, count + 1, count + next) = SubSeq(s, 1, count + next)
    BY <1>1, <1>4, StretchesJoin
  <2> QED  BY <1>3, <1>6, <2>1
<1> QED  BY <1>3, <1>4, <1>5, <1>6 DEF s

LEMMA PressBecomesLong == CallbackInv /\ BecomesLong => CallbackInv'
<1> SUFFICES ASSUME CallbackInv, BecomesLong PROVE CallbackInv'  OBVIOUS
<1> DEFINE s == LongPresses
           short == ticks' < long_ticks
           now_long == s # <<>> /\ count = 0 /\ ticks' - long_ticks <= Tolerance
                         /\ s[1].arg = long_ticks
<1>1. /\ phase = "press up?" /\ ticks' = ticks + 1 /\ steady' = steady
      /\ short => phase' = phase /\ called' = called /\ count' = count
      /\ ~short => phase' = "long press up?"
      /\ ~short /\ now_long => CallFrom(long_ticks)
      /\ ~short /\ ~now_long => called' = called /\ count' = count
      /\ UNCHANGED <<cb_info, wanted, long_ticks>>
  BY DEF BecomesLong, NothingCalled
<1>2. /\ CallbackLists' /\ LongPresses' = LongPresses /\ long_ticks' = long_ticks
      /\ called = <<>> /\ (steady => ticks < long_ticks) /\ (s # <<>> => count = 0)
  BY <1>1, ListsStay DEF CallbackInv, PressUnderWay, CountStarts
<1>3. /\ s \in Seq(ArgCallbacks) /\ Len(s) \in Nat /\ (s # <<>> <=> Len(s) > 0)
      /\ count \in Nat /\ ticks \in Nat /\ long_ticks \in Nat /\ Tolerance \in Nat
      /\ \A i \in 1..Len(s) : s[i].arg \in Nat /\ s[i].arg >= long_ticks
      /\ InOrder(s) /\ DOMAIN s = 1..Len(s)
  BY LongPressesKnown, CallbacksAssumption DEF Listed
<1>4. /\ now_long => count = 0 /\ s[1].arg = long_ticks
      /\ ~now_long /\ s # <<>> /\ count = 0 /\ s[1].arg = long_ticks =>
           ~(ticks' - long_ticks <= Tolerance)
  OBVIOUS
<1> DEFINE nxt == ticks + 1
<1>5. ticks' = nxt /\ nxt \in Nat /\ (ticks < long_ticks /\ ~(nxt < long_ticks) => nxt = long_ticks)
  <2>1. ticks' = nxt  BY <1>1
  <2>2. nxt \in Nat /\ (ticks < long_ticks /\ ~(nxt < long_ticks) => nxt = long_ticks)  BY <1>3
  <2> QED  BY <2>1, <2>2
<1>6. short <=> nxt < long_ticks  BY <1>5, Zenon
<1> HIDE DEF s, nxt, now_long, short
<1>7. CASE short
  <2>1. CountStarts'  BY <1>1, <1>2, <1>7 DEF CallbackInv, CountStarts
  <2>2. PressUnderWay'  BY <1>1, <1>2, <1>5, <1>6, <1>7 DEF CallbackInv, PressUnderWay
  <2> QED  BY <1>2, <2>1, <2>2 DEF CallbackInv
<1>8. CASE ~short
  <2>1. phase' = "long press up?" /\ (steady => nxt = long_ticks)
    <3>1. phase' = "long press up?"  BY <1>1, <1>8, Zenon
    <3>2. ticks < long_ticks => nxt = long_ticks  BY <1>5, <1>6, <1>8
    <3> QED  BY <1>2, <3>1, <3>2
  <2>2. CASE s = <<>>
    <3>1. called' = <<>> /\ count' = count
      <4>1. ~now_long  BY <2>2 DEF now_long, s
      <4> QED  BY <1>1, <1>2, <1>8, <4>1, Zenon
    <3>2. CountStarts'  BY <1>3, <2>1, <3>1 DEF CountStarts
    <3>3. LongPresses' = <<>>  BY <1>2, <2>2 DEF s
    <3>4. PressUnderWay'  BY <1>5, <2>1, <3>1, <3>3 DEF PressUnderWay
    <3> QED  BY <1>2, <3>2, <3>4 DEF CallbackInv
  <2>3. ASSUME s # <<>>, count' \in Nat, nxt = long_ticks => CalledSoFar'
        PROVE  CallbackInv'
    <3>1. CountStarts'  BY <2>1, <2>3 DEF CountStarts
    <3>2. LongPresses' # <<>>  BY <1>2, <2>3 DEF s
    <3>3. steady' => CalledSoFar'  BY <1>1, <2>1, <2>3
    <3>4. PressUnderWay'  BY <1>5, <2>1, <3>2, <3>3 DEF PressUnderWay
    <3> QED  BY <1>2, <3>1, <3>4 DEF CallbackInv
  <2>4. CASE s # <<>> /\ now_long
    <3>1. count = 0 /\ CallFrom(long_ticks) /\ s[1].arg = long_ticks
      <4>1. CallFrom(long_ticks)  BY <1>1, <1>8, <2>4, Zenon
      <4>2. count = 0 /\ s[1].arg = long_ticks  BY <1>4, <2>4, Zenon
      <4> QED  BY <4>1, <4>2, Zenon
    <3>2. count < Len(s) /\ count + 1 = 1  BY <1>3, <2>4, <3>1
    <3>3. /\ count' \in Nat /\ count' <= Len(s)
          /\ called = SubSeq(s, 1, count) => called' = SubSeq(s, 1, count')
          /\ \A i \in count + 1..count' : s[i].arg = long_ticks
          /\ \A i \in count' + 1..Len(s) : s[i].arg > long_ticks
      <4>1. LongPresses[count + 1].arg = long_ticks /\ count < Len(LongPresses)
        BY <3>1, <3>2 DEF s
      <4> QED  BY <3>1, <4>1, CallsFrom DEF s
    <3>4. called' = SubSeq(s, 1, count')
      <4>1. SubSeq(s, 1, 0) = <<>>  BY <1>3
      <4> QED  BY <1>2, <3>1, <3>3, <4>1
    <3>5. ASSUME nxt = long_ticks  PROVE CalledSoFar'
      <4>1. \A i \in 1..count' : s[i].arg - Tolerance <= ticks'
        BY <1>3, <1>5, <3>2, <3>3, <3>5
      <4>2. \A i \in count' + 1..Len(s) : s[i].arg > ticks'  BY <1>5, <3>3, <3>5
      <4>3. LongPresses' = s  BY <1>2 DEF s
      <4> QED  BY <3>3, <3>4, <4>1, <4>2, <4>3 DEF CalledSoFar
    <3> QED  BY <2>3, <2>4, <3>3, <3>5
  <2>5. CASE s # <<>> /\ ~now_long
    <3>1. called' = <<>> /\ count' = 0 /\ count = 0
      BY <1>1, <1>2, <1>8, <2>5, Zenon
    <3>2. ASSUME nxt = long_ticks  PROVE CalledSoFar'
      <4>1. s[1].arg # long_ticks
        <5>1. ticks' - long_ticks <= Tolerance  BY <1>3, <1>5, <3>2
        <5> QED  BY <1>4, <2>5, <3>1, <5>1, Zenon
      <4>2. Len(s) > 0  BY <1>3, <2>5
      <4>3. ASSUME NEW i \in 1..Len(s)  PROVE s[i].arg > ticks'
        <5>1. 1 \in 1..Len(s) /\ 1 <= i  BY <1>3, <4>2
        <5>2. s[1].arg <= s[i].arg  BY <1>3, <5>1 DEF InOrder
        <5>3. s[1].arg >= long_ticks /\ s[1].arg \in Nat /\ s[i].arg \in Nat  BY <1>3, <5>1
        <5>4. ticks' = long_ticks  BY <1>5, <3>2
        <5> QED  BY <1>3, <4>1, <5>2, <5>3, <5>4
      <4>4. SubSeq(s, 1, 0) = <<>> /\ 1..0 = {} /\ 0 + 1 = 1 /\ 0 <= Len(s)  BY <1>3
      <4>5. LongPresses' = s  BY <1>2 DEF s
      <4> QED  BY <3>1, <4>3, <4>4, <4>5 DEF CalledSoFar
    <3>3. count' \in Nat  BY <3>1
    <3> QED  BY <2>3, <2>5, <3>2, <3>3
  <2> QED  BY <2>2, <2>4, <2>5
<1> QED  BY <1>7, <1>8

LEMMA PressStays == CallbackInv /\ StaysDown => CallbackInv'
<1> SUFFICES ASSUME CallbackInv, StaysDown PROVE CallbackInv'  OBVIOUS
<1> DEFINE s == LongPresses
           nxt == ticks + 1
           due == count < Len(s) /\ s[count + 1].arg - nxt \in -Tolerance..Tolerance
<1>1. /\ phase = "long press up?" /\ ticks' = nxt /\ steady' = steady /\ phase' = phase
      /\ due => CallFrom(s[count + 1].arg)
      /\ ~due => called' = called /\ count' = count
      /\ UNCHANGED <<cb_info, wanted, long_ticks>>
  <2>1. ticks' = nxt  BY DEF StaysDown
  <2> HIDE DEF nxt
  <2> QED  BY <2>1 DEF StaysDown, NothingCalled
<1>2. /\ CallbackLists' /\ LongPresses' = LongPresses
      /\ steady => IF s = <<>> THEN called = <<>> ELSE CalledSoFar
  BY <1>1, ListsStay DEF CallbackInv, PressUnderWay
<1>3. /\ s \in Seq(ArgCallbacks) /\ Len(s) \in Nat /\ (s # <<>> <=> Len(s) > 0)
      /\ count \in Nat /\ ticks \in Nat /\ Tolerance \in Nat
      /\ \A i \in 1..Len(s) : s[i].arg \in Nat
      /\ InOrder(s) /\ DOMAIN s = 1..Len(s)
  BY LongPressesKnown, CallbacksAssumption DEF Listed
<1>4. nxt \in Nat  BY <1>3
<1>5. /\ due => count < Len(s) /\ s[count + 1].arg \in Nat /\ s[count + 1].arg - nxt <= Tolerance
      /\ s = <<>> => ~due
      /\ count < Len(s) /\ s[count + 1].arg > ticks /\ ~due => s[count + 1].arg > nxt
  <2> DEFINE a == s[count + 1].arg
  <2>1. count < Len(s) => a \in Nat  BY <1>3
  <2>2. s = <<>> => ~(count < Len(s))  BY <1>3
  <2> HIDE DEF s, a
  <2> QED  BY <1>3, <1>4, <2>1, <2>2 DEF a
<1> HIDE DEF s, nxt, due
<1>6. ASSUME count' \in Nat, s # <<>>, CalledSoFar => CalledSoFar'
      PROVE  CallbackInv'
  <2>1. CountStarts'  BY <1>1, <1>6 DEF CountStarts
  <2>2. LongPresses' # <<>>  BY <1>2, <1>6 DEF s
  <2>3. steady' => CalledSoFar'  BY <1>1, <1>2, <1>6
  <2>4. PressUnderWay'  BY <1>1, <1>4, <2>2, <2>3 DEF PressUnderWay
  <2> QED  BY <1>2, <2>1, <2>4 DEF CallbackInv
<1>7. CASE s = <<>>
  <2>1. called' = called /\ count' = count  BY <1>1, <1>5, <1>7, Zenon
  <2>2. CountStarts'  BY <1>1, <1>3, <2>1 DEF CountStarts
  <2>3. LongPresses' = <<>> /\ (steady' => called' = <<>>)  BY <1>1, <1>2, <1>7, <2>1 DEF s
  <2>4. PressUnderWay'  BY <1>1, <1>4, <2>3 DEF PressUnderWay
  <2> QED  BY <1>2, <2>2, <2>4 DEF CallbackInv
<1>8. CASE s # <<>> /\ due
  <2> DEFINE time == s[count + 1].arg
  <2>1. CallFrom(time) /\ count < Len(s) /\ time \in Nat /\ time - nxt <= Tolerance
    BY <1>1, <1>5, <1>8, Zenon
  <2>2. /\ count' \in Nat /\ count' <= Len(s) /\ count <= count'
        /\ called = SubSeq(s, 1, count) => called' = SubSeq(s, 1, count')
        /\ \A i \in count + 1..count' : s[i].arg = time
        /\ \A i \in count' + 1..Len(s) : s[i].arg > time
    <3>1. count < Len(LongPresses) /\ LongPresses[count + 1].arg = time  BY <2>1 DEF s
    <3> HIDE DEF time
    <3> QED  BY <2>1, <3>1, CallsFrom DEF s
  <2>3. ASSUME CalledSoFar  PROVE CalledSoFar'
    <3>1. /\ called = SubSeq(s, 1, count)
          /\ \A i \in 1..count : s[i].arg - Tolerance <= ticks
          /\ \A i \in count + 1..Len(s) : s[i].arg > ticks
      BY <2>3 DEF CalledSoFar, s
    <3>2. time > ticks  BY <1>3, <2>1, <3>1
    <3> HIDE DEF time
    <3>3. ASSUME NEW i \in 1..count'  PROVE s[i].arg - Tolerance <= nxt
      <4>1. i \in 1..Len(s) /\ s[i].arg \in Nat
        <5>1. Len(s) \in Nat /\ count' \in Nat /\ count' <= Len(s)  BY <1>3, <2>2
        <5>2. i \in 1..Len(s)  BY <5>1
        <5>3. s[i].arg \in Nat  BY <1>3, <5>2, Zenon
        <5> QED  BY <5>2, <5>3
      <4>2. CASE i <= count
        <5>1. s[i].arg - Tolerance <= ticks  BY <1>3, <3>1, <4>2
        <5> QED  BY <1>3, <4>1, <5>1 DEF nxt
      <4>3. CASE ~(i <= count)
        <5>1. s[i].arg = time  BY <1>3, <2>2, <4>3
        <5> QED  BY <1>3, <1>4, <2>1, <5>1
      <4> QED  BY <4>2, <4>3
    <3>4. ASSUME NEW i \in count' + 1..Len(s)  PROVE s[i].arg > nxt
      <4>1. i \in 1..Len(s) /\ s[i].arg \in Nat
        <5> DEFINE n == Len(s)
                   m == count'
        <5>1. n \in Nat /\ m \in Nat /\ i \in m + 1..n  BY <1>3, <2>2
        <5> HIDE DEF n, m
        <5>2. i \in 1..n  BY <5>1
        <5>3. s[i].arg \in Nat  BY <1>3, <5>2, Zenon DEF n
        <5> QED  BY <5>2, <5>3 DEF n
      <4>2. s[i].arg > time  BY <2>2
      <4> QED  BY <1>3, <2>1, <3>2, <4>1, <4>2 DEF nxt
    <3>5. LongPresses' = s /\ ticks' = nxt  BY <1>1, <1>2 DEF s
    <3> QED  BY <2>2, <3>1, <3>3, <3>4, <3>5 DEF CalledSoFar
  <2> QED  BY <1>6, <1>8, <2>2, <2>3
<1>9. CASE s # <<>> /\ ~due
  <2>1. called' = called /\ count' = count  BY <1>1, <1>9, Zenon
  <2>2. ASSUME CalledSoFar  PROVE CalledSoFar'
    <3>1. /\ called = SubSeq(s, 1, count) /\ count <= Len(s)
          /\ \A i \in 1..count : s[i].arg - Tolerance <= ticks
          /\ \A i \in count + 1..Len(s) : s[i].arg > ticks
      BY <2>2 DEF CalledSoFar, s
    <3>2. ASSUME NEW i \in 1..count  PROVE s[i].arg - Tolerance <= nxt
      <4>1. s[i].arg \in Nat /\ s[i].arg - Tolerance <= ticks  BY <1>3, <3>1
      <4> QED  BY <1>3, <4>1 DEF nxt
    <3>3. ASSUME NEW i \in count + 1..Len(s)  PROVE s[i].arg > nxt
      <4>1. count + 1 \in 1..Len(s) /\ i \in 1..Len(s) /\ count + 1 <= i /\ count < Len(s)
            /\ count + 1 \in count + 1..Len(s)
        BY <1>3
      <4>2. s[count + 1].arg > ticks  BY <3>1, <4>1
      <4>3. s[count + 1].arg > nxt  BY <1>5, <1>9, <4>1, <4>2, Zenon
      <4>4. s[count + 1].arg <= s[i].arg  BY <1>3, <4>1 DEF InOrder
      <4>5. s[count + 1].arg \in Nat /\ s[i].arg \in Nat  BY <1>3, <4>1
      <4> QED  BY <1>4, <4>3, <4>4, <4>5
    <3>4. LongPresses' = s /\ ticks' = nxt  BY <1>1, <1>2 DEF s
    <3> QED  BY <2>1, <3>1, <3>2, <3>3, <3>4 DEF CalledSoFar
  <2>3. count' \in Nat  BY <1>3, <2>1
  <2> QED  BY <1>6, <1>9, <2>2, <2>3
<1> QED  BY <1>7, <1>8, <1>9

LEMMA CallbackStep == CallbackInv /\ CallbacksNext => CallbackInv'
<1> SUFFICES ASSUME CallbackInv, CallbacksNext PROVE CallbackInv'  OBVIOUS
<1>1. ASSUME NEW t \in PressTimes \cup {0}  PROVE t \in Nat
  BY CallbacksAssumption
<1>2. ASSUME NEW n \in ClickCounts  PROVE n \in Nat
  BY CallbacksAssumption
<1>3. "LONG_PRESS_START" \in ArgEvents /\ "MULTIPLE_CLICK" \in ArgEvents  BY DEF ArgEvents
<1>4. ASSUME NEW t \in PressTimes \cup {0}, NEW f \in Callees,
             RegisterCb("LONG_PRESS_START", t, f)
      PROVE  CallbackInv'
  BY <1>1, <1>3, <1>4, CallbackRegistered
<1>5. ASSUME NEW n \in ClickCounts, NEW f \in Callees, RegisterCb("MULTIPLE_CLICK", n, f)
      PROVE  CallbackInv'
  <2>1. "MULTIPLE_CLICK" # "LONG_PRESS_START"  OBVIOUS
  <2> QED  BY <1>2, <1>3, <1>5, <2>1, CallbackRegistered
<1>6. ASSUME NEW e \in ArgEvents, NEW x, UnregisterCb(e, x)  PROVE CallbackInv'
  BY <1>6, CallbackUnregistered
<1> QED
  BY <1>3, <1>4, <1>5, <1>6, ButtonClicks, ButtonGoesDown, PressBecomesLong, PressStays,
     ButtonGoesUp
  DEF CallbacksNext

LEMMA CallbacksGoOn == PartsSpec => []CallbackInv
<1>1. PartsInit => CallbackInv  BY CallbacksInitial DEF PartsInit
<1>2. CallbackInv /\ [PartsNext]_partsVars => CallbackInv'
  <2> SUFFICES ASSUME CallbackInv, [PartsNext]_partsVars PROVE CallbackInv'  OBVIOUS
  <2>1. CASE UNCHANGED partsVars  BY <2>1, CallbacksUnchanged DEF partsVars
  <2>2. CASE Works("callbacks") /\ CallbacksNext  BY <2>2, CallbackStep
  <2>3. CASE PartsNext /\ ~(Works("callbacks") /\ CallbacksNext)
    <3>1. UNCHANGED callbackVars  BY <2>3 DEF PartsNext, Works
    <3> QED  BY <3>1, CallbacksUnchanged
  <2> QED  BY <2>1, <2>2, <2>3
<1> QED  BY <1>1, <1>2, PTL DEF PartsSpec, partsVars

\* What has been called is a beginning of the list, hence each once.
LEMMA CalledOfList ==
  ASSUME CallbackInv, CalledSoFar
  PROVE  /\ IsInjective(called)
         /\ \A c \in wanted["LONG_PRESS_START"] :
              /\ ticks >= c.arg => c \in Range(called)
              /\ c \in Range(called) => ticks >= c.arg - Tolerance
<1> DEFINE s == LongPresses
<1>1. /\ s \in Seq(ArgCallbacks) /\ Len(s) \in Nat /\ DOMAIN s = 1..Len(s)
      /\ count \in Nat /\ ticks \in Nat /\ Tolerance \in Nat
      /\ \A i \in 1..Len(s) : s[i].arg \in Nat
      /\ Range(s) = wanted["LONG_PRESS_START"] /\ IsInjective(s)
  BY LongPressesKnown, CallbacksAssumption DEF Listed
<1>2. /\ count <= Len(s) /\ called = SubSeq(s, 1, count)
      /\ \A i \in 1..count : s[i].arg - Tolerance <= ticks
      /\ \A i \in count + 1..Len(s) : s[i].arg > ticks
  BY DEF CalledSoFar
<1> HIDE DEF s
<1>3. DOMAIN called = 1..count /\ \A i \in 1..count : called[i] = s[i] /\ i \in DOMAIN s
  BY <1>1, <1>2
<1>4. IsInjective(called)  BY <1>1, <1>3 DEF IsInjective
<1>5. Range(called) = {s[i] : i \in 1..count} /\ Range(s) = {s[i] : i \in 1..Len(s)}
  BY <1>1, <1>3 DEF Range
<1>6. ASSUME NEW c \in wanted["LONG_PRESS_START"], ticks >= c.arg  PROVE c \in Range(called)
  <2>1. PICK i \in 1..Len(s) : c = s[i]  BY <1>1, <1>5
  <2>2. i \in 1..count
    <3>1. ~(s[i].arg > ticks)  BY <1>1, <1>6, <2>1
    <3>2. i \notin count + 1..Len(s)  BY <1>2, <3>1
    <3> QED  BY <1>1, <3>2
  <2> QED  BY <1>5, <2>1, <2>2
<1>7. ASSUME NEW c \in Range(called)  PROVE ticks >= c.arg - Tolerance
  <2>1. PICK i \in 1..count : c = s[i]  BY <1>5
  <2>2. s[i].arg \in Nat /\ s[i].arg - Tolerance <= ticks  BY <1>1, <1>2
  <2> QED  BY <1>1, <2>1, <2>2
<1> QED  BY <1>4, <1>6, <1>7

LEMMA PressOnTime ==
  ASSUME CallbackInv, phase # "released", steady
  PROVE  /\ IsInjective(called)
         /\ \A c \in wanted["LONG_PRESS_START"] :
              /\ ticks >= c.arg => c \in Range(called)
              /\ c \in Range(called) => ticks >= c.arg - Tolerance
<1>1. CASE phase = "long press up?" /\ LongPresses # <<>>
  BY <1>1, CalledOfList DEF CallbackInv, PressUnderWay
<1>2. CASE ~(phase = "long press up?" /\ LongPresses # <<>>)
  <2>1. /\ called = <<>>
        /\ LongPresses = <<>> \/ (phase = "press up?" /\ ticks < long_ticks)
    BY <1>2 DEF CallbackInv, PressUnderWay
  <2>2. IsInjective(<<>>) /\ Range(<<>>) = {}  BY DEF IsInjective, Range
  <2>3. ASSUME NEW c \in wanted["LONG_PRESS_START"]  PROVE ~(ticks >= c.arg)
    <3>1. Range(LongPresses) = wanted["LONG_PRESS_START"] /\ DOMAIN LongPresses = 1..Len(LongPresses)
      BY LongPressesKnown
    <3>2. LongPresses # <<>>  BY <2>2, <3>1
    <3>3. ticks < long_ticks  BY <2>1, <3>2
    <3>4. PICK i \in 1..Len(LongPresses) : c = LongPresses[i]  BY <3>1 DEF Range
    <3>5. c.arg \in Nat /\ c.arg >= long_ticks /\ ticks \in Nat /\ long_ticks \in Nat
      BY <3>4, LongPressesKnown
    <3> QED  BY <3>3, <3>5
  <2> QED  BY <2>1, <2>2, <2>3
<1> QED  BY <1>1, <1>2

(***************************************************************************)
(* However callbacks are registered, taken back and called                 *)
(* (iot_button.c:348-509, 239-264), their lists stay in order, and a press *)
(* during which the lists stay calls every callback of a long press about  *)
(* in time and once: for any number of callbacks, all times and every      *)
(* tolerance.                                                              *)
(***************************************************************************)
THEOREM CallbacksOnTime == PartsSpec => []CalledOnTime
<1>1. CallbackInv => CalledOnTime
  <2> SUFFICES ASSUME CallbackInv PROVE CalledOnTime  OBVIOUS
  <2>1. ASSUME NEW e \in ArgEvents
        PROVE  /\ Range(cb_info[e]) = wanted[e] /\ IsInjective(cb_info[e])
               /\ \A i \in 2..Len(cb_info[e]) : cb_info[e][i - 1].arg <= cb_info[e][i].arg
    <3> DEFINE s == cb_info[e]
    <3>1. Listed(s) /\ Range(s) = wanted[e]  BY DEF CallbackInv, CallbackLists
    <3> HIDE DEF s
    <3>2. s \in Seq(ArgCallbacks) /\ IsInjective(s) /\ InOrder(s)  BY <3>1 DEF Listed
    <3>3. \A i \in 2..Len(s) : i \in DOMAIN s /\ i - 1 \in DOMAIN s /\ i - 1 <= i  BY <3>2
    <3>4. \A i \in 2..Len(s) : s[i - 1].arg <= s[i].arg  BY <3>2, <3>3 DEF InOrder
    <3> QED  BY <3>1, <3>2, <3>4 DEF s
  <2>2. \A c \in wanted["LONG_PRESS_START"] : c.arg >= long_ticks
    BY DEF CallbackInv, CallbackLists
  <2>3. phase # "released" /\ steady =>
          /\ IsInjective(called)
          /\ \A c \in wanted["LONG_PRESS_START"] :
               /\ ticks >= c.arg => c \in Range(called)
               /\ c \in Range(called) => ticks >= c.arg - Tolerance
    BY PressOnTime
  <2> QED  BY <2>1, <2>2, <2>3 DEF CalledOnTime
<1> QED  BY <1>1, CallbacksGoOn, PTL

-----------------------------------------------------------------------------
(* Encrypted images                                                        *)

\* n bytes of the image, behind the first a
Stretch(a, n) == [i \in 1..n |-> a + i]

LEMMA StretchIs ==
  ASSUME NEW a \in Int, NEW n \in Nat
  PROVE  /\ Stretch(a, n) \in Seq(Int) /\ Len(Stretch(a, n)) = n
         /\ \A i \in 1..n : Stretch(a, n)[i] = a + i
  BY DEF Stretch

LEMMA StretchEmpty == ASSUME NEW a \in Int  PROVE Stretch(a, 0) = <<>>
  BY DEF Stretch

LEMMA StretchCut ==
  ASSUME NEW a \in Int, NEW n \in Nat, NEW j \in 0..n, NEW k \in j..n
  PROVE  SubSeq(Stretch(a, n), j + 1, k) = Stretch(a + j, k - j)
<1> DEFINE s == Stretch(a, n)
           t == SubSeq(s, j + 1, k)
           u == Stretch(a + j, k - j)
<1>1. /\ s \in Seq(Int) /\ Len(s) = n /\ \A i \in 1..n : s[i] = a + i
      /\ u \in Seq(Int) /\ Len(u) = k - j /\ \A i \in 1..k - j : u[i] = (a + j) + i
  <2>1. k - j \in Nat /\ a + j \in Int  OBVIOUS
  <2> QED  BY <2>1, StretchIs
<1> HIDE DEF s, u
<1>2. \A i \in j + 1..k : s[i] \in Int  BY <1>1
<1>3. t \in Seq(Int) /\ Len(t) = k - j /\ \A i \in 1..k - j : t[i] = s[j + i]
  <2>1. /\ t \in Seq(Int) /\ Len(t) = IF j + 1 <= k THEN k - (j + 1) + 1 ELSE 0
        /\ \A i \in 1..k - (j + 1) + 1 : t[i] = s[(j + 1) + i - 1]
    <3>1. j + 1 \in 1..Len(s) + 1 /\ k \in 0..Len(s)  BY <1>1
    <3> QED  BY <1>1, <1>2, <3>1, SubSeqProperties
  <2> HIDE DEF t
  <2>2. k - (j + 1) + 1 = k - j /\ \A i \in 1..k - j : (j + 1) + i - 1 = j + i  OBVIOUS
  <2>3. Len(t) = k - j  BY <2>1
  <2>4. \A i \in 1..k - j : t[i] = s[j + i]  BY <2>1, <2>2
  <2> QED  BY <2>1, <2>3, <2>4
<1> HIDE DEF t
<1>4. ASSUME NEW i \in 1..k - j  PROVE t[i] = u[i]
  <2>1. j + i \in 1..n /\ a + (j + i) = (a + j) + i  OBVIOUS
  <2> QED  BY <1>1, <1>3, <2>1
<1>5. t = u
  <2>1. k - j \in Nat /\ DOMAIN t = 1..k - j /\ DOMAIN u = 1..k - j  BY <1>1, <1>3
  <2> QED  BY <1>1, <1>3, <1>4, <2>1, SeqEqual
<1> QED  BY <1>5 DEF s, t, u

LEMMA StretchJoin ==
  ASSUME NEW a \in Int, NEW m \in Nat, NEW n \in Nat
  PROVE  Stretch(a, m) \o Stretch(a + m, n) = Stretch(a, m + n)
<1> DEFINE s == Stretch(a, m)
           t == Stretch(a + m, n)
           u == Stretch(a, m + n)
           w == s \o t
<1>1. /\ s \in Seq(Int) /\ Len(s) = m /\ \A i \in 1..m : s[i] = a + i
      /\ t \in Seq(Int) /\ Len(t) = n /\ \A i \in 1..n : t[i] = (a + m) + i
      /\ u \in Seq(Int) /\ Len(u) = m + n /\ \A i \in 1..m + n : u[i] = a + i
  BY StretchIs
<1> HIDE DEF s, t, u
<1>2. /\ w \in Seq(Int) /\ Len(w) = m + n
      /\ \A i \in 1..m + n : w[i] = IF i <= m THEN s[i] ELSE t[i - m]
  <2>1. s \in Seq(Int) /\ t \in Seq(Int)  BY <1>1
  <2>2. /\ w \in Seq(Int) /\ Len(w) = Len(s) + Len(t)
        /\ \A i \in 1..Len(s) + Len(t) : w[i] = IF i <= Len(s) THEN s[i] ELSE t[i - Len(s)]
    BY <2>1, ConcatProperties
  <2> HIDE DEF w
  <2> QED  BY <1>1, <2>2
<1> HIDE DEF w
<1>3. ASSUME NEW i \in 1..m + n  PROVE w[i] = u[i]
  <2>1. CASE i <= m
    <3>1. i \in 1..m  BY <2>1
    <3> QED  BY <1>1, <1>2, <2>1, <3>1
  <2>2. CASE ~(i <= m)
    <3>1. i - m \in 1..n /\ (a + m) + (i - m) = a + i  BY <2>2
    <3> QED  BY <1>1, <1>2, <2>2, <3>1
  <2> QED  BY <2>1, <2>2
<1>4. w = u  BY <1>1, <1>2, <1>3, SeqEqual
<1> QED  BY <1>4 DEF s, t, u, w

\* Whole blocks, and what is left behind them
LEMMA BlocksAre ==
  ASSUME NEW b \in Nat \ {0}, NEW x \in Nat
  PROVE  \E k \in Nat, t \in 0..b - 1 :
           /\ x = b * k + t /\ x % b = t /\ x \div b = k
<1> DEFINE k == x \div b
           t == x % b
<1>1. k \in Nat /\ t \in 0..b - 1 /\ x = b * k + t  OBVIOUS
<1> HIDE DEF k, t
<1> QED  BY <1>1 DEF k, t

LEMMA BlocksOf ==
  ASSUME NEW b \in Nat \ {0}, NEW k \in Nat, NEW t \in 0..b - 1
  PROVE  (b * k + t) \div b = k /\ (b * k + t) % b = t
  OBVIOUS

LEMMA WholeBlocks ==
  ASSUME NEW x \in Nat
  PROVE  LET tail == x % BlockLen IN
         /\ tail \in Nat /\ tail < BlockLen /\ tail <= x
         /\ (x \div BlockLen) * BlockLen = x - tail
         /\ (x - tail) % BlockLen = 0
         /\ ((BlockLen + x) \div BlockLen) * BlockLen = BlockLen + (x - tail)
<1> DEFINE b == BlockLen
<1>1. b \in Nat \ {0}  BY ImageAssumption
<1> HIDE DEF b
<1>2. PICK k \in Nat, t \in 0..b - 1 : x = b * k + t /\ x % b = t /\ x \div b = k
  BY <1>1, BlocksAre
<1> DEFINE w == b * k
<1>3. w \in Nat /\ w = k * b /\ x = w + t /\ b * (k + 1) = w + b /\ (k + 1) * b = w + b
  BY <1>1, <1>2
<1>4. w % b = 0
  <2>1. 0 \in 0..b - 1 /\ b * k + 0 = w  BY <1>1, <1>3
  <2> QED  BY <1>1, <2>1, BlocksOf
<1>5. (b + x) \div b = k + 1
  <2>1. k + 1 \in Nat /\ b * (k + 1) + t = b + x  BY <1>1, <1>3
  <2> QED  BY <1>1, <2>1, BlocksOf
<1> HIDE DEF w
<1>6. x - t = w /\ t \in Nat /\ t < b /\ t <= x  BY <1>1, <1>3
<1>7. /\ x % b \in Nat /\ x % b < b /\ x % b <= x
      /\ (x \div b) * b = x - (x % b)
      /\ (x - (x % b)) % b = 0
      /\ ((b + x) \div b) * b = b + (x - (x % b))
  <2>1. (k + 1) * b = b + w /\ k * b = w  BY <1>1, <1>3
  <2> QED  BY <1>2, <1>4, <1>5, <1>6, <2>1
<1> QED  BY <1>7 DEF b

\* The sections in order, and where they begin
At == [magic |-> 0, key |-> SectionSize.magic, iv |-> IvAt, size |-> IvAt + BlockLen,
       auth |-> AuthAt, extra |-> AuthAt + BlockLen, binary |-> HeaderLen]
Rank == [magic |-> 1, key |-> 2, iv |-> 3, size |-> 4, auth |-> 5, extra |-> 6, binary |-> 7]
CacheSize(s) == IF s \in {"magic", "key"} THEN SectionSize.key ELSE BlockLen
States == Sections \cup {"binary"}

LEMMA Layout ==
  /\ HeaderLen \in Nat /\ HeaderLen > 0 /\ At["binary"] = HeaderLen /\ Rank["binary"] = 7
  /\ BlockLen \in Nat \ {0} /\ At["magic"] = 0
  /\ \A s \in Sections :
       /\ At[s] \in Nat /\ SectionSize[s] \in Nat \ {0} /\ Rank[s] \in 1..6
       /\ NextState[s] \in States
       /\ At[NextState[s]] = At[s] + SectionSize[s] /\ Rank[NextState[s]] = Rank[s] + 1
       /\ At[s] + SectionSize[s] <= HeaderLen
       /\ CacheSize(s) \in Nat
       /\ s \notin {"iv", "auth", "extra"} => SectionSize[s] <= CacheSize(s)
       /\ NextState[s] # "magic" /\ (NextState[s] = "key" <=> s = "magic")
       /\ NextState[s] # "binary" =>
            CacheSize(NextState[s]) = IF s = "key" THEN BlockLen ELSE CacheSize(s)
  /\ \A s \in States, t \in States : Rank[s] \in Nat /\ (Rank[s] = Rank[t] => s = t)
<1>1. BlockLen \in Nat /\ BlockLen >= 2  BY ImageAssumption
<1>2. /\ SectionSize.magic = 2 /\ SectionSize.key = 2 * BlockLen /\ SectionSize.iv = BlockLen
      /\ SectionSize.size = 2 /\ SectionSize.auth = BlockLen /\ SectionSize.extra = 3
  BY DEF SectionSize
<1>3. IvAt = 2 + 2 * BlockLen /\ AuthAt = 4 + 3 * BlockLen /\ HeaderLen = 7 + 4 * BlockLen
  BY <1>1, <1>2 DEF IvAt, AuthAt, HeaderLen
<1>4. /\ At["magic"] = 0 /\ At["key"] = 2 /\ At["iv"] = 2 + 2 * BlockLen
      /\ At["size"] = 2 + 3 * BlockLen /\ At["auth"] = 4 + 3 * BlockLen
      /\ At["extra"] = 4 + 4 * BlockLen /\ At["binary"] = 7 + 4 * BlockLen
  BY <1>1, <1>2, <1>3 DEF At
<1>5. /\ NextState["magic"] = "key" /\ NextState["key"] = "iv" /\ NextState["iv"] = "size"
      /\ NextState["size"] = "auth" /\ NextState["auth"] = "extra" /\ NextState["extra"] = "binary"
  BY DEF NextState
<1>6. /\ CacheSize("magic") = 2 * BlockLen /\ CacheSize("key") = 2 * BlockLen
      /\ CacheSize("iv") = BlockLen /\ CacheSize("size") = BlockLen
      /\ CacheSize("auth") = BlockLen /\ CacheSize("extra") = BlockLen
  BY <1>2 DEF CacheSize
<1>7. /\ Rank["magic"] = 1 /\ Rank["key"] = 2 /\ Rank["iv"] = 3 /\ Rank["size"] = 4
      /\ Rank["auth"] = 5 /\ Rank["extra"] = 6 /\ Rank["binary"] = 7
  BY DEF Rank
<1>8. ASSUME NEW s \in Sections
      PROVE  /\ At[s] \in Nat /\ SectionSize[s] \in Nat \ {0} /\ Rank[s] \in 1..6
             /\ NextState[s] \in States
             /\ At[NextState[s]] = At[s] + SectionSize[s] /\ Rank[NextState[s]] = Rank[s] + 1
             /\ At[s] + SectionSize[s] <= HeaderLen
             /\ CacheSize(s) \in Nat
             /\ s \notin {"iv", "auth", "extra"} => SectionSize[s] <= CacheSize(s)
             /\ NextState[s] # "magic" /\ (NextState[s] = "key" <=> s = "magic")
             /\ NextState[s] # "binary" =>
                  CacheSize(NextState[s]) = IF s = "key" THEN BlockLen ELSE CacheSize(s)
  <2>1. /\ SectionSize["magic"] = 2 /\ SectionSize["key"] = 2 * BlockLen
        /\ SectionSize["iv"] = BlockLen /\ SectionSize["size"] = 2
        /\ SectionSize["auth"] = BlockLen /\ SectionSize["extra"] = 3
    BY <1>2
  <2>2. CASE s = "magic"
    BY <1>1, <1>3, <1>4, <1>5, <1>6, <1>7, <2>1, <2>2 DEF States, Sections
  <2>3. CASE s = "key"
    BY <1>1, <1>3, <1>4, <1>5, <1>6, <1>7, <2>1, <2>3 DEF States, Sections
  <2>4. CASE s = "iv"
    BY <1>1, <1>3, <1>4, <1>5, <1>6, <1>7, <2>1, <2>4 DEF States, Sections
  <2>5. CASE s = "size"
    BY <1>1, <1>3, <1>4, <1>5, <1>6, <1>7, <2>1, <2>5 DEF States, Sections
  <2>6. CASE s = "auth"
    BY <1>1, <1>3, <1>4, <1>5, <1>6, <1>7, <2>1, <2>6 DEF States, Sections
  <2>7. CASE s = "extra"
    BY <1>1, <1>3, <1>4, <1>5, <1>6, <1>7, <2>1, <2>7 DEF States, Sections
  <2> QED  BY <2>2, <2>3, <2>4, <2>5, <2>6, <2>7 DEF Sections
<1>9. ASSUME NEW s \in States, NEW t \in States
      PROVE  Rank[s] \in Nat /\ (Rank[s] = Rank[t] => s = t)
  BY <1>7 DEF States, Sections
<1> QED  BY <1>1, <1>3, <1>4, <1>7, <1>8, <1>9

\* The handle when the image has arrived up to pos, and p bytes of the
\* binary were put out
ImageHandles ==
  [state : States, cache : Seq(Int), capacity : Nat, read : Nat, held : [Sections -> Seq(Int)]]

Got(h, s) ==
  IF Rank[s] < Rank[h.state] THEN SectionSize[s] ELSE IF s = h.state THEN h.read ELSE 0

InSection(h, pos) ==
  /\ h.read < SectionSize[h.state] /\ pos = At[h.state] + h.read
  /\ Len(h.cache) = IF h.state = "extra" THEN 0 ELSE h.read
  /\ h.capacity = CacheSize(h.state)

InBinary(h, pos, p) ==
  /\ pos = HeaderLen + h.read /\ p = h.read - Len(h.cache)
  /\ Len(h.cache) < BlockLen /\ h.cache = Stretch(HeaderLen + p, Len(h.cache))

HandleAt(h, pos, p) ==
  /\ h \in ImageHandles
  /\ \A s \in Sections : h.held[s] = Stretch(At[s], Got(h, s))
  /\ h.state \in Sections => InSection(h, pos) /\ p = 0
  /\ h.state = "binary" => InBinary(h, pos, p)
  /\ h.state # "magic" => img.fault # "magic"
  /\ h.state \notin {"magic", "key"} => img.fault # "key"

\* A call that goes through the data up to the position e
Calls ==
  [h : ImageHandles, data : Seq(Int), ret : {"go", "not finished", "fail", "ok"},
   out : Seq(Int), broken : BOOLEAN]

HeaderCall(c, e, p, k) ==
  /\ c \in Calls /\ c.out = <<>> /\ c.broken = FALSE
  /\ c.data = Stretch(e - Len(c.data), Len(c.data))
  /\ c.ret # "ok"
  /\ c.ret = "go" => HandleAt(c.h, e - Len(c.data), p) /\ Rank[c.h.state] >= k
  /\ c.ret = "not finished" => HandleAt(c.h, e, p) /\ c.h.state \in Sections
  /\ c.ret = "fail" => c.h.state \in Sections

\* A handle's fields
LEMMA HandleFields ==
  ASSUME NEW g \in ImageHandles, NEW a, NEW b, NEW d
  PROVE  [g EXCEPT !.read = a, !.cache = b, !.held = d] =
           [state |-> g.state, cache |-> b, capacity |-> g.capacity, read |-> a, held |-> d]
<1> DEFINE one == [g EXCEPT !.read = a]
           two == [one EXCEPT !.cache = b]
           three == [two EXCEPT !.held = d]
<1>1. g = [state |-> g.state, cache |-> g.cache, capacity |-> g.capacity, read |-> g.read,
           held |-> g.held]
  BY DEF ImageHandles
<1>2. one = [state |-> g.state, cache |-> g.cache, capacity |-> g.capacity, read |-> a,
             held |-> g.held]
  BY <1>1
<1> HIDE DEF one
<1>3. two = [state |-> g.state, cache |-> b, capacity |-> g.capacity, read |-> a,
             held |-> g.held]
  BY <1>2
<1> HIDE DEF two
<1>4. three = [state |-> g.state, cache |-> b, capacity |-> g.capacity, read |-> a, held |-> d]
  BY <1>3
<1> QED  BY <1>4 DEF one, two, three

\* What a section takes of the data
LEMMA ReadIs ==
  ASSUME NEW c \in Calls, NEW s \in Sections
  PROVE  LET n == Least(Len(c.data), SectionSize[s] - c.h.read)
             got == SubSeq(c.data, 1, n)
             r == ReadAndCache(c, s)
         IN /\ r.h = [state |-> c.h.state,
                      cache |-> IF s = "extra" THEN c.h.cache ELSE c.h.cache \o got,
                      capacity |-> c.h.capacity, read |-> c.h.read + n,
                      held |-> [c.h.held EXCEPT ![s] = @ \o got]]
            /\ r = [h |-> r.h, data |-> SubSeq(c.data, n + 1, Len(c.data)), ret |-> c.ret,
                    out |-> c.out, broken |-> r.broken]
            /\ r.broken = (c.broken \/ (/\ s \notin {"iv", "auth", "extra"}
                                       /\ Len(c.h.cache) + n > c.h.capacity))
<1> DEFINE n == Least(Len(c.data), SectionSize[s] - c.h.read)
           got == SubSeq(c.data, 1, n)
           r == ReadAndCache(c, s)
           rest_ == SubSeq(c.data, n + 1, Len(c.data))
           cache == IF s = "extra" THEN c.h.cache ELSE c.h.cache \o got
           held_ == [c.h.held EXCEPT ![s] = @ \o got]
           short == s \notin {"iv", "auth", "extra"} /\ Len(c.h.cache) + n > c.h.capacity
           h == [c.h EXCEPT !.read = @ + n, !.cache = cache, !.held = held_]
<1>1. r = [c EXCEPT !.h = h, !.broken = @ \/ short, !.data = rest_]
  BY DEF ReadAndCache
<1>2. /\ c = [h |-> c.h, data |-> c.data, ret |-> c.ret, out |-> c.out, broken |-> c.broken]
      /\ c.h = [state |-> c.h.state, cache |-> c.h.cache, capacity |-> c.h.capacity,
                read |-> c.h.read, held |-> c.h.held]
      /\ c.h \in ImageHandles
  BY DEF Calls, ImageHandles
<1> HIDE DEF n, got, short
<1>3. h = [state |-> c.h.state, cache |-> cache, capacity |-> c.h.capacity,
             read |-> c.h.read + n, held |-> held_]
  <2> DEFINE read_ == c.h.read + n
  <2>1. h = [c.h EXCEPT !.read = read_, !.cache = cache, !.held = held_]  OBVIOUS
  <2> HIDE DEF cache, held_, h
  <2>2. h = [state |-> c.h.state, cache |-> cache, capacity |-> c.h.capacity,
             read |-> read_, held |-> held_]
    <3> HIDE DEF read_
    <3> QED  BY <1>2, <2>1, HandleFields
  <2> QED  BY <2>2
<1> HIDE DEF h, rest_
<1>4. r.h = h /\ r = [h |-> r.h, data |-> rest_, ret |-> c.ret, out |-> c.out, broken |-> r.broken]
  BY <1>1, <1>2
<1>5. r.broken = (c.broken \/ short)  BY <1>1, <1>2
<1> QED  BY <1>3, <1>4, <1>5 DEF n, got, short, h, rest_

\* What comes of a section that is complete
LEMMA EnteredIs ==
  ASSUME NEW c \in Calls, NEW s
  PROVE  Enter(c, s) =
           [h |-> [state |-> s, cache |-> <<>>, capacity |-> c.h.capacity, read |-> 0,
                   held |-> c.h.held],
            data |-> c.data, ret |-> c.ret, out |-> c.out, broken |-> c.broken]
<1> DEFINE g == c.h
           one == [g EXCEPT !.state = s]
           two == [one EXCEPT !.read = 0]
           three == [two EXCEPT !.cache = <<>>]
<1>1. /\ c = [h |-> g, data |-> c.data, ret |-> c.ret, out |-> c.out, broken |-> c.broken]
      /\ g = [state |-> g.state, cache |-> g.cache, capacity |-> g.capacity, read |-> g.read,
              held |-> g.held]
  BY DEF Calls, ImageHandles
<1>2. Enter(c, s) = [c EXCEPT !.h = three]  BY <1>1 DEF Enter
<1> HIDE DEF g
<1>3. one = [state |-> s, cache |-> g.cache, capacity |-> g.capacity, read |-> g.read,
             held |-> g.held]
  BY <1>1
<1> HIDE DEF one
<1>4. two = [state |-> s, cache |-> g.cache, capacity |-> g.capacity, read |-> 0, held |-> g.held]
  BY <1>3
<1> HIDE DEF two
<1>5. three = [state |-> s, cache |-> <<>>, capacity |-> g.capacity, read |-> 0, held |-> g.held]
  BY <1>4
<1> HIDE DEF three
<1> QED  BY <1>1, <1>2, <1>5 DEF g

LEMMA CompletedIs ==
  ASSUME NEW c \in Calls, NEW s \in Sections, Completed(c, s) # [c EXCEPT !.ret = "fail"]
  PROVE  /\ Completed(c, s) =
              [h |-> [state |-> NextState[s], cache |-> <<>>,
                      capacity |-> IF s = "key" THEN BlockLen ELSE c.h.capacity,
                      read |-> 0, held |-> c.h.held],
               data |-> c.data, ret |-> c.ret, out |-> c.out, broken |-> c.broken]
         /\ s = "magic" => img.fault # "magic"
         /\ s = "key" => img.fault # "key"
<1> DEFINE e(n) == Enter(c, n)
           h == [state |-> NextState[s], cache |-> <<>>, capacity |-> c.h.capacity, read |-> 0,
                 held |-> c.h.held]
<1>1. e(NextState[s]) = [h |-> h, data |-> c.data, ret |-> c.ret, out |-> c.out, broken |-> c.broken]
  BY EnteredIs
<1>2. CASE s = "magic" /\ img.fault = "magic"  BY <1>2 DEF Completed
<1>3. CASE s = "key"
  <2>1. s # "magic" /\ NextState.key = NextState[s]  BY <1>3
  <2>2. Completed(c, s) = DecipherKey(c)  BY <1>3 DEF Completed
  <2>3. img.fault # "key"  BY <2>2 DEF DecipherKey
  <2>4. Completed(c, s) = [e(NextState[s]) EXCEPT !.h.capacity = BlockLen]
    BY <2>1, <2>2, <2>3 DEF DecipherKey
  <2> DEFINE smaller == [h EXCEPT !.capacity = BlockLen]
  <2>5. smaller = [state |-> NextState[s], cache |-> <<>>, capacity |-> BlockLen, read |-> 0,
                   held |-> c.h.held]
    OBVIOUS
  <2> HIDE DEF h
  <2>6. Completed(c, s) = [h |-> smaller, data |-> c.data, ret |-> c.ret, out |-> c.out,
                           broken |-> c.broken]
    <3> HIDE DEF e
    <3> QED  BY <1>1, <2>4
  <2> HIDE DEF smaller
  <2> QED  BY <1>3, <2>1, <2>3, <2>5, <2>6
<1>4. CASE s # "key" /\ ~(s = "magic" /\ img.fault = "magic")
  <2>1. Completed(c, s) = e(NextState[s])  BY <1>4 DEF Completed
  <2> HIDE DEF e
  <2> QED  BY <1>1, <1>4, <2>1
<1> QED  BY <1>2, <1>3, <1>4

\* r: a section s has read of the data of c what it lacked, or all of it.
ReadOf(c, r, e, s) ==
  /\ r \in Calls /\ r.ret = "go" /\ r.out = <<>> /\ r.broken = FALSE
  /\ r.data = Stretch(e - Len(r.data), Len(r.data)) /\ r.h.state = s
  /\ \A t \in Sections : r.h.held[t] = Stretch(At[t], Got(r.h, t))
  /\ r.h.read <= SectionSize[s] /\ e - Len(r.data) = At[s] + r.h.read
  /\ Len(r.h.cache) = IF s = "extra" THEN 0 ELSE r.h.read
  /\ r.h.capacity = c.h.capacity
  /\ r.h.read # SectionSize[s] => r.data = <<>>

\* A section of a call: what it reads goes on where the handle was.
LEMMA SectionReads ==
  ASSUME NEW c, NEW e \in Int, NEW p \in Int, NEW s \in Sections,
         HeaderCall(c, e, p, Rank[s]), c.ret = "go", c.h.state = s,
         NEW r, r = ReadAndCache(c, s)
  PROVE  ReadOf(c, r, e, s)
<1> DEFINE m == Len(c.data)
           a == e - m
           rd == c.h.read
           size == SectionSize[s]
           n == Least(m, size - rd)
           got == SubSeq(c.data, 1, n)
           cache == IF s = "extra" THEN c.h.cache ELSE c.h.cache \o got
           held_ == [c.h.held EXCEPT ![s] = @ \o got]
<1>1. /\ c \in Calls /\ c.out = <<>> /\ c.broken = FALSE /\ c.data = Stretch(a, m)
      /\ HandleAt(c.h, a, p)
  BY DEF HeaderCall
<1>2. /\ c.h \in ImageHandles /\ c.data \in Seq(Int) /\ m \in Nat /\ a \in Int
  <2>1. c.h \in ImageHandles /\ c.data \in Seq(Int)  BY <1>1 DEF Calls
  <2>2. m \in Nat  BY <2>1
  <2> HIDE DEF m
  <2> QED  BY <2>1, <2>2
<1>3. /\ rd \in Nat /\ c.h.cache \in Seq(Int) /\ c.h.held \in [Sections -> Seq(Int)]
      /\ c.h.capacity \in Nat
  BY <1>2 DEF ImageHandles
<1>4. /\ \A t \in Sections : c.h.held[t] = Stretch(At[t], Got(c.h, t))
      /\ rd < size /\ a = At[s] + rd
      /\ Len(c.h.cache) = IF s = "extra" THEN 0 ELSE rd
      /\ c.h.capacity = CacheSize(s)
  BY <1>1 DEF HandleAt, InSection
<1>5. size \in Nat /\ At[s] \in Nat  BY Layout
<1>6. n \in 0..m /\ rd + n <= size /\ (rd + n # size => n = m)
  <2>1. m \in Nat /\ rd \in Nat /\ size \in Nat /\ rd < size  BY <1>2, <1>3, <1>4, <1>5
  <2> DEFINE room == size - rd
  <2>2. room \in Nat  BY <2>1
  <2>3. n = IF m < room THEN m ELSE room  BY DEF Least
  <2> HIDE DEF m, rd, size, n
  <2>4. CASE m < room  BY <2>1, <2>3, <2>4
  <2>5. CASE ~(m < room)
    <3>1. n = room  BY <2>3, <2>5
    <3> QED  BY <2>1, <2>5, <3>1
  <2> QED  BY <2>4, <2>5
<1>7. got = Stretch(a, n) /\ got \in Seq(Int) /\ Len(got) = n
  <2> HIDE DEF a, m, n
  <2>1. SubSeq(Stretch(a, m), 0 + 1, n) = Stretch(a + 0, n - 0)
    <3>1. 0 \in 0..m /\ n \in 0..m  BY <1>2, <1>6
    <3> QED  BY <1>2, <3>1, StretchCut
  <2>2. got = Stretch(a, n)
    <3>1. 0 + 1 = 1 /\ a + 0 = a /\ n - 0 = n  BY <1>2, <1>6
    <3> QED  BY <1>1, <2>1, <3>1
  <2>3. Stretch(a, n) \in Seq(Int) /\ Len(Stretch(a, n)) = n
    <3>1. n \in Nat  BY <1>2, <1>6
    <3> QED  BY <1>2, <3>1, StretchIs
  <2> QED  BY <2>2, <2>3
<1> DEFINE rest_ == SubSeq(c.data, n + 1, m)
<1>8. rest_ = Stretch(a + n, m - n) /\ rest_ \in Seq(Int) /\ Len(rest_) = m - n
  <2> HIDE DEF a, m, n
  <2>1. SubSeq(Stretch(a, m), n + 1, m) = Stretch(a + n, m - n)
    <3>1. n \in 0..m /\ m \in n..m  BY <1>2, <1>6
    <3> QED  BY <1>2, <3>1, StretchCut
  <2>2. a + n \in Int /\ m - n \in Nat  BY <1>2, <1>6
  <2>3. Stretch(a + n, m - n) \in Seq(Int) /\ Len(Stretch(a + n, m - n)) = m - n
    <3> DEFINE b == a + n
               k == m - n
    <3> HIDE DEF b, k
    <3>1. Stretch(b, k) \in Seq(Int) /\ Len(Stretch(b, k)) = k  BY <2>2, StretchIs DEF b, k
    <3> QED  BY <3>1 DEF b, k
  <2> QED  BY <1>1, <2>1, <2>3
<1>9. /\ r.h = [state |-> c.h.state, cache |-> cache, capacity |-> c.h.capacity, read |-> rd + n,
                held |-> held_]
      /\ r = [h |-> r.h, data |-> rest_, ret |-> c.ret, out |-> c.out, broken |-> r.broken]
      /\ r.broken = (c.broken \/ (s \notin {"iv", "auth", "extra"} /\ Len(c.h.cache) + n > c.h.capacity))
  BY <1>1, ReadIs
<1> HIDE DEF n, got, rest_, size
<1>10. /\ cache \in Seq(Int) /\ Len(cache) = IF s = "extra" THEN 0 ELSE rd + n
  <2>1. CASE s = "extra"  BY <1>3, <1>4, <2>1
  <2>2. CASE s # "extra"
    <3>1. c.h.cache \o got \in Seq(Int) /\ Len(c.h.cache \o got) = Len(c.h.cache) + Len(got)
      BY <1>3, <1>7, ConcatProperties
    <3> QED  BY <1>4, <1>7, <2>2, <3>1
  <2> QED  BY <2>1, <2>2
<1>11. c.h.held[s] = Stretch(At[s], rd)
  <2>1. ~(Rank[s] < Rank[s])
    <3>1. Rank[s] \in 1..6  BY Layout
    <3> DEFINE k == Rank[s]
    <3> HIDE DEF k
    <3>2. ~(k < k)  BY <3>1 DEF k
    <3> QED  BY <3>2 DEF k
  <2>2. Got(c.h, s) = rd  BY <2>1 DEF Got
  <2> QED  BY <1>4, <2>2
<1>12. c.h.held[s] \o got = Stretch(At[s], rd + n)
  <2>1. n \in Nat  BY <1>2, <1>6
  <2>2. Stretch(At[s], rd) \o Stretch(At[s] + rd, n) = Stretch(At[s], rd + n)
    <3>1. At[s] \in Int /\ rd \in Nat  BY <1>3, <1>5
    <3> DEFINE z == At[s]
    <3> HIDE DEF z, rd
    <3>2. Stretch(z, rd) \o Stretch(z + rd, n) = Stretch(z, rd + n)
      BY <2>1, <3>1, StretchJoin DEF z
    <3> QED  BY <3>2 DEF z
  <2> QED  BY <1>4, <1>7, <1>11, <2>2
<1>13. /\ held_ \in [Sections -> Seq(Int)] /\ held_[s] = Stretch(At[s], rd + n)
       /\ \A t \in Sections : t # s => held_[t] = c.h.held[t]
  <2>1. rd + n \in Nat  BY <1>2, <1>3, <1>6
  <2>2. c.h.held[s] \o got \in Seq(Int)
    <3> DEFINE k == rd + n
    <3>1. k \in Nat /\ At[s] \in Int  BY <1>5, <2>1
    <3> HIDE DEF k
    <3>2. Stretch(At[s], k) \in Seq(Int)  BY <3>1, StretchIs
    <3> QED  BY <1>12, <3>2 DEF k
  <2>3. held_[s] = c.h.held[s] \o got  BY <1>3
  <2>4. held_ \in [Sections -> Seq(Int)]  BY <1>3, <2>2
  <2>5. \A t \in Sections : t # s => held_[t] = c.h.held[t]  BY <1>3
  <2> HIDE DEF held_
  <2> QED  BY <1>12, <2>3, <2>4, <2>5
<1> HIDE DEF cache, held_
<1>14. /\ r.h.state = s /\ r.h.cache = cache /\ r.h.capacity = c.h.capacity /\ r.h.read = rd + n
       /\ r.h.held = held_
  BY <1>9
<1>15. r.data = rest_ /\ r.ret = "go" /\ r.out = <<>>
  <2> HIDE DEF m, a, rd
  <2> DEFINE rh == r.h
             rb == r.broken
  <2>1. r = [h |-> rh, data |-> rest_, ret |-> c.ret, out |-> c.out, broken |-> rb]  BY <1>9
  <2> HIDE DEF rh, rb
  <2> QED  BY <1>1, <2>1
<1>16. r.broken = FALSE
  <2>1. ASSUME s \notin {"iv", "auth", "extra"}  PROVE ~(Len(c.h.cache) + n > c.h.capacity)
    <3>1. size <= CacheSize(s) /\ CacheSize(s) \in Nat  BY <2>1, Layout DEF size
    <3>2. s # "extra"  BY <2>1
    <3>3. Len(c.h.cache) = rd  BY <1>4, <3>2
    <3> HIDE DEF rd, m
    <3> DEFINE cap == CacheSize(s)
    <3> HIDE DEF cap
    <3>4. ~(rd + n > cap)  BY <1>2, <1>3, <1>5, <1>6, <3>1 DEF cap
    <3> QED  BY <1>4, <3>3, <3>4 DEF cap
  <2> QED  BY <1>1, <1>9, <2>1
<1>17. r.h \in ImageHandles /\ r \in Calls
  <2>1. rd + n \in Nat  BY <1>2, <1>3, <1>6
  <2>2. r.h \in ImageHandles
    <3>1. s \in States  BY DEF States
    <3> DEFINE k == rd + n
    <3>2. r.h = [state |-> s, cache |-> cache, capacity |-> c.h.capacity, read |-> k,
                 held |-> held_]
      BY <1>9
    <3> HIDE DEF k
    <3> QED  BY <1>3, <1>10, <1>13, <2>1, <3>1, <3>2 DEF ImageHandles, k
  <2> DEFINE rh == r.h
  <2>3. r = [h |-> rh, data |-> rest_, ret |-> c.ret, out |-> c.out, broken |-> r.broken]  BY <1>9
  <2> HIDE DEF rh
  <2>4. c.ret \in {"go", "not finished", "fail", "ok"} /\ c.out \in Seq(Int)  BY <1>1 DEF Calls
  <2>5. rh \in ImageHandles /\ rest_ \in Seq(Int) /\ r.broken \in BOOLEAN  BY <1>8, <1>16, <2>2 DEF rh
  <2> DEFINE rb == r.broken
  <2>6. r = [h |-> rh, data |-> rest_, ret |-> c.ret, out |-> c.out, broken |-> rb]  BY <2>3
  <2>7. rb \in BOOLEAN  BY <2>5
  <2> HIDE DEF rb
  <2>8. r \in Calls  BY <2>4, <2>5, <2>6, <2>7 DEF Calls
  <2> QED  BY <2>2, <2>8
<1>18. e - Len(r.data) = a + n /\ Len(r.data) = m - n
  <2> HIDE DEF m
  <2> QED  BY <1>2, <1>6, <1>8, <1>15
<1>19. r.data = Stretch(e - Len(r.data), Len(r.data))  BY <1>8, <1>15, <1>18
<1>20. \A t \in Sections : r.h.held[t] = Stretch(At[t], Got(r.h, t))
  <2> SUFFICES ASSUME NEW t \in Sections PROVE r.h.held[t] = Stretch(At[t], Got(r.h, t))  OBVIOUS
  <2>1. CASE t = s
    <3>1. ~(Rank[s] < Rank[s])
      <4>1. Rank[s] \in 1..6  BY Layout
      <4> DEFINE k == Rank[s]
      <4> HIDE DEF k
      <4>2. ~(k < k)  BY <4>1 DEF k
      <4> QED  BY <4>2 DEF k
    <3>2. Got(r.h, t) = rd + n  BY <1>14, <2>1, <3>1 DEF Got
    <3> QED  BY <1>13, <1>14, <2>1, <3>2
  <2>2. CASE t # s
    <3>1. Got(r.h, t) = Got(c.h, t)  BY <1>14, <2>2 DEF Got
    <3> QED  BY <1>4, <1>13, <1>14, <2>2, <3>1
  <2> QED  BY <2>1, <2>2
<1>21. r.h.read <= size /\ e - Len(r.data) = At[s] + r.h.read
  <2> HIDE DEF a, rd, m
  <2>1. n \in Int /\ rd \in Int /\ a = At[s] + rd  BY <1>3, <1>2, <1>4, <1>6
  <2>2. a + n = At[s] + (rd + n)  BY <1>5, <2>1
  <2> QED  BY <1>6, <1>14, <1>18, <2>2
<1>22. ASSUME r.h.read # size  PROVE r.data = <<>>
  <2> HIDE DEF a, rd, m
  <2>1. n = m  BY <1>6, <1>14, <1>22
  <2>2. m - n = 0  BY <1>2, <2>1
  <2>3. rest_ = Stretch(a + n, 0) /\ a + n \in Int  BY <1>2, <1>6, <1>8, <2>2
  <2> QED  BY <1>15, <2>3, StretchEmpty
<1> QED
  BY <1>10, <1>14, <1>15, <1>16, <1>17, <1>19, <1>20, <1>21, <1>22 DEF ReadOf, size

\* A section that is complete leads into the next one.
LEMMA SectionDone ==
  ASSUME NEW r \in Calls, NEW pos \in Int, NEW s \in Sections,
         r.h.state = s, r.h.read = SectionSize[s], pos = At[s] + r.h.read,
         r.h.capacity = CacheSize(s),
         \A t \in Sections : r.h.held[t] = Stretch(At[t], Got(r.h, t)),
         s # "magic" => img.fault # "magic",
         s \notin {"magic", "key"} => img.fault # "key",
         Completed(r, s) # [r EXCEPT !.ret = "fail"]
  PROVE  LET d == Completed(r, s)
         IN /\ d \in Calls /\ d.data = r.data /\ d.ret = r.ret /\ d.out = r.out
            /\ d.broken = r.broken /\ HandleAt(d.h, pos, 0) /\ Rank[d.h.state] = Rank[s] + 1
<1> DEFINE d == Completed(r, s)
           next == NextState[s]
           g == [state |-> next, cache |-> <<>>,
                 capacity |-> IF s = "key" THEN BlockLen ELSE r.h.capacity,
                 read |-> 0, held |-> r.h.held]
<1>1. /\ d = [h |-> g, data |-> r.data, ret |-> r.ret, out |-> r.out, broken |-> r.broken]
      /\ s = "magic" => img.fault # "magic"
      /\ s = "key" => img.fault # "key"
  BY CompletedIs
<1>2. /\ next \in States /\ At[next] = At[s] + SectionSize[s] /\ Rank[next] = Rank[s] + 1
      /\ next # "magic" /\ (next = "key" <=> s = "magic")
      /\ next # "binary" => CacheSize(next) = IF s = "key" THEN BlockLen ELSE CacheSize(s)
      /\ Rank[s] \in 1..6 /\ BlockLen \in Nat \ {0} /\ At["binary"] = HeaderLen
  BY Layout
<1> HIDE DEF d, next
<1>3. /\ r.h \in ImageHandles /\ r.data \in Seq(Int) /\ r.ret \in {"go", "not finished", "fail", "ok"}
      /\ r.out \in Seq(Int) /\ r.broken \in BOOLEAN
  BY DEF Calls
<1>4. r.h.capacity \in Nat /\ r.h.held \in [Sections -> Seq(Int)]  BY <1>3 DEF ImageHandles
<1>5. g \in ImageHandles
  <2> DEFINE room == IF s = "key" THEN BlockLen ELSE r.h.capacity
  <2>1. room \in Nat  BY <1>2, <1>4
  <2>2. g = [state |-> next, cache |-> <<>>, capacity |-> room, read |-> 0, held |-> r.h.held]
    OBVIOUS
  <2>3. <<>> \in Seq(Int)  OBVIOUS
  <2> HIDE DEF room, g
  <2> QED  BY <1>2, <1>4, <2>1, <2>2, <2>3 DEF ImageHandles
<1>6. /\ g.state = next /\ g.cache = <<>> /\ g.read = 0 /\ g.held = r.h.held
      /\ g.capacity = IF s = "key" THEN BlockLen ELSE r.h.capacity
  OBVIOUS
<1> HIDE DEF g
<1>7. \A t \in Sections : g.held[t] = Stretch(At[t], Got(g, t))
  <2> SUFFICES ASSUME NEW t \in Sections PROVE g.held[t] = Stretch(At[t], Got(g, t))  OBVIOUS
  <2>1. r.h.held[t] = Stretch(At[t], Got(r.h, t))  OBVIOUS
  <2>2. /\ Rank[t] \in Nat /\ (Rank[t] = Rank[s] => t = s) /\ (Rank[t] = Rank[next] => t = next)
    BY <1>2, Layout DEF States
  <2>3. Got(g, t) = IF Rank[t] < Rank[next] THEN SectionSize[t] ELSE 0
    BY <1>6 DEF Got
  <2>4. Got(r.h, t) = IF Rank[t] < Rank[s] THEN SectionSize[t]
                      ELSE IF t = s THEN SectionSize[s] ELSE 0
    BY DEF Got
  <2>5. Rank[t] < Rank[next] <=> (Rank[t] < Rank[s] \/ t = s)
    <3> DEFINE i == Rank[t]
               j == Rank[s]
               k == Rank[next]
    <3>1. i \in Nat /\ j \in Nat /\ k = j + 1 /\ (i = j => t = s) /\ (t = s => i = j)
      BY <1>2, <2>2
    <3> HIDE DEF i, j, k
    <3>2. i < k <=> (i < j \/ t = s)  BY <3>1
    <3> QED  BY <3>2 DEF i, j, k
  <2>6. Got(g, t) = Got(r.h, t)
    <3>1. CASE t = s  BY <2>3, <2>4, <2>5, <3>1
    <3>2. CASE t # s  BY <2>3, <2>4, <2>5, <3>2
    <3> QED  BY <3>1, <3>2
  <2> QED  BY <1>6, <2>1, <2>6
<1>8. ASSUME next \in Sections  PROVE InSection(g, pos)
  <2>1. SectionSize[next] \in Nat \ {0} /\ next # "binary" /\ At[next] \in Nat
    BY <1>8, Layout DEF Sections
  <2>2. g.read < SectionSize[g.state]  BY <1>6, <2>1
  <2>3. pos = At[g.state] + g.read  BY <1>2, <1>6, <2>1
  <2>4. Len(g.cache) = IF g.state = "extra" THEN 0 ELSE g.read  BY <1>6
  <2>5. g.capacity = CacheSize(g.state)
    <3>1. CacheSize(next) = IF s = "key" THEN BlockLen ELSE CacheSize(s)  BY <1>2, <2>1
    <3> QED  BY <1>6, <3>1
  <2> QED  BY <2>2, <2>3, <2>4, <2>5 DEF InSection
<1>9. ASSUME next = "binary"  PROVE InBinary(g, pos, 0)
  <2>1. HeaderLen \in Nat /\ pos = HeaderLen  BY <1>2, <1>9, Layout
  <2>2. Len(g.cache) = 0  BY <1>6
  <2>3. g.cache = Stretch(HeaderLen + 0, Len(g.cache))  BY <1>6, <2>1, <2>2, StretchEmpty
  <2>4. g.read = 0 /\ 0 = g.read - Len(g.cache) /\ pos = HeaderLen + g.read
    <3>1. HeaderLen + 0 = HeaderLen /\ 0 - 0 = 0  BY <2>1
    <3>2. g.read = 0  BY <1>6
    <3> QED  BY <2>1, <2>2, <3>1, <3>2
  <2>5. Len(g.cache) < BlockLen  BY <1>2, <2>2
  <2> QED  BY <2>3, <2>4, <2>5 DEF InBinary
<1>10. HandleAt(g, pos, 0)
  <2>1. g.state \notin {"magic", "key"} => s # "magic"  BY <1>2, <1>6
  <2>2. g.state # "magic" => img.fault # "magic"  BY <1>1
  <2>3. g.state \notin {"magic", "key"} => img.fault # "key"  BY <1>1, <2>1
  <2> QED  BY <1>5, <1>6, <1>7, <1>8, <1>9, <2>2, <2>3 DEF HandleAt
<1>11. d.h = g /\ d.data = r.data /\ d.ret = r.ret /\ d.out = r.out /\ d.broken = r.broken
  BY <1>1
<1>12. d \in Calls
  <2>1. d = [h |-> g, data |-> r.data, ret |-> r.ret, out |-> r.out, broken |-> r.broken]  BY <1>1
  <2> QED  BY <1>3, <1>5, <2>1 DEF Calls
<1> QED  BY <1>2, <1>6, <1>10, <1>11, <1>12 DEF d

\* One section of a call
LEMMA SectionStep ==
  ASSUME NEW c, NEW e \in Int, NEW p \in Int, NEW s \in Sections, HeaderCall(c, e, p, Rank[s])
  PROVE  HeaderCall(Section(c, s), e, p, Rank[s] + 1)
<1>1. CASE c.ret # "go"
  <2>1. Section(c, s) = c  BY <1>1 DEF Section
  <2>2. HeaderCall(c, e, p, Rank[s] + 1)  BY <1>1 DEF HeaderCall
  <2> QED  BY <2>1, <2>2
<1>2. CASE c.ret = "go" /\ c.h.state # s
  <2>1. Section(c, s) = c  BY <1>2 DEF Section
  <2>2. Rank[c.h.state] >= Rank[s] + 1
    <3>1. c.h.state \in States /\ s \in States /\ Rank[c.h.state] >= Rank[s]
      BY <1>2 DEF HeaderCall, Calls, ImageHandles, States
    <3>2. Rank[s] \in Nat /\ Rank[c.h.state] \in Nat /\ Rank[c.h.state] # Rank[s]
      BY <1>2, <3>1, Layout
    <3> DEFINE i == Rank[c.h.state]
               j == Rank[s]
    <3> HIDE DEF i, j
    <3>3. i >= j + 1  BY <3>1, <3>2 DEF i, j
    <3> QED  BY <3>3 DEF i, j
  <2>3. HeaderCall(c, e, p, Rank[s] + 1)  BY <1>2, <2>2 DEF HeaderCall
  <2> QED  BY <2>1, <2>3
<1>3. CASE c.ret = "go" /\ c.h.state = s
  <2> DEFINE r == ReadAndCache(c, s)
             pos == e - Len(r.data)
  <2>1. /\ r \in Calls /\ r.ret = "go" /\ r.out = <<>> /\ r.broken = FALSE
        /\ r.data = Stretch(pos, Len(r.data)) /\ r.h.state = s
        /\ \A t \in Sections : r.h.held[t] = Stretch(At[t], Got(r.h, t))
        /\ r.h.read <= SectionSize[s] /\ pos = At[s] + r.h.read
        /\ Len(r.h.cache) = IF s = "extra" THEN 0 ELSE r.h.read
        /\ r.h.capacity = c.h.capacity
        /\ r.h.read # SectionSize[s] => r.data = <<>>
    <3>1. c.ret = "go" /\ c.h.state = s /\ r = ReadAndCache(c, s)  BY <1>3
    <3> HIDE DEF r
    <3>2. ReadOf(c, r, e, s)  BY <3>1, SectionReads
    <3> QED  BY <3>2 DEF ReadOf
  <2>2. Section(c, s) = IF r.h.read = SectionSize[s] THEN Completed(r, s)
                        ELSE [r EXCEPT !.ret = "not finished"]
    BY <1>3 DEF Section
  <2> HIDE DEF r
  <2>3. /\ c.h.capacity = CacheSize(s) /\ p = 0
        /\ s # "magic" => img.fault # "magic"
        /\ s \notin {"magic", "key"} => img.fault # "key"
    BY <1>3 DEF HeaderCall, HandleAt, InSection
  <2>4. /\ r.h \in ImageHandles /\ r.data \in Seq(Int) /\ pos \in Int
        /\ r = [h |-> r.h, data |-> r.data, ret |-> r.ret, out |-> r.out, broken |-> r.broken]
        /\ SectionSize[s] \in Nat /\ r.h.read \in Nat
    <3>1. r.h \in ImageHandles /\ r.data \in Seq(Int)  BY <2>1 DEF Calls
    <3>2. Len(r.data) \in Nat  BY <3>1
    <3>3. pos \in Int  BY <3>2
    <3>4. r = [h |-> r.h, data |-> r.data, ret |-> r.ret, out |-> r.out, broken |-> r.broken]
      BY <2>1 DEF Calls
    <3>5. r.h.read \in Nat  BY <3>1 DEF ImageHandles
    <3> QED  BY <3>1, <3>3, <3>4, <3>5, Layout
  <2>5. ASSUME NEW x, x \in {"not finished", "fail"}
        PROVE  LET d == [r EXCEPT !.ret = x]
               IN /\ d \in Calls /\ d.h = r.h /\ d.data = r.data /\ d.ret = x /\ d.out = <<>>
                  /\ d.broken = FALSE
    <3> DEFINE d == [r EXCEPT !.ret = x]
               rh == r.h
               rd == r.data
               ro == r.out
               rb == r.broken
               rt == r.ret
    <3>1. /\ r = [h |-> rh, data |-> rd, ret |-> rt, out |-> ro, broken |-> rb]
          /\ rh \in ImageHandles /\ rd \in Seq(Int) /\ ro = <<>> /\ rb = FALSE
      BY <2>1, <2>4
    <3> HIDE DEF rh, rd, rt, ro, rb
    <3>2. d = [h |-> rh, data |-> rd, ret |-> x, out |-> ro, broken |-> rb]  BY <3>1
    <3> HIDE DEF d
    <3>3. d.h = rh /\ d.data = rd /\ d.ret = x /\ d.out = <<>> /\ d.broken = FALSE  BY <3>1, <3>2
    <3>4. d \in Calls
      <4>1. x \in {"go", "not finished", "fail", "ok"}  BY <2>5
      <4>2. <<>> \in Seq(Int) /\ FALSE \in BOOLEAN  OBVIOUS
      <4>3. ro \in Seq(Int)  BY <3>1, <4>2
      <4>4. rb \in BOOLEAN  BY <3>1, <4>2
      <4> QED  BY <3>1, <3>2, <4>1, <4>3, <4>4 DEF Calls
    <3> QED  BY <3>3, <3>4 DEF d, rh, rd
  <2>6. CASE r.h.read # SectionSize[s]
    <3> DEFINE d == [r EXCEPT !.ret = "not finished"]
    <3>1. /\ d \in Calls /\ d.h = r.h /\ d.data = r.data /\ d.ret = "not finished" /\ d.out = <<>>
          /\ d.broken = FALSE
      BY <2>5
    <3> HIDE DEF d
    <3>2. r.data = <<>> /\ Len(r.data) = 0 /\ pos = e  BY <2>1, <2>6
    <3>3. HandleAt(r.h, e, p)
      <4>1. r.h.read < SectionSize[s]
        <5> DEFINE i == r.h.read
                   j == SectionSize[s]
        <5> HIDE DEF i, j
        <5>1. i < j  BY <2>1, <2>4, <2>6 DEF i, j
        <5> QED  BY <5>1 DEF i, j
      <4>2. InSection(r.h, e)  BY <2>1, <2>3, <3>2, <4>1 DEF InSection
      <4>3. s # "binary"  BY DEF Sections
      <4> QED  BY <2>1, <2>3, <2>4, <4>2, <4>3 DEF HandleAt
    <3>4. HeaderCall(d, e, p, Rank[s] + 1)
      BY <2>1, <3>1, <3>3 DEF HeaderCall
    <3> QED  BY <2>2, <2>6, <3>4 DEF d
  <2>7. CASE r.h.read = SectionSize[s] /\ Completed(r, s) = [r EXCEPT !.ret = "fail"]
    <3> DEFINE d == [r EXCEPT !.ret = "fail"]
    <3>1. /\ d \in Calls /\ d.h = r.h /\ d.data = r.data /\ d.ret = "fail" /\ d.out = <<>>
          /\ d.broken = FALSE
      BY <2>5
    <3> HIDE DEF d
    <3>2. HeaderCall(d, e, p, Rank[s] + 1)  BY <2>1, <3>1 DEF HeaderCall
    <3> QED  BY <2>2, <2>7, <3>2 DEF d
  <2>8. CASE r.h.read = SectionSize[s] /\ Completed(r, s) # [r EXCEPT !.ret = "fail"]
    <3> DEFINE d == Completed(r, s)
    <3>1. /\ d \in Calls /\ d.data = r.data /\ d.ret = r.ret /\ d.out = r.out
          /\ d.broken = r.broken /\ HandleAt(d.h, pos, 0) /\ Rank[d.h.state] = Rank[s] + 1
      BY <2>1, <2>3, <2>4, <2>8, SectionDone
    <3> HIDE DEF d
    <3>2. Rank[d.h.state] >= Rank[s] + 1
      <4>1. Rank[s] + 1 \in Nat  BY Layout
      <4> QED  BY <3>1, <4>1
    <3>3. HeaderCall(d, e, p, Rank[s] + 1)  BY <2>1, <2>3, <3>1, <3>2 DEF HeaderCall
    <3> QED  BY <2>2, <2>8, <3>3 DEF d
  <2> QED  BY <2>6, <2>7, <2>8
<1> QED  BY <1>1, <1>2, <1>3

\* What is left when the header has been gone through
LEMMA HeaderStep ==
  ASSUME NEW c, NEW e \in Int, NEW p \in Int, HeaderCall(c, e, p, 1)
  PROVE  LET d == Header(c)
         IN HeaderCall(d, e, p, 7) /\ (d.ret = "go" => d.h.state = "binary")
<1> DEFINE c1 == Section(c, "magic")
           c2 == Section(c1, "key")
           c3 == Section(c2, "iv")
           c4 == Section(c3, "size")
           c5 == Section(c4, "auth")
           c6 == Section(c5, "extra")
<1>1. /\ Rank["magic"] = 1 /\ Rank["key"] = 2 /\ Rank["iv"] = 3 /\ Rank["size"] = 4
      /\ Rank["auth"] = 5 /\ Rank["extra"] = 6 /\ Rank["binary"] = 7
  BY DEF Rank
<1>2. Sections = {"magic", "key", "iv", "size", "auth", "extra"}  BY DEF Sections
<1>3. HeaderCall(c1, e, p, 2)
  <2>1. "magic" \in Sections /\ Rank["magic"] + 1 = 2 /\ HeaderCall(c, e, p, Rank["magic"])
    BY <1>1, <1>2
  <2> QED  BY <2>1, SectionStep
<1> HIDE DEF c1
<1>4. HeaderCall(c2, e, p, 3)
  <2>1. "key" \in Sections /\ Rank["key"] + 1 = 3 /\ HeaderCall(c1, e, p, Rank["key"])
    BY <1>1, <1>2, <1>3
  <2> QED  BY <2>1, SectionStep
<1> HIDE DEF c2
<1>5. HeaderCall(c3, e, p, 4)
  <2>1. "iv" \in Sections /\ Rank["iv"] + 1 = 4 /\ HeaderCall(c2, e, p, Rank["iv"])
    BY <1>1, <1>2, <1>4
  <2> QED  BY <2>1, SectionStep
<1> HIDE DEF c3
<1>6. HeaderCall(c4, e, p, 5)
  <2>1. "size" \in Sections /\ Rank["size"] + 1 = 5 /\ HeaderCall(c3, e, p, Rank["size"])
    BY <1>1, <1>2, <1>5
  <2> QED  BY <2>1, SectionStep
<1> HIDE DEF c4
<1>7. HeaderCall(c5, e, p, 6)
  <2>1. "auth" \in Sections /\ Rank["auth"] + 1 = 6 /\ HeaderCall(c4, e, p, Rank["auth"])
    BY <1>1, <1>2, <1>6
  <2> QED  BY <2>1, SectionStep
<1> HIDE DEF c5
<1>8. HeaderCall(c6, e, p, 7)
  <2>1. "extra" \in Sections /\ Rank["extra"] + 1 = 7 /\ HeaderCall(c5, e, p, Rank["extra"])
    BY <1>1, <1>2, <1>7
  <2> QED  BY <2>1, SectionStep
<1> HIDE DEF c6
<1>9. ASSUME c6.ret = "go"  PROVE c6.h.state = "binary"
  <2>1. c6.h.state \in States /\ Rank[c6.h.state] >= 7
    BY <1>8, <1>9 DEF HeaderCall, Calls, ImageHandles
  <2>2. \A s \in Sections : ~(Rank[s] >= 7)
    <3> SUFFICES ASSUME NEW s \in Sections PROVE ~(Rank[s] >= 7)  OBVIOUS
    <3>1. Rank[s] \in 1..6  BY Layout
    <3> DEFINE k == Rank[s]
    <3> HIDE DEF k
    <3>2. ~(k >= 7)  BY <3>1 DEF k
    <3> QED  BY <3>2 DEF k
  <2> QED  BY <2>1, <2>2 DEF States
<1> QED  BY <1>8, <1>9 DEF Header, c1, c2, c3, c4, c5, c6

\* The ciphers' calls, and the end of a call
\* The cipher may be called with b.
MayFeed(c, b, dec_len, room, unit) ==
  /\ c \in Calls /\ b \in Seq(Int) /\ room \in Nat /\ c.broken = FALSE
  /\ dec_len = Len(c.out) /\ Len(c.out) + Len(b) <= room /\ Len(b) % unit = 0

LEMMA Fed ==
  ASSUME NEW c, NEW b, NEW dec_len, NEW room, NEW unit, MayFeed(c, b, dec_len, room, unit)
  PROVE  Update(c, b, dec_len, room, unit) =
           [h |-> c.h, data |-> c.data, ret |-> c.ret, out |-> c.out \o b, broken |-> FALSE]
<1> DEFINE o == c.out \o b
           x == \/ c.broken \/ dec_len # Len(c.out) \/ Len(c.out) + Len(b) > room
                \/ Len(b) % unit # 0
<1>1. Update(c, b, dec_len, room, unit) = [c EXCEPT !.out = o, !.broken = x]  BY DEF Update
<1>2. /\ c = [h |-> c.h, data |-> c.data, ret |-> c.ret, out |-> c.out, broken |-> c.broken]
      /\ c.out \in Seq(Int) /\ b \in Seq(Int) /\ room \in Nat
  BY DEF MayFeed, Calls
<1>3. ~(Len(c.out) + Len(b) > room)
  <2> DEFINE i == Len(c.out)
             j == Len(b)
  <2>1. i \in Nat /\ j \in Nat /\ i + j <= room /\ room \in Nat  BY <1>2 DEF MayFeed
  <2> HIDE DEF i, j
  <2>2. ~(i + j > room)  BY <2>1
  <2> QED  BY <2>2 DEF i, j
<1>4. x = FALSE  BY <1>3 DEF MayFeed
<1> HIDE DEF o, x
<1> QED  BY <1>1, <1>2, <1>4 DEF o

Ending(c, a, x) == [c EXCEPT !.h.cache = a, !.ret = x]

LEMMA Ended ==
  ASSUME NEW c \in Calls, NEW a, NEW x
  PROVE  Ending(c, a, x) =
           [h |-> [state |-> c.h.state, cache |-> a, capacity |-> c.h.capacity,
                   read |-> c.h.read, held |-> c.h.held],
            data |-> c.data, ret |-> x, out |-> c.out, broken |-> c.broken]
<1> DEFINE g == c.h
           cd == c.data
           cr == c.ret
           co == c.out
           cb == c.broken
           g1 == [g EXCEPT !.cache = a]
           c1 == [c EXCEPT !.h = g1]
<1>1. /\ c = [h |-> g, data |-> cd, ret |-> cr, out |-> co, broken |-> cb]
      /\ g = [state |-> g.state, cache |-> g.cache, capacity |-> g.capacity, read |-> g.read,
              held |-> g.held]
  BY DEF Calls, ImageHandles
<1>2. Ending(c, a, x) = [c1 EXCEPT !.ret = x]  BY <1>1 DEF Ending
<1> HIDE DEF g, cd, cr, co, cb
<1>3. g1 = [state |-> g.state, cache |-> a, capacity |-> g.capacity, read |-> g.read,
            held |-> g.held]
  BY <1>1
<1> HIDE DEF g1
<1>4. c1 = [h |-> g1, data |-> cd, ret |-> cr, out |-> co, broken |-> cb]  BY <1>1
<1> HIDE DEF c1
<1>5. [c1 EXCEPT !.ret = x] = [h |-> g1, data |-> cd, ret |-> x, out |-> co, broken |-> cb]
  BY <1>4
<1> QED  BY <1>2, <1>3, <1>5 DEF g, cd, co, cb

\* A call whose buffers are all right so far, with k cached bytes and m more
\* that follow them
Whole(r, a, k, m) ==
  /\ r \in Calls /\ r.h.cache = Stretch(a, k) /\ r.data = Stretch(a + k, m)
  /\ r.out = <<>> /\ r.broken = FALSE

\* d: the call c when it has put out o
PutBy(d, c, o) ==
  /\ d \in Calls
  /\ d = [h |-> c.h, data |-> c.data, ret |-> c.ret, out |-> o, broken |-> FALSE]

\* r with the bytes up to n put out, and the rest of the k + m cached
PutOut(r, a, n, t, how) ==
  [h |-> [state |-> r.h.state, cache |-> Stretch(a + n, t), capacity |-> r.h.capacity,
          read |-> r.h.read, held |-> r.h.held],
   data |-> r.data, ret |-> how, out |-> Stretch(a, n), broken |-> FALSE]

\* The cached bytes filled up are put out first.
Filled(r, n) == r.h.cache \o SubSeq(r.data, 1, n)

LEMMA FilledIs ==
  ASSUME NEW r, NEW a \in Int, NEW k \in Nat, NEW m \in Nat, Whole(r, a, k, m), NEW n \in 0..m
  PROVE  LET blk == Filled(r, n)
         IN blk = Stretch(a, k + n) /\ blk \in Seq(Int) /\ Len(blk) = k + n
<1> DEFINE got == SubSeq(r.data, 1, n)
           blk == Filled(r, n)
<1>1. r.h.cache = Stretch(a, k) /\ r.data = Stretch(a + k, m)  BY DEF Whole
<1>2. got = Stretch(a + k, n)
  <2> DEFINE z == a + k
  <2>1. z \in Int /\ 0 \in 0..m /\ n \in 0..m /\ z + 0 = z /\ n - 0 = n /\ 0 + 1 = 1  OBVIOUS
  <2> HIDE DEF z
  <2>2. SubSeq(Stretch(z, m), 0 + 1, n) = Stretch(z + 0, n - 0)  BY <2>1, StretchCut
  <2>3. SubSeq(Stretch(z, m), 1, n) = Stretch(z, n)  BY <2>1, <2>2
  <2> QED  BY <1>1, <2>3 DEF z
<1>3. blk = Stretch(a, k + n)
  <2>1. n \in Nat  OBVIOUS
  <2>2. Stretch(a, k) \o Stretch(a + k, n) = Stretch(a, k + n)  BY <2>1, StretchJoin
  <2> QED  BY <1>1, <1>2, <2>2 DEF Filled
<1>4. blk \in Seq(Int) /\ Len(blk) = k + n
  <2> DEFINE j == k + n
  <2>1. j \in Nat  OBVIOUS
  <2> HIDE DEF j
  <2>2. Stretch(a, j) \in Seq(Int) /\ Len(Stretch(a, j)) = j  BY <2>1, StretchIs
  <2> QED  BY <1>3, <2>2 DEF j
<1> HIDE DEF blk
<1>5. blk = Stretch(a, k + n) /\ blk \in Seq(Int) /\ Len(blk) = k + n  BY <1>3, <1>4
<1> QED  BY <1>5 DEF blk

LEMMA FirstBlock ==
  ASSUME NEW r, NEW a \in Int, NEW k \in Nat, NEW m \in Nat, k < BlockLen, Whole(r, a, k, m),
         NEW n \in 0..m, NEW room \in Nat, NEW unit \in Nat \ {0}, k + n <= room,
         unit = 1 \/ (unit = BlockLen /\ k + n = BlockLen)
  PROVE  PutBy(Update(r, Filled(r, n), 0, room, unit), r, Stretch(a, k + n))
<1> DEFINE blk == Filled(r, n)
           first == Update(r, blk, 0, room, unit)
<1>1. /\ r \in Calls /\ r.h.cache = Stretch(a, k) /\ r.data = Stretch(a + k, m)
      /\ r.out = <<>> /\ r.broken = FALSE
  BY DEF Whole
<1>4. blk = Stretch(a, k + n) /\ blk \in Seq(Int) /\ Len(blk) = k + n
  <2> HIDE DEF first
  <2> QED  BY FilledIs
<1> HIDE DEF blk
<1>5. Len(blk) % unit = 0
  <2> DEFINE i == k + n
  <2>1. Len(blk) = i /\ i \in Nat /\ BlockLen \in Nat \ {0}
    <3>1. BlockLen \in Nat \ {0}  BY ImageAssumption
    <3>2. k + n \in Nat  OBVIOUS
    <3> QED  BY <1>4, <3>1, <3>2
  <2> HIDE DEF i
  <2>2. i % 1 = 0  BY <2>1
  <2>3. i = BlockLen => i % BlockLen = 0
    <3> DEFINE b == BlockLen
    <3>2. b \in Nat \ {0} /\ b * 1 + 0 = b /\ 0 \in 0..b - 1 /\ 1 \in Nat  BY <2>1
    <3> HIDE DEF b
    <3>3. (b * 1 + 0) % b = 0  BY <3>2, BlocksOf
    <3>4. b % b = 0  BY <3>2, <3>3
    <3> QED  BY <3>4 DEF b
  <2>4. unit = 1 \/ (unit = BlockLen /\ i = BlockLen)  BY DEF i
  <2>5. CASE unit = 1  BY <2>1, <2>2, <2>5
  <2>6. CASE unit = BlockLen /\ i = BlockLen  BY <2>1, <2>3, <2>6
  <2> QED  BY <2>4, <2>5, <2>6
<1>6. 0 = Len(r.out) /\ Len(r.out) + Len(blk) <= room  BY <1>1, <1>4
<1>7. first = [h |-> r.h, data |-> r.data, ret |-> r.ret, out |-> r.out \o blk, broken |-> FALSE]
  <2>1. r \in Calls /\ blk \in Seq(Int) /\ r.broken = FALSE /\ 0 \in Nat  BY <1>1, <1>4
  <2>2. Update(r, blk, 0, room, unit) =
          [h |-> r.h, data |-> r.data, ret |-> r.ret, out |-> r.out \o blk, broken |-> FALSE]
    <3>1. MayFeed(r, blk, 0, room, unit)  BY <1>5, <1>6, <2>1 DEF MayFeed
    <3> QED  BY <3>1, Fed
  <2> QED  BY <2>2
<1>8. r.out \o blk = Stretch(a, k + n)
  <2>1. <<>> \o blk = blk  BY <1>4, ConcatEmptySeq
  <2> QED  BY <1>1, <1>4, <2>1
<1> HIDE DEF first
<1>9. first = [h |-> r.h, data |-> r.data, ret |-> r.ret, out |-> blk, broken |-> FALSE]
  BY <1>4, <1>7, <1>8
<1>10. first \in Calls
  <2>1. /\ r.h \in ImageHandles /\ r.data \in Seq(Int)
        /\ r.ret \in {"go", "not finished", "fail", "ok"}
    BY <1>1 DEF Calls
  <2> QED  BY <1>4, <1>9, <2>1 DEF Calls
<1> QED  BY <1>4, <1>9, <1>10 DEF first, PutBy, blk

\* The bytes from n up to w are put out behind the q that were.
Piece(c, n, w) == SubSeq(c.data, n + 1, w)

LEMMA PieceIs ==
  ASSUME NEW c, NEW z \in Int, NEW m \in Nat, NEW n \in 0..m, NEW w \in n..m, c.data = Stretch(z, m)
  PROVE  Piece(c, n, w) = Stretch(z + n, w - n)
<1>1. SubSeq(Stretch(z, m), n + 1, w) = Stretch(z + n, w - n)  BY StretchCut, Zenon
<1> QED  BY <1>1 DEF Piece

\* c, whose first q bytes are put out, has j more that follow them.
Continues(c, a, q, z, m, n, j) ==
  /\ c \in Calls /\ c.out = Stretch(a, q) /\ c.broken = FALSE /\ c.data = Stretch(z, m)
  /\ a \in Int /\ q \in Nat /\ z \in Int /\ m \in Nat /\ n \in Nat /\ j \in Nat
  /\ n + j <= m /\ a + q = z + n

LEMMA NextBlocks ==
  ASSUME NEW c, NEW a, NEW q, NEW z, NEW m, NEW n, NEW j, Continues(c, a, q, z, m, n, j),
         NEW room \in Nat, NEW unit \in Nat \ {0}, q + j <= room, j % unit = 0,
         NEW dec_len \in Nat, j # 0 => dec_len = q,
         NEW more, more = Piece(c, n, n + j),
         NEW d, d = IF more = <<>> THEN c ELSE Update(c, more, dec_len, room, unit)
  PROVE  PutBy(d, c, Stretch(a, q + j))
<1>1. /\ c \in Calls /\ c.out = Stretch(a, q) /\ c.broken = FALSE /\ c.data = Stretch(z, m)
      /\ a \in Int /\ q \in Nat /\ z \in Int /\ m \in Nat /\ n \in Nat /\ j \in Nat
      /\ n + j <= m /\ a + q = z + n
  BY DEF Continues
<1>2. q + j \in Nat /\ a + q \in Int  BY <1>1
<1>3. more = Stretch(a + q, j) /\ more \in Seq(Int) /\ Len(more) = j
  <2> DEFINE y == a + q
  <2> DEFINE w == n + j
  <2>4. n \in 0..m /\ w \in n..m /\ w - n = j  BY <1>1
  <2>5. more = Piece(c, n, w)  OBVIOUS
  <2> HIDE DEF w
  <2>1. more = Stretch(z + n, j)  BY <1>1, <2>4, <2>5, PieceIs
  <2>2. more = Stretch(y, j)  BY <1>1, <2>1
  <2> HIDE DEF y
  <2>3. Stretch(y, j) \in Seq(Int) /\ Len(Stretch(y, j)) = j
    BY <1>1, <1>2, StretchIs DEF y
  <2> QED  BY <2>2, <2>3 DEF y
<1>4. more = <<>> <=> j = 0
  <2>1. Len(<<>>) = 0  OBVIOUS
  <2>2. Len(more) = 0 => more = <<>>
    <3>1. more \in Seq(Int) /\ <<>> \in Seq(Int)  BY <1>3
    <3> QED  BY <3>1, EmptySeq
  <2> QED  BY <1>3, <2>1, <2>2
<1>5. /\ c = [h |-> c.h, data |-> c.data, ret |-> c.ret, out |-> c.out, broken |-> c.broken]
      /\ c.h \in ImageHandles /\ c.data \in Seq(Int)
      /\ c.ret \in {"go", "not finished", "fail", "ok"}
  BY <1>1 DEF Calls
<1> DEFINE o == Stretch(a, q + j)
           e == [h |-> c.h, data |-> c.data, ret |-> c.ret, out |-> o, broken |-> FALSE]
<1>6. o \in Seq(Int)
  <2> DEFINE i == q + j
  <2> HIDE DEF i
  <2>1. Stretch(a, i) \in Seq(Int)  BY <1>1, <1>2, StretchIs DEF i
  <2> QED  BY <2>1 DEF i
<1> HIDE DEF o
<1>7. CASE j = 0
  <2>1. q + j = q /\ d = c  BY <1>1, <1>2, <1>4, <1>7
  <2>2. o = c.out  BY <1>1, <2>1 DEF o
  <2>3. d = e  BY <1>1, <1>5, <2>1, <2>2
  <2> QED  BY <1>1, <2>1, <2>3 DEF PutBy, o
<1>8. CASE j # 0
  <2>1. d = Update(c, more, dec_len, room, unit)  BY <1>2, <1>4, <1>8
  <2>2. Len(c.out) = q /\ dec_len = Len(c.out)  BY <1>1, <1>8, StretchIs
  <2>3. Len(c.out) + Len(more) <= room /\ Len(more) % unit = 0  BY <1>3, <2>2
  <2>4. d = [h |-> c.h, data |-> c.data, ret |-> c.ret, out |-> c.out \o more, broken |-> FALSE]
    <3>1. Update(c, more, dec_len, room, unit) =
            [h |-> c.h, data |-> c.data, ret |-> c.ret, out |-> c.out \o more, broken |-> FALSE]
      <4>1. MayFeed(c, more, dec_len, room, unit)  BY <1>1, <1>3, <2>2, <2>3 DEF MayFeed
      <4> QED  BY <4>1, Fed
    <3> QED  BY <2>1, <3>1
  <2>5. c.out \o more = o
    <3>1. Stretch(a, q) \o Stretch(a + q, j) = Stretch(a, q + j)
      <4>1. a \in Int /\ q \in Nat /\ j \in Nat  BY <1>1
      <4> QED  BY <4>1, StretchJoin
    <3> QED  BY <1>1, <1>3, <3>1 DEF o
  <2>6. d = e  BY <2>4, <2>5
  <2>7. e \in Calls  BY <1>5, <1>6 DEF Calls
  <2> QED  BY <2>6, <2>7 DEF PutBy, o
<1> QED  BY <1>7, <1>8

LEMMA TailIs ==
  ASSUME NEW z \in Int, NEW m \in Nat, NEW w \in 0..m
  PROVE  SubSeq(Stretch(z, m), w + 1, m) = Stretch(z + w, m - w)
<1> m \in w..m  OBVIOUS
<1> QED  BY StretchCut

\* A call with the last byte of the binary puts all of it out.
LEMMA Finishes ==
  ASSUME NEW r, NEW a \in Int, NEW k \in Nat, NEW m \in Nat, k < BlockLen, Whole(r, a, k, m)
  PROVE  Finish(r) = PutOut(r, a, k + m, 0, "ok")
<1> DEFINE n == Least(BlockLen - k, m)
           room == k + m
           blk == Filled(r, n)
           more == Piece(r, n, m)
           unit == IF more = <<>> THEN 1 ELSE BlockLen
           first == Update(r, blk, 0, room, unit)
           d == IF more = <<>> THEN first ELSE Update(first, more, BlockLen, room, 1)
<1>1. /\ r \in Calls /\ r.h.cache = Stretch(a, k) /\ r.data = Stretch(a + k, m)
      /\ r.out = <<>> /\ r.broken = FALSE
  BY DEF Whole
<1>2. Len(r.h.cache) = k /\ Len(r.data) = m
  <2> DEFINE z == a + k
  <2>1. z \in Int  OBVIOUS
  <2> HIDE DEF z
  <2>2. Len(Stretch(z, m)) = m /\ Len(Stretch(a, k)) = k  BY <2>1, StretchIs
  <2> QED  BY <1>1, <2>2 DEF z
<1>3. /\ n \in 0..m /\ k + n <= room /\ room \in Nat /\ (n # m => k + n = BlockLen)
      /\ BlockLen \in Nat
  BY ImageAssumption DEF Least
<1>4. Finish(r) = Ending(d, <<>>, "ok")
  <2> HIDE DEF n
  <2>1. Least(BlockLen - Len(r.h.cache), Len(r.data)) = n
    BY <1>2 DEF n
  <2> QED  BY <1>2, <2>1 DEF Finish, Ending, Filled, Piece
<1> HIDE DEF n, room
<1>5. more = Stretch(a + k + n, m - n) /\ (more = <<>> <=> n = m)
  <2> DEFINE z == a + k
             j == m - n
             y == z + n
  <2>1. z \in Int /\ j \in Nat /\ (j = 0 <=> n = m) /\ y \in Int  BY <1>3
  <2>2. SubSeq(Stretch(z, m), n + 1, m) = Stretch(y, j)
    <3> HIDE DEF z
    <3> QED  BY <1>3, <2>1, TailIs
  <2> HIDE DEF y, j, z
  <2>3. Len(Stretch(y, j)) = j /\ Stretch(y, j) \in Seq(Int)  BY <2>1, StretchIs
  <2>4. more = Stretch(y, j)  BY <1>1, <2>2 DEF z, Piece
  <2>5. more = <<>> <=> j = 0
    <3> HIDE DEF more
    <3> QED  BY <2>3, <2>4
  <2> QED  BY <2>1, <2>4, <2>5 DEF y, j, z
<1>6. unit \in Nat \ {0} /\ (unit = 1 \/ (unit = BlockLen /\ k + n = BlockLen))
  <2>1. BlockLen \in Nat \ {0}  BY ImageAssumption
  <2> HIDE DEF more
  <2> QED  BY <1>3, <1>5, <2>1
<1> HIDE DEF unit, blk
<1>7. PutBy(first, r, Stretch(a, k + n))
  <2> HIDE DEF first, more, d
  <2>1. PutBy(Update(r, Filled(r, n), 0, room, unit), r, Stretch(a, k + n))
    BY <1>3, <1>6, FirstBlock
  <2> QED  BY <2>1 DEF first, blk
<1> HIDE DEF first
<1>8. /\ first \in Calls /\ first.h = r.h /\ first.data = r.data /\ first.ret = r.ret
      /\ first.out = Stretch(a, k + n) /\ first.broken = FALSE
  BY <1>7 DEF PutBy
<1>9. PutBy(d, first, Stretch(a, k + m))
  <2> DEFINE q == k + n
             z == a + k
             j == m - n
  <2>1. /\ q \in Nat /\ z \in Int /\ a + q = z + n /\ n + j = m /\ q + j <= room
        /\ (j # 0 => BlockLen = q) /\ j \in Nat /\ n \in Nat /\ q + j = k + m /\ j % 1 = 0
    BY <1>3 DEF room
  <2>2. first.out = Stretch(a, q) /\ first.broken = FALSE /\ first.data = Stretch(z, m)
    BY <1>1, <1>8
  <2> HIDE DEF q, z, j
  <2>3. more = Piece(first, n, n + j)  BY <1>1, <1>8, <2>1 DEF Piece
  <2> HIDE DEF more, d
  <2>4. d = IF more = <<>> THEN first ELSE Update(first, more, BlockLen, room, 1)  BY DEF d
  <2>5. PutBy(d, first, Stretch(a, q + j))
    <3>1. first \in Calls /\ n + j <= m  BY <1>3, <1>8, <2>1
    <3>2. Continues(first, a, q, z, m, n, j)  BY <2>1, <2>2, <3>1 DEF Continues
    <3>3. room \in Nat /\ q + j <= room /\ j % 1 = 0 /\ (j # 0 => BlockLen = q) /\ 1 \in Nat \ {0}
      BY <1>3, <2>1
    <3> QED  BY <1>3, <2>3, <2>4, <3>2, <3>3, NextBlocks
  <2> QED  BY <2>1, <2>5
<1> HIDE DEF d
<1>10. /\ d = [h |-> r.h, data |-> r.data, ret |-> r.ret, out |-> Stretch(a, k + m), broken |-> FALSE]
       /\ d \in Calls
  BY <1>8, <1>9 DEF PutBy
<1>11. Ending(d, <<>>, "ok") =
         [h |-> [state |-> d.h.state, cache |-> <<>>, capacity |-> d.h.capacity,
                 read |-> d.h.read, held |-> d.h.held],
          data |-> d.data, ret |-> "ok", out |-> d.out, broken |-> d.broken]
  <2>1. d \in Calls  BY <1>10
  <2> HIDE DEF room
  <2> QED  BY <2>1, Ended
<1>12. d.h = r.h /\ d.data = r.data /\ d.out = Stretch(a, k + m) /\ d.broken = FALSE
  BY <1>10
<1>13. Stretch(a + (k + m), 0) = <<>>
  <2>1. a + (k + m) \in Int  OBVIOUS
  <2> QED  BY <2>1, StretchEmpty
<1> QED  BY <1>4, <1>11, <1>12, <1>13 DEF PutOut

\* A call before the last byte of the binary puts out whole blocks.
LEMMA GoesOn ==
  ASSUME NEW r, NEW a \in Int, NEW k \in Nat, NEW m \in Nat, k < BlockLen, Whole(r, a, k, m)
  PROVE  \E n \in Nat, t \in Nat :
           /\ n + t = k + m /\ t < BlockLen
           /\ GoOn(r) = PutOut(r, a, n, t, "not finished")
<1> DEFINE n == IF k # 0 THEN Least(BlockLen - k, m) ELSE 0
           room == ((k + m) \div BlockLen) * BlockLen
           blk == Filled(r, n)
           x == m - n
           t == x % BlockLen
           j == x - t
           first == IF k = 0 THEN r ELSE Update(r, blk, 0, room, BlockLen)
           whole == Piece(r, n, m - t)
           d == IF whole = <<>> THEN first
                ELSE Update(first, whole, IF k # 0 THEN BlockLen ELSE 0, room, BlockLen)
<1>1. /\ r \in Calls /\ r.h.cache = Stretch(a, k) /\ r.data = Stretch(a + k, m)
      /\ r.out = <<>> /\ r.broken = FALSE
  BY DEF Whole
<1>2. Len(r.h.cache) = k /\ Len(r.data) = m
  <2> DEFINE z == a + k
  <2>1. z \in Int  OBVIOUS
  <2> HIDE DEF z
  <2>2. Len(Stretch(z, m)) = m /\ Len(Stretch(a, k)) = k  BY <2>1, StretchIs
  <2> QED  BY <1>1, <2>2 DEF z
<1>3. BlockLen \in Nat \ {0}  BY ImageAssumption
<1>4. /\ n \in 0..m /\ n \in Nat /\ x \in Nat /\ n + x = m /\ k + n <= BlockLen
      /\ (k = 0 => n = 0) /\ (k # 0 /\ k + n < BlockLen => n = m)
  BY <1>3 DEF Least
<1>5. GoOn(r) = IF k # 0 /\ Len(blk) # BlockLen
                THEN [r EXCEPT !.h.cache = blk, !.ret = "not finished"]
                ELSE Ending(d, Piece(r, m - t, m), "not finished")
  <2>1. n = IF Len(r.h.cache) # 0 THEN Least(BlockLen - Len(r.h.cache), Len(r.data)) ELSE 0
    BY <1>2
  <2> HIDE DEF n
  <2> QED  BY <1>2, <2>1 DEF GoOn, Ending, Filled, Piece
<1> HIDE DEF n, d
<1>6. blk = Stretch(a, k + n) /\ Len(blk) = k + n
  <2>1. blk = Filled(r, n)  OBVIOUS
  <2> HIDE DEF blk, room, x, t, j, first, whole
  <2> QED  BY <1>4, <2>1, FilledIs
<1>7. CASE k # 0 /\ k + n # BlockLen
  <2>1. n = m /\ k + n = k + m /\ k + m \in Nat /\ k + m < BlockLen  BY <1>3, <1>4, <1>7
  <2>2. GoOn(r) = Ending(r, Stretch(a, k + m), "not finished")
    BY <1>5, <1>6, <1>7, <2>1 DEF Ending
  <2>3. Ending(r, Stretch(a, k + m), "not finished") =
          [h |-> [state |-> r.h.state, cache |-> Stretch(a, k + m), capacity |-> r.h.capacity,
                  read |-> r.h.read, held |-> r.h.held],
           data |-> r.data, ret |-> "not finished", out |-> r.out, broken |-> r.broken]
    <3> DEFINE s == Stretch(a, k + m)
    <3> HIDE DEF s
    <3>1. Ending(r, s, "not finished") =
            [h |-> [state |-> r.h.state, cache |-> s, capacity |-> r.h.capacity,
                    read |-> r.h.read, held |-> r.h.held],
             data |-> r.data, ret |-> "not finished", out |-> r.out, broken |-> r.broken]
      BY <1>1, Ended
    <3> QED  BY <3>1 DEF s
  <2>4. a + 0 = a /\ Stretch(a, 0) = <<>> /\ 0 \in Nat /\ 0 + (k + m) = k + m
    BY <2>1, StretchEmpty
  <2>5. GoOn(r) = PutOut(r, a, 0, k + m, "not finished")
    BY <1>1, <2>2, <2>3, <2>4 DEF PutOut
  <2> QED  BY <2>1, <2>4, <2>5
<1>8. CASE k = 0 \/ k + n = BlockLen
  <2>1. GoOn(r) = Ending(d, Piece(r, m - t, m), "not finished")  BY <1>5, <1>6, <1>8
  <2>2. /\ t \in Nat /\ t < BlockLen /\ t <= x /\ (x \div BlockLen) * BlockLen = j
        /\ j % BlockLen = 0 /\ ((BlockLen + x) \div BlockLen) * BlockLen = BlockLen + j
    BY <1>4, WholeBlocks
  <2> DEFINE q == k + n
             z == a + k
  <2>3. /\ q \in Nat /\ z \in Int /\ a + q = z + n /\ j \in Nat /\ n + j = m - t /\ n + j <= m
        /\ (q + j) + t = k + m /\ (m - t) + t = m /\ m - t \in 0..m /\ q + j \in Nat
        /\ z + (m - t) = a + (q + j) /\ m - (m - t) = t
    <3> HIDE DEF t, x
    <3> QED  BY <1>4, <2>2
  <2>4. room = q + j /\ (k = 0 => q = 0) /\ (k # 0 => q = BlockLen)
    <3>1. CASE k = 0
      <4>1. n = 0 /\ x = m /\ k + m = x /\ q = 0  BY <1>4, <3>1
      <4> HIDE DEF t, x, n, q
      <4>2. j \in Nat /\ 0 + j = j  BY <2>3
      <4>3. room = j  BY <2>2, <4>1
      <4> QED  BY <3>1, <4>1, <4>2, <4>3
    <3>2. CASE k # 0
      <4>1. q = BlockLen /\ k + m = BlockLen + x  BY <1>3, <1>4, <1>8, <3>2
      <4> HIDE DEF t, x, n, q, j
      <4>2. room = BlockLen + j  BY <2>2, <4>1
      <4> QED  BY <3>2, <4>1, <4>2
    <3> QED  BY <3>1, <3>2
  <2> HIDE DEF t, x, j, room, q, z, blk
  <2>5. whole = Piece(r, n, n + j)  BY <2>3
  <2>6. PutBy(first, r, Stretch(a, q))
    <3>1. CASE k = 0
      <4>1. first = r /\ q = 0 /\ Stretch(a, 0) = <<>>  BY <2>4, <3>1, StretchEmpty
      <4>2. r = [h |-> r.h, data |-> r.data, ret |-> r.ret, out |-> r.out, broken |-> r.broken]
        BY <1>1 DEF Calls
      <4> HIDE DEF first
      <4>3. PutBy(r, r, <<>>)  BY <1>1, <4>2 DEF PutBy
      <4> QED  BY <4>1, <4>3
    <3>2. CASE k # 0
      <4>1. first = Update(r, blk, 0, room, BlockLen)  BY <3>2
      <4> HIDE DEF first, whole
      <4>2. /\ n \in 0..m /\ room \in Nat /\ k + n <= room /\ BlockLen \in Nat \ {0}
            /\ k + n = BlockLen
        BY <1>3, <1>4, <2>3, <2>4, <3>2 DEF q
      <4>3. PutBy(Update(r, Filled(r, n), 0, room, BlockLen), r, Stretch(a, k + n))
        BY <4>2, FirstBlock
      <4> QED  BY <4>1, <4>3 DEF q, blk
    <3> QED  BY <3>1, <3>2
  <2> DEFINE dec_len == IF k # 0 THEN BlockLen ELSE 0
  <2>7. d = IF whole = <<>> THEN first ELSE Update(first, whole, dec_len, room, BlockLen)
    BY DEF d
  <2> HIDE DEF first, whole
  <2>8. /\ first \in Calls /\ first.h = r.h /\ first.data = r.data /\ first.ret = r.ret
        /\ first.out = Stretch(a, q) /\ first.broken = FALSE
    BY <2>6 DEF PutBy
  <2>9. PutBy(d, first, Stretch(a, q + j))
    <3>1. dec_len = q /\ dec_len \in Nat  BY <2>3, <2>4
    <3> HIDE DEF dec_len
    <3>2. first.data = Stretch(z, m)  BY <1>1, <2>8 DEF z
    <3>3. Continues(first, a, q, z, m, n, j)  BY <1>4, <2>3, <2>8, <3>2 DEF Continues
    <3>4. whole = Piece(first, n, n + j)  BY <2>5, <2>8 DEF Piece
    <3>5. room \in Nat /\ q + j <= room  BY <2>3, <2>4
    <3> QED  BY <1>3, <2>2, <2>7, <3>1, <3>3, <3>4, <3>5, NextBlocks
  <2>10. d \in Calls /\ d.h = r.h /\ d.data = r.data /\ d.out = Stretch(a, q + j) /\ d.broken = FALSE
    BY <2>8, <2>9 DEF PutBy
  <2>11. Piece(r, m - t, m) = Stretch(a + (q + j), t)
    <3> DEFINE w == m - t
    <3>1. w \in 0..m /\ m \in w..m /\ z + w = a + (q + j) /\ m - w = t /\ z \in Int  BY <2>3
    <3> HIDE DEF w
    <3>2. Piece(r, w, m) = Stretch(z + w, m - w)
      <4>1. r.data = Stretch(z, m)  BY <1>1 DEF z
      <4> QED  BY <3>1, <4>1, PieceIs
    <3> QED  BY <3>1, <3>2 DEF w
  <2> DEFINE s == Stretch(a + (q + j), t)
  <2>12. Ending(d, s, "not finished") =
           [h |-> [state |-> d.h.state, cache |-> s, capacity |-> d.h.capacity,
                   read |-> d.h.read, held |-> d.h.held],
            data |-> d.data, ret |-> "not finished", out |-> d.out, broken |-> d.broken]
    <3> HIDE DEF s
    <3> QED  BY <2>10, Ended
  <2>13. GoOn(r) = PutOut(r, a, q + j, t, "not finished")
    BY <2>1, <2>10, <2>11, <2>12 DEF PutOut
  <2> QED  BY <2>2, <2>3, <2>13
<1> QED  BY <1>7, <1>8

\* A call is over that went through the data up to the position e, and had
\* put out p bytes of the binary before.
CallDone(d, e, p) ==
  /\ d.broken = FALSE /\ d.ret \in {"not finished", "ok", "fail"}
  /\ \E n \in Nat :
       /\ d.out = Stretch(HeaderLen + p, n)
       /\ d.ret # "fail" => HandleAt(d.h, e, p + n)
  /\ d.h.state = "binary" => d.ret # "fail"
  /\ d.ret = "not finished" /\ d.h.state = "binary" => d.h.read # img.len
  /\ d.ret = "ok" => d.h.state = "binary" /\ d.h.read = img.len /\ d.h.cache = <<>>

\* r: a call in the binary that has counted its m bytes, up to the position
\* e, behind k cached bytes and p that are put out
InProcess(r, e, p, k, m) ==
  /\ e \in Int /\ p \in Int /\ k \in Nat /\ m \in Nat
  /\ Whole(r, HeaderLen + p, k, m) /\ r.h.state = "binary"
  /\ \A s \in Sections : r.h.held[s] = Stretch(At[s], SectionSize[s])
  /\ img.fault # "magic" /\ img.fault # "key"
  /\ e = HeaderLen + r.h.read /\ p + k + m = r.h.read

\* d: n bytes more are put out, and the last t are cached.
Processed(d, e, p, n, t, total, how) ==
  /\ HandleAt(d.h, e, p + n) /\ d.h.state = "binary" /\ d.h.read = total
  /\ d.h.cache = Stretch(HeaderLen + (p + n), t)
  /\ d.ret = how /\ d.out = Stretch(HeaderLen + p, n) /\ d.broken = FALSE

LEMMA PutOutAt ==
  ASSUME NEW r, NEW e, NEW p, NEW k, NEW m, InProcess(r, e, p, k, m),
         NEW n \in Nat, NEW t \in Nat, n + t = k + m, t < BlockLen, NEW how
  PROVE  Processed(PutOut(r, HeaderLen + p, n, t, how), e, p, n, t, r.h.read, how)
<1> DEFINE a == HeaderLen + p
           s_ == Stretch(a + n, t)
           d == PutOut(r, a, n, t, how)
           g == [state |-> r.h.state, cache |-> s_, capacity |-> r.h.capacity,
                 read |-> r.h.read, held |-> r.h.held]
<1>1. HeaderLen \in Nat /\ BlockLen \in Nat  BY Layout
<1>0. /\ e \in Int /\ p \in Int /\ k \in Nat /\ m \in Nat
      /\ Whole(r, HeaderLen + p, k, m) /\ r.h.state = "binary"
      /\ \A s \in Sections : r.h.held[s] = Stretch(At[s], SectionSize[s])
      /\ img.fault # "magic" /\ img.fault # "key"
      /\ e = HeaderLen + r.h.read /\ p + k + m = r.h.read
  BY DEF InProcess
<1>2. d.h = g /\ d.ret = how /\ d.out = Stretch(a, n) /\ d.broken = FALSE
  BY DEF PutOut
<1>3. a + n = HeaderLen + (p + n) /\ a + n \in Int  BY <1>0, <1>1
<1>4. s_ = Stretch(HeaderLen + (p + n), t) /\ s_ \in Seq(Int) /\ Len(s_) = t
  <2> DEFINE z == a + n
  <2>1. z \in Int  BY <1>3
  <2> HIDE DEF z
  <2>2. Stretch(z, t) \in Seq(Int) /\ Len(Stretch(z, t)) = t  BY <2>1, StretchIs
  <2> QED  BY <1>3, <2>2 DEF z
<1> HIDE DEF s_, d, a
<1>5. r.h \in ImageHandles  BY <1>0 DEF Whole, Calls
<1>6. /\ r.h.capacity \in Nat /\ r.h.read \in Nat /\ r.h.held \in [Sections -> Seq(Int)]
      /\ r.h.state \in States
  BY <1>5 DEF ImageHandles
<1>7. g \in ImageHandles  BY <1>4, <1>6 DEF ImageHandles
<1>8. /\ g.state = "binary" /\ g.cache = s_ /\ g.read = r.h.read /\ g.held = r.h.held
  BY <1>0
<1> HIDE DEF g
<1>9. \A s \in Sections : g.held[s] = Stretch(At[s], Got(g, s))
  <2> SUFFICES ASSUME NEW s \in Sections PROVE g.held[s] = Stretch(At[s], Got(g, s))  OBVIOUS
  <2>1. Rank[s] \in 1..6 /\ Rank["binary"] = 7  BY Layout
  <2>2. Rank[s] < Rank[g.state]
    <3> DEFINE i == Rank[s]
    <3> HIDE DEF i
    <3>1. i < 7  BY <2>1 DEF i
    <3> QED  BY <1>8, <2>1, <3>1 DEF i
  <2>3. Got(g, s) = SectionSize[s]  BY <2>2 DEF Got
  <2> QED  BY <1>0, <1>8, <2>3
<1>10. InBinary(g, e, p + n)
  <2> DEFINE rd == r.h.read
  <2>1. rd \in Nat /\ e = HeaderLen + rd /\ p + k + m = rd /\ p \in Int /\ k \in Nat /\ m \in Nat  BY <1>0, <1>6
  <2> HIDE DEF rd
  <2>2. p + n = rd - t  BY <2>1
  <2>3. g.cache = Stretch(HeaderLen + (p + n), Len(g.cache)) /\ Len(g.cache) = t  BY <1>4, <1>8
  <2> QED  BY <1>8, <2>1, <2>2, <2>3 DEF InBinary, rd
<1>11. "binary" \notin Sections  BY DEF Sections
<1>12. HandleAt(g, e, p + n)  BY <1>0, <1>7, <1>8, <1>9, <1>10, <1>11 DEF HandleAt
<1> QED  BY <1>2, <1>4, <1>8, <1>12 DEF a, d, Processed

\* process_bin, behind the header
LEMMA BinaryStep ==
  ASSUME NEW c, NEW e \in Int, NEW p \in Int, HeaderCall(c, e, p, 7), c.ret = "go",
         c.h.state = "binary", img.len \in Nat
  PROVE  CallDone(ProcessBin(c), e, p)
<1> DEFINE rd == c.h.read
           k == Len(c.h.cache)
           m == Len(c.data)
           a == HeaderLen + p
           r == [c EXCEPT !.h.read = @ + Len(c.data)]
           g == c.h
           g1 == [g EXCEPT !.read = @ + m]
<1>1. /\ c \in Calls /\ c.out = <<>> /\ c.broken = FALSE /\ c.data = Stretch(e - m, m)
      /\ HandleAt(g, e - m, p)
  BY DEF HeaderCall
<1>2. /\ g \in ImageHandles /\ c.data \in Seq(Int) /\ HeaderLen \in Nat /\ BlockLen \in Nat
      /\ c = [h |-> g, data |-> c.data, ret |-> c.ret, out |-> c.out, broken |-> c.broken]
  BY <1>1, Layout DEF Calls
<1>3. /\ g.read \in Nat /\ g.cache \in Seq(Int) /\ g.capacity \in Nat /\ g.state \in States
      /\ g.held \in [Sections -> Seq(Int)]
      /\ g = [state |-> g.state, cache |-> g.cache, capacity |-> g.capacity, read |-> g.read,
              held |-> g.held]
  BY <1>2 DEF ImageHandles
<1>4. k \in Nat /\ m \in Nat  BY <1>2, <1>3
<1>5. /\ e - m = HeaderLen + rd /\ p = rd - k /\ k < BlockLen
      /\ g.cache = Stretch(HeaderLen + p, k)
      /\ img.fault # "magic" /\ img.fault # "key"
      /\ \A s \in Sections : g.held[s] = Stretch(At[s], Got(g, s))
  BY <1>1 DEF HandleAt, InBinary
<1>6. \A s \in Sections : Got(g, s) = SectionSize[s]
  <2> SUFFICES ASSUME NEW s \in Sections PROVE Got(g, s) = SectionSize[s]  OBVIOUS
  <2>1. Rank[s] \in 1..6 /\ Rank["binary"] = 7  BY Layout
  <2> DEFINE i == Rank[s]
  <2> HIDE DEF i
  <2>2. i < 7  BY <2>1 DEF i
  <2>3. Rank[s] < Rank[g.state]  BY <2>1, <2>2 DEF i
  <2> QED  BY <2>3 DEF Got
<1> DEFINE total == rd + m
<1>7. total \in Nat /\ e = HeaderLen + total /\ p + k + m = total /\ a + k = e - m
  <2>1. rd \in Nat /\ k \in Nat /\ m \in Nat /\ e - m = HeaderLen + rd /\ p = rd - k
        /\ HeaderLen \in Nat
    BY <1>2, <1>3, <1>4, <1>5
  <2> HIDE DEF m, k, rd
  <2> QED  BY <2>1
<1>8. r = [c EXCEPT !.h = g1]  BY <1>2
<1>9. g1 = [state |-> "binary", cache |-> g.cache, capacity |-> g.capacity, read |-> total,
            held |-> g.held]
  <2> HIDE DEF g, m
  <2>1. g = [state |-> "binary", cache |-> g.cache, capacity |-> g.capacity, read |-> g.read,
             held |-> g.held]
    BY <1>3 DEF g
  <2> QED  BY <2>1 DEF g
<1>10. g1 \in ImageHandles
  <2> DEFINE x == g.cache
             y == g.capacity
             z == g.held
  <2>1. g1 = [state |-> "binary", cache |-> x, capacity |-> y, read |-> total, held |-> z]
    BY <1>9
  <2>2. "binary" \in States  BY DEF States
  <2>3. x \in Seq(Int) /\ y \in Nat /\ z \in [Sections -> Seq(Int)]  BY <1>3
  <2> HIDE DEF x, y, z, g1, total
  <2> QED  BY <1>7, <2>1, <2>2, <2>3 DEF ImageHandles
<1>11. /\ g1.state = "binary" /\ g1.cache = g.cache /\ g1.read = total /\ g1.held = g.held
  BY <1>9
<1> HIDE DEF g1, r
<1>12. /\ r = [h |-> g1, data |-> c.data, ret |-> c.ret, out |-> c.out, broken |-> c.broken]
  <2> DEFINE cd == c.data
             cr == c.ret
             co == c.out
             cb == c.broken
  <2>1. c = [h |-> g, data |-> cd, ret |-> cr, out |-> co, broken |-> cb]  BY <1>2
  <2> HIDE DEF cd, cr, co, cb, g
  <2>2. r = [h |-> g1, data |-> cd, ret |-> cr, out |-> co, broken |-> cb]  BY <1>8, <2>1
  <2> QED  BY <2>2 DEF cd, cr, co, cb
<1>13. r.h = g1 /\ r.data = c.data /\ r.out = <<>> /\ r.broken = FALSE  BY <1>1, <1>12
<1>14. r \in Calls
  <2>1. c.ret \in {"go", "not finished", "fail", "ok"} /\ <<>> \in Seq(Int)  OBVIOUS
  <2>2. r = [h |-> g1, data |-> c.data, ret |-> c.ret, out |-> <<>>, broken |-> FALSE]
    BY <1>1, <1>12
  <2> QED  BY <1>2, <1>10, <2>1, <2>2 DEF Calls
<1>15. Whole(r, a, k, m)
  <2>1. r.data = Stretch(a + k, m)  BY <1>1, <1>7, <1>13
  <2>2. r.h.cache = Stretch(a, k)  BY <1>5, <1>11, <1>13
  <2> QED  BY <1>13, <1>14, <2>1, <2>2 DEF Whole
<1>16. a \in Int  BY <1>2
<1>17. ProcessBin(c) = IF r.h.read # img.len THEN GoOn(r) ELSE Finish(r)
  BY DEF ProcessBin, r
<1> HIDE DEF k, m, rd, total
<1>18. InProcess(r, e, p, k, m)
  <2>1. r.h.state = "binary" /\ r.h.read = total  BY <1>11, <1>13
  <2>2. \A s \in Sections : r.h.held[s] = Stretch(At[s], SectionSize[s])
    BY <1>5, <1>6, <1>11, <1>13
  <2> QED  BY <1>4, <1>5, <1>7, <1>15, <2>1, <2>2 DEF InProcess
<1>21. r.h.read = total  BY <1>11, <1>13
<1> HIDE DEF g
<1>19. CASE total # img.len
  <2>1. ProcessBin(c) = GoOn(r)  BY <1>11, <1>13, <1>17, <1>19
  <2>2. PICK n \in Nat, t \in Nat :
          /\ n + t = k + m /\ t < BlockLen
          /\ GoOn(r) = PutOut(r, a, n, t, "not finished")
    BY <1>4, <1>5, <1>15, <1>16, GoesOn
  <2> DEFINE d == ProcessBin(c)
  <2>3. d = PutOut(r, a, n, t, "not finished")  BY <2>1, <2>2
  <2> HIDE DEF d
  <2>4. Processed(d, e, p, n, t, total, "not finished")
    BY <1>18, <1>21, <2>2, <2>3, PutOutAt
  <2>5. CallDone(d, e, p)  BY <1>19, <2>4 DEF CallDone, Processed
  <2> QED  BY <2>5 DEF d
<1>20. CASE total = img.len
  <2>1. ProcessBin(c) = Finish(r)  BY <1>11, <1>13, <1>17, <1>20
  <2>2. Finish(r) = PutOut(r, a, k + m, 0, "ok")  BY <1>4, <1>5, <1>15, <1>16, Finishes
  <2> DEFINE d == ProcessBin(c)
             n == k + m
  <2>3. d = PutOut(r, a, n, 0, "ok")  BY <2>1, <2>2
  <2>4. n \in Nat /\ n + 0 = k + m /\ 0 < BlockLen /\ 0 \in Nat /\ HeaderLen + (p + n) \in Int
    BY <1>2, <1>4, <1>5
  <2> HIDE DEF d, n
  <2>5. Processed(d, e, p, n, 0, total, "ok")  BY <1>18, <1>21, <2>3, <2>4, PutOutAt
  <2>6. d.h.cache = <<>>
    <3>1. Stretch(HeaderLen + (p + n), 0) = <<>>  BY <2>4, StretchEmpty
    <3> QED  BY <2>5, <3>1 DEF Processed
  <2>7. CallDone(d, e, p)  BY <1>20, <2>4, <2>5, <2>6 DEF CallDone, Processed
  <2> QED  BY <2>7 DEF d
<1> QED  BY <1>19, <1>20

\* The invariant: the handle is where the data that has arrived puts it.
ImageInv ==
  /\ img \in [len : BinarySizes, fault : {"none", "magic", "key", "auth"}]
  /\ arrived \in Nat /\ arrived <= HeaderLen + img.len /\ broken = FALSE
  /\ \E p \in Nat :
       /\ plain = Stretch(HeaderLen, p)
       /\ res \in {"not finished", "ok", "authentic"} => HandleAt(handle, arrived, p)
  /\ res \in {"not finished", "ok", "authentic", "fail", "ended"}
  /\ res = "not finished" /\ handle.state = "binary" => handle.read # img.len
  /\ res \in {"ok", "authentic"} =>
       handle.state = "binary" /\ handle.read = img.len /\ handle.cache = <<>>
  /\ res = "authentic" => img.fault # "auth"
  /\ handle.state = "binary" => \A s \in Sections : handle.held[s] = Stretch(At[s], SectionSize[s])

LEMMA ImageKnown ==
  ASSUME img \in [len : BinarySizes, fault : {"none", "magic", "key", "auth"}]
  PROVE  img.len \in Nat /\ img.fault \in {"none", "magic", "key", "auth"}
  BY ImageAssumption

LEMMA StartIs ==
  HandleAt(DecryptStart, 0, 0) /\ DecryptStart.state = "magic"
<1> DEFINE g == DecryptStart
<1>1. g = [state |-> "magic", cache |-> <<>>, capacity |-> SectionSize.key, read |-> 0,
           held |-> Nothing]
  BY DEF DecryptStart
<1>2. /\ g.state = "magic" /\ g.cache = <<>> /\ g.capacity = SectionSize.key /\ g.read = 0
      /\ g.held = Nothing
  BY <1>1
<1>3. /\ SectionSize["magic"] \in Nat \ {0} /\ SectionSize["key"] \in Nat \ {0}
      /\ At["magic"] = 0 /\ "magic" \in Sections
  BY Layout DEF Sections
<1>4. \A s \in Sections : At[s] \in Int  BY Layout
<1>5. /\ Nothing \in [Sections -> Seq(Int)]
      /\ \A s \in Sections : Nothing[s] = <<>>
  BY DEF Nothing
<1>6. g \in ImageHandles
  <2>1. "magic" \in States /\ <<>> \in Seq(Int) /\ SectionSize.key \in Nat /\ 0 \in Nat
    BY <1>3 DEF States
  <2> DEFINE x == SectionSize.key
             y == Nothing
  <2>2. g = [state |-> "magic", cache |-> <<>>, capacity |-> x, read |-> 0, held |-> y]  BY <1>1
  <2>3. x \in Nat /\ y \in [Sections -> Seq(Int)]  BY <1>5, <2>1
  <2> HIDE DEF x, y, g
  <2> QED  BY <2>1, <2>2, <2>3 DEF ImageHandles
<1> HIDE DEF g
<1>7. \A s \in Sections : g.held[s] = Stretch(At[s], Got(g, s))
  <2> SUFFICES ASSUME NEW s \in Sections PROVE g.held[s] = Stretch(At[s], Got(g, s))  OBVIOUS
  <2>1. Rank[s] \in 1..6 /\ Rank["magic"] = 1  BY Layout DEF Rank
  <2>2. ~(Rank[s] < Rank["magic"])
    <3> DEFINE i == Rank[s]
    <3> HIDE DEF i
    <3>1. ~(i < 1)  BY <2>1 DEF i
    <3> QED  BY <2>1, <3>1 DEF i
  <2>3. Got(g, s) = 0  BY <1>2, <2>2 DEF Got
  <2>4. Stretch(At[s], 0) = <<>>  BY <1>4, StretchEmpty
  <2> QED  BY <1>2, <1>5, <2>3, <2>4
<1>8. InSection(g, 0)
  <2>1. g.read < SectionSize[g.state]  BY <1>2, <1>3
  <2>2. 0 = At[g.state] + g.read  BY <1>2, <1>3
  <2>3. Len(g.cache) = IF g.state = "extra" THEN 0 ELSE g.read  BY <1>2
  <2>4. g.capacity = CacheSize(g.state)  BY <1>2 DEF CacheSize
  <2> QED  BY <2>1, <2>2, <2>3, <2>4 DEF InSection
<1>9. HandleAt(g, 0, 0)  BY <1>2, <1>6, <1>7, <1>8 DEF HandleAt
<1> QED  BY <1>2, <1>9 DEF g

LEMMA ImageInitial == ImageInit => ImageInv
<1> SUFFICES ASSUME ImageInit PROVE ImageInv  OBVIOUS
<1>1. /\ img \in [len : BinarySizes, fault : {"none", "magic", "key", "auth"}]
      /\ arrived = 0 /\ handle = DecryptStart /\ res = "not finished" /\ plain = <<>>
      /\ broken = FALSE
  BY DEF ImageInit
<1>2. HeaderLen \in Nat /\ img.len \in Nat  BY <1>1, Layout, ImageKnown
<1>3. 0 \in Nat /\ 0 <= HeaderLen + img.len /\ Stretch(HeaderLen, 0) = <<>>
  BY <1>2, StretchEmpty
<1>4. HandleAt(handle, arrived, 0) /\ handle.state # "binary"  BY <1>1, StartIs
<1>5. \E p \in Nat :
        /\ plain = Stretch(HeaderLen, p)
        /\ res \in {"not finished", "ok", "authentic"} => HandleAt(handle, arrived, p)
  BY <1>1, <1>3, <1>4
<1> QED  BY <1>1, <1>3, <1>4, <1>5 DEF ImageInv

LEMMA ImageUnchanged == ImageInv /\ UNCHANGED imageVars => ImageInv'
<1> SUFFICES ASSUME ImageInv, UNCHANGED imageVars PROVE ImageInv'  OBVIOUS
<1>1. /\ img' = img /\ arrived' = arrived /\ handle' = handle /\ res' = res /\ plain' = plain
      /\ broken' = broken
  BY DEF imageVars
<1> QED  BY <1>1 DEF ImageInv, HandleAt

\* What a handle in the binary keeps of the sections
LEMMA HeldThen ==
  ASSUME NEW h, NEW pos, NEW p, HandleAt(h, pos, p), h.state = "binary"
  PROVE  \A s \in Sections : h.held[s] = Stretch(At[s], SectionSize[s])
<1> SUFFICES ASSUME NEW s \in Sections PROVE h.held[s] = Stretch(At[s], SectionSize[s])  OBVIOUS
<1>1. Rank[s] \in 1..6 /\ Rank["binary"] = 7  BY Layout
<1> DEFINE i == Rank[s]
<1> HIDE DEF i
<1>2. i < 7  BY <1>1 DEF i
<1>3. Rank[s] < Rank[h.state]  BY <1>1, <1>2 DEF i
<1>4. Got(h, s) = SectionSize[s]  BY <1>3 DEF Got
<1> QED  BY <1>4 DEF HandleAt

\* A whole call of esp_encrypted_img_decrypt_data
LEMMA CallStep ==
  ASSUME NEW c, NEW e \in Int, NEW p \in Int, HeaderCall(c, e, p, 1), img.len \in Nat
  PROVE  CallDone(ProcessBin(Header(c)), e, p)
<1> DEFINE d == Header(c)
<1>1. HeaderCall(d, e, p, 7) /\ (d.ret = "go" => d.h.state = "binary")  BY HeaderStep
<1> HIDE DEF d
<1>2. CASE d.ret = "go"  BY <1>1, <1>2, BinaryStep DEF d
<1>3. CASE d.ret # "go"
  <2>1. ProcessBin(d) = d  BY <1>3 DEF ProcessBin
  <2>2. /\ d \in Calls /\ d.out = <<>> /\ d.broken = FALSE /\ d.ret # "ok"
        /\ d.ret = "not finished" => HandleAt(d.h, e, p) /\ d.h.state \in Sections
        /\ d.ret = "fail" => d.h.state \in Sections
    BY <1>1 DEF HeaderCall
  <2>3. d.ret \in {"not finished", "fail"}
    <3>1. d.ret \in {"go", "not finished", "fail", "ok"}  BY <2>2 DEF Calls
    <3> QED  BY <1>3, <2>2, <3>1
  <2>4. d.h.state # "binary"  BY <2>2, <2>3 DEF Sections
  <2>5. 0 \in Nat /\ p + 0 = p /\ Stretch(HeaderLen + p, 0) = <<>>
    <3>1. HeaderLen + p \in Int  BY Layout
    <3> QED  BY <3>1, StretchEmpty
  <2>6. \E n \in Nat :
          /\ d.out = Stretch(HeaderLen + p, n)
          /\ d.ret # "fail" => HandleAt(d.h, e, p + n)
    BY <2>2, <2>3, <2>5
  <2>7. CallDone(d, e, p)  BY <2>2, <2>3, <2>4, <2>6 DEF CallDone
  <2> QED  BY <2>1, <2>7 DEF d
<1> QED  BY <1>2, <1>3

\* The call that DecryptData makes
DataCall(n) ==
  [h |-> handle, data |-> SubSeq(Image, arrived + 1, arrived + n), ret |-> "go",
   out |-> <<>>, broken |-> FALSE]

LEMMA ImageIs ==
  ASSUME NEW total \in Nat, total = HeaderLen + img.len
  PROVE  Image = Stretch(0, total) /\ Len(Image) = total
<1>1. Image = [i \in 1..total |-> i]  BY DEF Image
<1>2. \A i \in 1..total : 0 + i = i  OBVIOUS
<1>3. Image = Stretch(0, total)  BY <1>1, <1>2 DEF Stretch
<1>4. Len(Stretch(0, total)) = total
  <2>1. 0 \in Int /\ total \in Nat  OBVIOUS
  <2> QED  BY <2>1, StretchIs, Zenon
<1> QED  BY <1>3, <1>4

LEMMA DataIs ==
  ASSUME NEW total \in Nat, total = HeaderLen + img.len, NEW a \in Nat, NEW n \in Nat,
         NEW e \in Nat, e = a + n, e <= total
  PROVE  /\ SubSeq(Image, a + 1, e) = Stretch(a, n)
         /\ Stretch(a, n) \in Seq(Int) /\ Len(Stretch(a, n)) = n
<1>1. 0 \in Int /\ a \in 0..total /\ e \in a..total /\ 0 + a = a /\ e - a = n
  OBVIOUS
<1>2. SubSeq(Stretch(0, total), a + 1, e) = Stretch(0 + a, e - a)
  BY <1>1, StretchCut, Zenon
<1>3. Image = Stretch(0, total)  BY ImageIs
<1>4. SubSeq(Image, a + 1, e) = Stretch(a, n)  BY <1>1, <1>2, <1>3
<1>5. Stretch(a, n) \in Seq(Int) /\ Len(Stretch(a, n)) = n
  <2>1. a \in Int /\ n \in Nat  OBVIOUS
  <2> QED  BY <2>1, StretchIs, Zenon
<1> QED  BY <1>4, <1>5

\* n bytes more of the image are passed in, behind p of the binary put out.
PassedIn(n, p) ==
  /\ ImageInv /\ n \in Nat /\ arrived + n <= Len(Image)
  /\ p \in Nat /\ HandleAt(handle, arrived, p)

LEMMA DataCallIs ==
  ASSUME NEW n, NEW p, PassedIn(n, p)
  PROVE  HeaderCall(DataCall(n), arrived + n, p, 1) /\ arrived + n <= HeaderLen + img.len
<1> DEFINE total == HeaderLen + img.len
           c == DataCall(n)
           e == arrived + n
<1>1. /\ HeaderLen \in Nat /\ img.len \in Nat /\ arrived \in Nat /\ n \in Nat /\ p \in Nat
      /\ HandleAt(handle, arrived, p)
  <2>1. img \in [len : BinarySizes, fault : {"none", "magic", "key", "auth"}] /\ arrived \in Nat
    BY DEF ImageInv, PassedIn
  <2> QED  BY <2>1, Layout, ImageKnown DEF PassedIn
<1>2. total \in Nat /\ total = HeaderLen + img.len  BY <1>1
<1> HIDE DEF total
<1>4. Len(Image) = total  BY <1>2, ImageIs
<1>5. e \in Nat /\ e <= total /\ e - n = arrived  BY <1>1, <1>4 DEF PassedIn
<1>6. /\ SubSeq(Image, arrived + 1, e) = Stretch(arrived, n)
      /\ Stretch(arrived, n) \in Seq(Int) /\ Len(Stretch(arrived, n)) = n
  <2>1. e = arrived + n  OBVIOUS
  <2> HIDE DEF e
  <2> QED  BY <1>1, <1>2, <1>5, <2>1, DataIs
<1>7. Stretch(arrived, n) \in Seq(Int) /\ Len(Stretch(arrived, n)) = n  BY <1>6
<1>8. c = [h |-> handle, data |-> Stretch(arrived, n), ret |-> "go", out |-> <<>>, broken |-> FALSE]
  BY <1>6 DEF DataCall
<1> HIDE DEF c
<1>9. handle \in ImageHandles /\ handle.state \in States  BY <1>1 DEF HandleAt, ImageHandles
<1>10. /\ c \in Calls /\ c.out = <<>> /\ c.broken = FALSE /\ c.ret = "go" /\ c.h = handle
       /\ c.data = Stretch(arrived, n)
  <2>1. <<>> \in Seq(Int)  OBVIOUS
  <2>2. c \in Calls  BY <1>7, <1>8, <1>9, <2>1 DEF Calls
  <2> QED  BY <1>8, <2>2
<1>11. Len(c.data) = n /\ e - Len(c.data) = arrived  BY <1>5, <1>7, <1>10
<1>12. Rank[handle.state] >= 1
  <2>1. \A s \in Sections : Rank[s] \in 1..6  BY Layout
  <2>2. Rank["binary"] = 7  BY Layout
  <2>3. Rank[handle.state] \in 1..6 \/ Rank[handle.state] = 7  BY <1>9, <2>1, <2>2 DEF States
  <2> DEFINE i == Rank[handle.state]
  <2> HIDE DEF i
  <2>4. i >= 1  BY <2>3 DEF i
  <2> QED  BY <2>4 DEF i
<1>13. HeaderCall(c, e, p, 1)
  <2> HIDE DEF e
  <2> QED  BY <1>1, <1>10, <1>11, <1>12 DEF HeaderCall
<1> QED  BY <1>2, <1>5, <1>13 DEF c

LEMMA DataKeepsImage == ASSUME ImageInv, NEW n \in 1..Len(Image), DecryptData(n)  PROVE ImageInv'
<1> DEFINE d == ProcessBin(Header(DataCall(n)))
           e == arrived + n
<1>1. /\ res = "not finished" /\ e <= Len(Image)
      /\ handle' = d.h /\ (res' = d.ret \/ res' = "fail")
      /\ plain' = IF res' = "fail" THEN plain ELSE plain \o d.out
      /\ broken' = (broken \/ d.broken) /\ arrived' = e /\ img' = img
  BY DEF DecryptData, DataCall
<1>2. /\ img \in [len : BinarySizes, fault : {"none", "magic", "key", "auth"}]
      /\ arrived \in Nat /\ broken = FALSE
  BY DEF ImageInv
<1>3. PICK p \in Nat : plain = Stretch(HeaderLen, p) /\ HandleAt(handle, arrived, p)
  BY <1>1 DEF ImageInv
<1>4. n \in Nat /\ img.len \in Nat /\ HeaderLen \in Nat
  <2>1. n \in Nat  OBVIOUS
  <2> QED  BY <1>2, <2>1, ImageKnown, Layout
<1>5. HeaderCall(DataCall(n), e, p, 1) /\ e <= HeaderLen + img.len
  <2>1. PassedIn(n, p)  BY <1>1, <1>3, <1>4 DEF PassedIn
  <2> QED  BY <2>1, DataCallIs
<1>6. e \in Nat  BY <1>2, <1>4
<1> DEFINE c == DataCall(n)
<1> HIDE DEF c, e
<1>7. CallDone(d, e, p)
  <2>1. HeaderCall(c, e, p, 1) /\ e \in Int /\ p \in Int  BY <1>5, <1>6 DEF c
  <2>2. CallDone(ProcessBin(Header(c)), e, p)  BY <1>4, <2>1, CallStep
  <2> QED  BY <2>2 DEF c
<1> HIDE DEF d
<1>8. PICK m \in Nat :
        /\ d.out = Stretch(HeaderLen + p, m)
        /\ d.ret # "fail" => HandleAt(d.h, e, p + m)
  BY <1>7 DEF CallDone
<1>9. /\ d.broken = FALSE /\ d.ret \in {"not finished", "ok", "fail"}
      /\ d.h.state = "binary" => d.ret # "fail"
      /\ d.ret = "not finished" /\ d.h.state = "binary" => d.h.read # img.len
      /\ d.ret = "ok" => d.h.state = "binary" /\ d.h.read = img.len /\ d.h.cache = <<>>
  BY <1>7 DEF CallDone
<1>10. d.h.state = "binary" => \A s \in Sections : d.h.held[s] = Stretch(At[s], SectionSize[s])
  BY <1>8, <1>9, HeldThen
<1>11. \E q \in Nat :
         /\ plain' = Stretch(HeaderLen, q)
         /\ res' # "fail" => HandleAt(d.h, e, q)
  <2>1. CASE res' = "fail"  BY <1>1, <1>3, <2>1
  <2>2. CASE res' # "fail"
    <3>1. plain' = Stretch(HeaderLen, p) \o Stretch(HeaderLen + p, m)  BY <1>1, <1>3, <1>8, <2>2
    <3>2. HeaderLen \in Int  BY <1>4
    <3>3. Stretch(HeaderLen, p) \o Stretch(HeaderLen + p, m) = Stretch(HeaderLen, p + m)
      BY <3>2, StretchJoin
    <3>4. p + m \in Nat  OBVIOUS
    <3> QED  BY <1>1, <1>8, <2>2, <3>1, <3>3, <3>4
  <2> QED  BY <2>1, <2>2
<1>12. PICK q \in Nat : plain' = Stretch(HeaderLen, q) /\ (res' # "fail" => HandleAt(d.h, e, q))
  BY <1>11
<1>13. (res' # "fail" => HandleAt(handle, arrived, q)')
  BY <1>1, <1>12 DEF HandleAt
<1>14. \E r \in Nat :
         /\ plain' = Stretch(HeaderLen, r)
         /\ res' \in {"not finished", "ok", "authentic"} => HandleAt(handle, arrived, r)'
  BY <1>12, <1>13
<1>15. res' \in {"not finished", "ok", "fail"}  BY <1>1, <1>9
<1>16. handle'.state = "binary" =>
         \A s \in Sections : handle'.held[s] = Stretch(At[s], SectionSize[s])
  BY <1>1, <1>10
<1>17. arrived' \in Nat /\ arrived' <= HeaderLen + img'.len /\ broken' = FALSE /\ img' = img
  BY <1>1, <1>2, <1>5, <1>6, <1>9
<1>18. /\ res' = "not finished" /\ handle'.state = "binary" => handle'.read # img'.len
       /\ res' \in {"ok", "authentic"} =>
            handle'.state = "binary" /\ handle'.read = img'.len /\ handle'.cache = <<>>
  BY <1>1, <1>9
<1> QED  BY <1>2, <1>14, <1>15, <1>16, <1>17, <1>18 DEF ImageInv

LEMMA EndKeepsImage == ASSUME ImageInv, DecryptEnd  PROVE ImageInv'
<1>1. /\ res \in {"ok", "not finished"} /\ res' \in {"authentic", "ended"}
      /\ res' = "authentic" =>
           /\ handle.state = "binary" /\ handle.cache = <<>> /\ handle.read = img.len
           /\ img.fault # "auth"
      /\ img' = img /\ arrived' = arrived /\ handle' = handle /\ plain' = plain
      /\ broken' = broken
  BY DEF DecryptEnd
<1>2. PICK p \in Nat : plain = Stretch(HeaderLen, p) /\ HandleAt(handle, arrived, p)
  BY <1>1 DEF ImageInv
<1>3. HandleAt(handle, arrived, p)'  BY <1>1, <1>2 DEF HandleAt
<1>4. \E q \in Nat :
        /\ plain' = Stretch(HeaderLen, q)
        /\ res' \in {"not finished", "ok", "authentic"} => HandleAt(handle, arrived, q)'
  BY <1>1, <1>2, <1>3
<1> QED  BY <1>1, <1>4 DEF ImageInv

LEMMA AbortKeepsImage == ASSUME ImageInv, DecryptAbort  PROVE ImageInv'
<1>1. /\ arrived' = 0 /\ handle' = DecryptStart /\ res' = "not finished" /\ plain' = <<>>
      /\ img' = img /\ broken' = broken
  BY DEF DecryptAbort
<1>2. HeaderLen \in Nat /\ img.len \in Nat  BY Layout, ImageKnown DEF ImageInv
<1>3. 0 \in Nat /\ 0 <= HeaderLen + img.len /\ Stretch(HeaderLen, 0) = <<>>
  BY <1>2, StretchEmpty
<1>4. HandleAt(DecryptStart, 0, 0) /\ DecryptStart.state # "binary"  BY StartIs
<1>5. HandleAt(handle, arrived, 0)'  BY <1>1, <1>4 DEF HandleAt
<1>6. \E q \in Nat :
        /\ plain' = Stretch(HeaderLen, q)
        /\ res' \in {"not finished", "ok", "authentic"} => HandleAt(handle, arrived, q)'
  BY <1>1, <1>3, <1>5
<1> QED  BY <1>1, <1>3, <1>4, <1>6 DEF ImageInv

LEMMA ImageGoesOn == PartsSpec => []ImageInv
<1>1. PartsInit => ImageInv  BY ImageInitial DEF PartsInit
<1>2. ImageInv /\ [PartsNext]_partsVars => ImageInv'
  <2> SUFFICES ASSUME ImageInv, [PartsNext]_partsVars PROVE ImageInv'  OBVIOUS
  <2>1. CASE UNCHANGED partsVars  BY <2>1, ImageUnchanged DEF partsVars
  <2>2. CASE Works("image") /\ ImageNext
    BY <2>2, DataKeepsImage, EndKeepsImage, AbortKeepsImage DEF ImageNext
  <2>3. CASE PartsNext /\ ~(Works("image") /\ ImageNext)
    <3>1. UNCHANGED imageVars  BY <2>3 DEF PartsNext, Works
    <3> QED  BY <3>1, ImageUnchanged
  <2> QED  BY <2>1, <2>2, <2>3
<1> QED  BY <1>1, <1>2, PTL DEF PartsSpec, partsVars

(***************************************************************************)
(* However the server's answer is cut (esp_encrypted_img.c:681-941), the   *)
(* binary is put out byte by byte in order, no buffer is overrun, and an   *)
(* image is accepted only when all of it has arrived and its tag is right: *)
(* for every length of a cipher block, binaries of any size, and calls     *)
(* with any number of bytes.                                               *)
(***************************************************************************)
THEOREM DecryptedHoweverCut == PartsSpec => []DecryptsHoweverCut
<1>1. ImageInv => DecryptsHoweverCut
  <2> SUFFICES ASSUME ImageInv PROVE DecryptsHoweverCut  OBVIOUS
  <2> DEFINE alive == res \in {"not finished", "ok", "authentic"}
  <2>1. /\ img \in [len : BinarySizes, fault : {"none", "magic", "key", "auth"}]
        /\ arrived \in Nat /\ broken = FALSE
        /\ res \in {"not finished", "ok", "authentic", "fail", "ended"}
        /\ res = "not finished" /\ handle.state = "binary" => handle.read # img.len
        /\ res \in {"ok", "authentic"} =>
             handle.state = "binary" /\ handle.read = img.len /\ handle.cache = <<>>
        /\ res = "authentic" => img.fault # "auth"
        /\ handle.state = "binary" =>
             \A s \in Sections : handle.held[s] = Stretch(At[s], SectionSize[s])
    BY DEF ImageInv
  <2>2. img.len \in Nat /\ HeaderLen \in Nat /\ BlockLen \in Nat
        /\ img.fault \in {"none", "magic", "key", "auth"}
    BY <2>1, ImageKnown, Layout
  <2>3. PICK p \in Nat : plain = Stretch(HeaderLen, p) /\ (alive => HandleAt(handle, arrived, p))
    BY DEF ImageInv
  <2>4. Len(plain) = p /\ DOMAIN plain = 1..p /\ \A i \in 1..p : plain[i] = HeaderLen + i
    <3> DEFINE s == Stretch(HeaderLen, p)
    <3>1. s \in Seq(Int) /\ Len(s) = p /\ \A i \in 1..p : s[i] = HeaderLen + i
      <4>1. HeaderLen \in Int  BY <2>2
      <4> QED  BY <4>1, StretchIs
    <3>2. plain = s  BY <2>3
    <3> HIDE DEF s
    <3>3. DOMAIN s = 1..p  BY <3>1
    <3> QED  BY <3>1, <3>2, <3>3
  <2>5. ASSUME alive, handle.state \in Sections  PROVE arrived < HeaderLen
    <3> DEFINE s == handle.state
    <3>1. InSection(handle, arrived) /\ handle \in ImageHandles  BY <2>3, <2>5 DEF HandleAt
    <3>2. handle.read < SectionSize[s] /\ arrived = At[s] + handle.read /\ handle.read \in Nat
      BY <3>1 DEF InSection, ImageHandles
    <3>3. At[s] \in Nat /\ SectionSize[s] \in Nat /\ At[s] + SectionSize[s] <= HeaderLen
      BY <2>5, Layout
    <3> DEFINE i == At[s]
               j == SectionSize[s]
               k == handle.read
    <3> HIDE DEF i, j, k
    <3>4. i + k < HeaderLen  BY <2>2, <3>2, <3>3 DEF i, j, k
    <3> QED  BY <3>2, <3>4 DEF i, k
  <2>6. ASSUME alive, handle.state = "binary"
        PROVE  /\ arrived = HeaderLen + handle.read /\ handle.read \in Nat
               /\ p = handle.read - Len(handle.cache)
               /\ Len(handle.cache) \in 0..BlockLen - 1
               /\ img.fault \notin {"magic", "key"}
    <3>1. InBinary(handle, arrived, p) /\ handle \in ImageHandles
          /\ img.fault # "magic" /\ img.fault # "key"
      BY <2>3, <2>6 DEF HandleAt
    <3>2. handle.cache \in Seq(Int) /\ handle.read \in Nat  BY <3>1 DEF ImageHandles
    <3>3. Len(handle.cache) \in Nat /\ Len(handle.cache) < BlockLen  BY <3>1, <3>2 DEF InBinary
    <3> DEFINE k == Len(handle.cache)
    <3> HIDE DEF k
    <3>4. k \in 0..BlockLen - 1  BY <2>2, <3>3 DEF k
    <3> QED  BY <3>1, <3>2, <3>4 DEF InBinary, k
  <2>7. alive => handle.state \in Sections \/ handle.state = "binary"
    BY <2>3 DEF HandleAt, ImageHandles, States
  <2> DEFINE binary == arrived - HeaderLen
  <2>8. ASSUME alive, binary > 0  PROVE binary - Len(plain) \in 0..(BlockLen - 1)
    <3>1. handle.state # "binary" => arrived < HeaderLen  BY <2>5, <2>7, <2>8
    <3>2. handle.state = "binary"
      <4>1. ~(arrived < HeaderLen)
        <5>1. arrived \in Nat /\ HeaderLen \in Nat /\ arrived - HeaderLen > 0
          BY <2>1, <2>2, <2>8
        <5> QED  BY <5>1
      <4> QED  BY <3>1, <4>1
    <3>3. binary - p = Len(handle.cache) /\ Len(handle.cache) \in 0..(BlockLen - 1)
      <4>1. /\ arrived = HeaderLen + handle.read /\ handle.read \in Nat
            /\ p = handle.read - Len(handle.cache) /\ Len(handle.cache) \in 0..BlockLen - 1
        BY <2>6, <2>8, <3>2
      <4> DEFINE k == Len(handle.cache)
                 i == handle.read
      <4> HIDE DEF k, i
      <4>2. binary - p = k  BY <2>2, <4>1 DEF k, i
      <4> QED  BY <4>1, <4>2 DEF k
    <3> QED  BY <2>4, <3>3
  <2>9. ASSUME res \in {"ok", "authentic"}
        PROVE  arrived = HeaderLen + img.len /\ Len(plain) = img.len
    <3>1. /\ arrived = HeaderLen + img.len /\ p = img.len - Len(handle.cache)
          /\ handle.cache = <<>>
      BY <2>1, <2>6, <2>9
    <3>2. Len(<<>>) = 0  OBVIOUS
    <3> QED  BY <2>2, <2>4, <3>1, <3>2
  <2>10. ASSUME res = "not finished"  PROVE arrived # HeaderLen + img.len
    <3>1. CASE handle.state = "binary"
      <4>1. arrived = HeaderLen + handle.read /\ handle.read # img.len /\ handle.read \in Nat
        BY <2>1, <2>6, <2>10, <3>1
      <4> DEFINE i == handle.read
      <4> HIDE DEF i
      <4>2. HeaderLen + i # HeaderLen + img.len  BY <2>2, <4>1 DEF i
      <4> QED  BY <4>1, <4>2 DEF i
    <3>2. CASE handle.state # "binary"
      <4>1. arrived < HeaderLen  BY <2>5, <2>7, <2>10, <3>2
      <4>2. arrived \in Nat /\ HeaderLen \in Nat /\ img.len \in Nat  BY <2>1, <2>2
      <4> DEFINE total == HeaderLen + img.len
      <4>3. total \in Nat /\ HeaderLen <= total  BY <4>2
      <4> HIDE DEF total
      <4>4. arrived # total  BY <2>2, <4>1, <4>2, <4>3 DEF total
      <4> QED  BY <4>4 DEF total
    <3> QED  BY <3>1, <3>2
  <2>11. res = "authentic" => img.fault = "none"
    BY <2>1, <2>2, <2>6
  <2>12. ASSUME handle.state = "binary"
         PROVE  /\ handle.held.iv = [i \in 1..BlockLen |-> IvAt + i]
                /\ handle.held.auth = [i \in 1..BlockLen |-> AuthAt + i]
    <3>1. /\ At["iv"] = IvAt /\ At["auth"] = AuthAt /\ SectionSize["iv"] = BlockLen
          /\ SectionSize["auth"] = BlockLen /\ "iv" \in Sections /\ "auth" \in Sections
      BY DEF At, SectionSize, Sections
    <3>2. /\ handle.held["iv"] = Stretch(IvAt, BlockLen)
          /\ handle.held["auth"] = Stretch(AuthAt, BlockLen)
      BY <2>1, <2>12, <3>1
    <3> QED  BY <3>2 DEF Stretch
  <2>13. res \notin {"fail", "ended"} <=> alive  BY <2>1
  <2> HIDE DEF binary, alive
  <2>14. /\ ~(res \in {"fail", "ended"}) /\ binary > 0 => binary - Len(plain) \in 0..(BlockLen - 1)
         /\ ~(res \in {"fail", "ended"}) /\ arrived = HeaderLen + img.len /\ arrived > 0 =>
              res # "not finished"
    BY <2>8, <2>10, <2>13
  <2> QED  BY <2>1, <2>4, <2>9, <2>11, <2>12, <2>14 DEF DecryptsHoweverCut, binary
<1> QED  BY <1>1, ImageGoesOn, PTL

-----------------------------------------------------------------------------
(* The data set                                                            *)

\* The sums that wrap around, up to each of the samples
WrappedSums(u) ==
  /\ u[0] = 0
  /\ \A n \in 1..Len(items) : u[n] = (u[n - 1] + items[n]) % Modulus

LEMMA SumWraps ==
  ASSUME items \in Seq(Samples)
  PROVE  \E u \in [0..Len(items) -> Int] : WrappedSums(u) /\ DatasetSum = u[Len(items)]
<1> DEFINE m == Len(items)
           next == [q \in (1..m) \X Int |-> (q[2] + items[q[1]]) % Modulus]
           upto == CHOOSE u : u = [n \in 0..m |-> IF n = 0 THEN 0
                                                  ELSE (u[n - 1] + items[n]) % Modulus]
<1>0. m \in Nat /\ Modulus \in Nat \ {0} /\ \A n \in 1..m : items[n] \in Int
  <2>1. \A n \in 1..Len(items) : items[n] \in Samples  OBVIOUS
  <2>2. \A x \in Samples : x \in Int  BY DatasetAssumption
  <2>3. \A n \in 1..m : items[n] \in Int  BY <2>1, <2>2
  <2>4. m \in Nat  OBVIOUS
  <2> QED  BY <2>3, <2>4, DatasetAssumption
<1>1. next \in [(1..m) \X Int -> Int]  BY <1>0
<1>2. \A n \in 1..m, k \in Int : next[<<n, k>>] = (k + items[n]) % Modulus  OBVIOUS
<1>3. DatasetSum = upto[m]  BY DEF DatasetSum
<1> HIDE DEF next, m
<1>4. PICK u \in [0..m -> Int] : GoesFrom(u, 0, next, m)
  <2>1. 0 \in Int  OBVIOUS
  <2> QED  BY <1>0, <1>1, <2>1, Recursion
<1>5. ASSUME NEW n \in 1..m  PROVE u[n] = (u[n - 1] + items[n]) % Modulus
  <2>1. u[n - 1] \in Int  BY <1>0
  <2> QED  BY <1>2, <1>4, <2>1 DEF GoesFrom
<1>6. u = [n \in 0..m |-> IF n = 0 THEN 0 ELSE (u[n - 1] + items[n]) % Modulus]
  <2>1. \A n \in 0..m : u[n] = IF n = 0 THEN 0 ELSE (u[n - 1] + items[n]) % Modulus
    BY <1>0, <1>4, <1>5 DEF GoesFrom
  <2> QED  BY <1>4, <2>1
<1>7. upto = [n \in 0..m |-> IF n = 0 THEN 0 ELSE (upto[n - 1] + items[n]) % Modulus]
  BY <1>6
<1> HIDE DEF upto
<1>8. upto[0] = 0 /\ \A n \in 1..m : upto[n] = (upto[n - 1] + items[n]) % Modulus
  <2>1. upto[0] = 0  BY <1>0, <1>7
  <2>2. ASSUME NEW n \in 1..m  PROVE upto[n] = (upto[n - 1] + items[n]) % Modulus
    <3>1. n \in 0..m /\ n # 0  BY <1>0
    <3> QED  BY <1>7, <3>1
  <2> QED  BY <2>1, <2>2
<1>9. \A n \in 0..m : upto[n] \in Int
  <2> DEFINE T == {n \in 0..m : upto[n] \in Int}
  <2>1. 0 \in T  BY <1>0, <1>8
  <2>2. ASSUME NEW n \in 1..m, n - 1 \in T  PROVE n \in T
    <3>1. n \in 0..m /\ upto[n - 1] \in Int /\ items[n] \in Int  BY <1>0, <2>2
    <3>2. (upto[n - 1] + items[n]) % Modulus \in Int  BY <1>0, <3>1
    <3> QED  BY <1>8, <3>1, <3>2
  <2> HIDE DEF T
  <2>3. \A n \in 0..m : n \in T  BY <1>0, <2>1, <2>2, Induction
  <2> QED  BY <2>3 DEF T
<1>10. upto \in [0..m -> Int]  BY <1>7, <1>9
<1> QED  BY <1>3, <1>8, <1>10 DEF WrappedSums, m

\* The sums of all but the i-th and the j-th
SumsWithout(u, i, j) ==
  /\ u[0] = 0
  /\ \A n \in 1..Len(items) : u[n] = u[n - 1] + (IF n \in {i, j} THEN 0 ELSE items[n])

LEMMA SumWithout ==
  ASSUME items \in Seq(Samples), NEW i, NEW j
  PROVE  \E u \in [0..Len(items) -> Int] : SumsWithout(u, i, j) /\ SumBut(i, j) = u[Len(items)]
<1> DEFINE m == Len(items)
           next == [q \in (1..m) \X Int |-> q[2] + (IF q[1] \in {i, j} THEN 0 ELSE items[q[1]])]
           upto == CHOOSE u : u = [n \in 0..m |-> IF n = 0 THEN 0
                                                  ELSE u[n - 1] +
                                                      (IF n \in {i, j} THEN 0 ELSE items[n])]
<1>0. m \in Nat /\ Modulus \in Nat \ {0} /\ \A n \in 1..m : items[n] \in Int
  <2>1. \A n \in 1..Len(items) : items[n] \in Samples  OBVIOUS
  <2>2. \A x \in Samples : x \in Int  BY DatasetAssumption
  <2>3. \A n \in 1..m : items[n] \in Int  BY <2>1, <2>2
  <2>4. m \in Nat  OBVIOUS
  <2> QED  BY <2>3, <2>4, DatasetAssumption
<1>1. next \in [(1..m) \X Int -> Int]  BY <1>0
<1>2. \A n \in 1..m, k \in Int : next[<<n, k>>] = k + (IF n \in {i, j} THEN 0 ELSE items[n])
  OBVIOUS
<1>3. SumBut(i, j) = upto[m]  BY DEF SumBut
<1> HIDE DEF next, m
<1>4. PICK u \in [0..m -> Int] : GoesFrom(u, 0, next, m)
  <2>1. 0 \in Int  OBVIOUS
  <2> QED  BY <1>0, <1>1, <2>1, Recursion
<1>5. ASSUME NEW n \in 1..m  PROVE u[n] = u[n - 1] + (IF n \in {i, j} THEN 0 ELSE items[n])
  <2>1. u[n - 1] \in Int  BY <1>0
  <2> QED  BY <1>2, <1>4, <2>1 DEF GoesFrom
<1>6. u = [n \in 0..m |-> IF n = 0 THEN 0 ELSE u[n - 1] + (IF n \in {i, j} THEN 0 ELSE items[n])]
  <2>1. \A n \in 0..m : u[n] = IF n = 0 THEN 0
                               ELSE u[n - 1] + (IF n \in {i, j} THEN 0 ELSE items[n])
    BY <1>0, <1>4, <1>5 DEF GoesFrom
  <2> QED  BY <1>4, <2>1
<1>7. upto = [n \in 0..m |-> IF n = 0 THEN 0
                             ELSE upto[n - 1] + (IF n \in {i, j} THEN 0 ELSE items[n])]
  BY <1>6
<1> HIDE DEF upto
<1>8. upto[0] = 0 /\ \A n \in 1..m : upto[n] = upto[n - 1] +
                (IF n \in {i, j} THEN 0 ELSE items[n])
  <2>1. upto[0] = 0  BY <1>0, <1>7
  <2>2. ASSUME NEW n \in 1..m  PROVE upto[n] = upto[n - 1] +
                                               (IF n \in {i, j} THEN 0 ELSE items[n])
    <3>1. n \in 0..m /\ n # 0  BY <1>0
    <3> QED  BY <1>7, <3>1
  <2> QED  BY <2>1, <2>2
<1>9. \A n \in 0..m : upto[n] \in Int
  <2> DEFINE T == {n \in 0..m : upto[n] \in Int}
  <2>1. 0 \in T  BY <1>0, <1>8
  <2>2. ASSUME NEW n \in 1..m, n - 1 \in T  PROVE n \in T
    <3>1. n \in 0..m /\ upto[n - 1] \in Int /\ items[n] \in Int  BY <1>0, <2>2
    <3>2. upto[n - 1] + (IF n \in {i, j} THEN 0 ELSE items[n]) \in Int  BY <1>0, <3>1
    <3> QED  BY <1>8, <3>1, <3>2
  <2> HIDE DEF T
  <2>3. \A n \in 0..m : n \in T  BY <1>0, <2>1, <2>2, Induction
  <2> QED  BY <2>3 DEF T
<1>10. upto \in [0..m -> Int]  BY <1>7, <1>9
<1> QED  BY <1>3, <1>8, <1>10 DEF SumsWithout, m

LEMMA SamplesAre ==
  ASSUME items \in Seq(Samples)
  PROVE  /\ Len(items) \in Nat /\ DOMAIN items = 1..Len(items) /\ Modulus \in Nat \ {0}
         /\ \A n \in 1..Len(items) : items[n] \in 0..Modulus-1
<1>1. \A n \in 1..Len(items) : items[n] \in Samples  OBVIOUS
<1>2. \A x \in Samples : x \in 0..Modulus-1  BY DatasetAssumption
<1>3. \A n \in 1..Len(items) : items[n] \in 0..Modulus-1  BY <1>1, <1>2
<1>4. Len(items) \in Nat /\ DOMAIN items = 1..Len(items)  OBVIOUS
<1> QED  BY <1>3, <1>4, DatasetAssumption

\* There are a smallest sample and another one that is a largest.
LEMMA ExtremesExist ==
  ASSUME items \in Seq(Samples), Len(items) >= 3
  PROVE  \E i, j \in DOMAIN items : Extremes(i, j)
<1> DEFINE m == Len(items)
           M == Modulus - 1
<1>1. m \in Nat /\ m >= 3 /\ DOMAIN items = 1..m /\ M \in Nat /\ \A n \in 1..m : items[n] \in 0..M
  BY SamplesAre
<1> HIDE DEF m, M
<1>2. PICK i \in 1..m : \A n \in 1..m : items[i] <= items[n]
  <2> DEFINE T == {items[n] : n \in 1..m}
  <2>1. T \in SUBSET Nat /\ T # {}
    <3>1. \A n \in 1..m : items[n] \in Nat  BY <1>1
    <3>2. 1 \in 1..m  BY <1>1
    <3> QED  BY <3>1, <3>2
  <2> HIDE DEF T
  <2>2. PICK v \in T : \A w \in T : v <= w  BY <2>1, LeastNumber
  <2> QED  BY <2>2 DEF T
<1>3. PICK j \in 1..m : \A n \in 1..m : items[n] <= items[j]
  <2> DEFINE T == {M - items[n] : n \in 1..m}
  <2>1. T \in SUBSET Nat /\ T # {}
    <3>1. \A n \in 1..m : M - items[n] \in Nat  BY <1>1
    <3>2. 1 \in 1..m  BY <1>1
    <3> QED  BY <3>1, <3>2
  <2> HIDE DEF T
  <2>2. PICK v \in T : \A w \in T : v <= w  BY <2>1, LeastNumber
  <2>3. PICK j \in 1..m : v = M - items[j]  BY <2>2 DEF T
  <2>4. ASSUME NEW n \in 1..m  PROVE items[n] <= items[j]
    <3>1. M - items[j] <= M - items[n]  BY <2>2, <2>3 DEF T
    <3>2. items[n] \in Int /\ items[j] \in Int /\ M \in Int  BY <1>1
    <3> QED  BY <3>1, <3>2
  <2> QED  BY <2>4
<1>4. CASE i # j  BY <1>1, <1>2, <1>3, <1>4 DEF Extremes
<1>5. CASE i = j
  <2>1. \A n \in 1..m : items[n] = items[i]
    <3> TAKE n \in 1..m
    <3>1. items[n] \in Int /\ items[i] \in Int  BY <1>1
    <3> QED  BY <1>2, <1>3, <1>5, <3>1
  <2>2. 1 \in 1..m /\ 2 \in 1..m  BY <1>1
  <2>3. \A n \in 1..m : items[1] <= items[n] /\ items[n] <= items[2]
    <3>1. items[i] \in Int  BY <1>1
    <3> QED  BY <2>1, <2>2, <3>1
  <2>4. Extremes(1, 2)  BY <1>1, <2>3 DEF Extremes
  <2> QED  BY <1>1, <2>2, <2>4
<1> QED  BY <1>4, <1>5

LEMMA ExtremesFound ==
  ASSUME items \in Seq(Samples), NEW i \in DOMAIN items, NEW j \in DOMAIN items, Extremes(i, j)
  PROVE  MinItem = items[i] /\ MaxItem = items[j]
<1>1. /\ Modulus - 1 \in Int
      /\ \A n \in DOMAIN items :
           items[n] \in Int /\ 0 <= items[n] /\ items[n] <= Modulus - 1
  BY SamplesAre
<1>2. \A n \in DOMAIN items : items[i] <= items[n] /\ items[n] <= items[j]  BY DEF Extremes
<1> DEFINE low == Values \cup {Modulus - 1}
           high == Values \cup {0}
<1>3. low \in SUBSET Int /\ items[i] \in low /\ \A y \in low : items[i] <= y
  BY <1>1, <1>2 DEF Values
<1>4. high \in SUBSET Int /\ items[j] \in high /\ \A y \in high : y <= items[j]
  BY <1>1, <1>2 DEF Values
<1> HIDE DEF low, high
<1>5. Min(low) = items[i]  BY <1>3, MinIs
<1>6. Max(high) = items[j]  BY <1>4, MaxIs
<1> QED  BY <1>5, <1>6 DEF MinItem, MaxItem, low, high

\* The sum that wraps around is that of the others and the two.
LEMMA SumOfAll ==
  ASSUME items \in Seq(Samples), NEW i \in DOMAIN items, NEW j \in DOMAIN items, i # j
  PROVE  /\ SumBut(i, j) \in Nat
         /\ DatasetSum = (SumBut(i, j) + items[i] + items[j]) % Modulus
<1> DEFINE m == Len(items)
<1>1. /\ m \in Nat /\ DOMAIN items = 1..m /\ Modulus \in Nat \ {0} /\ i \in 1..m /\ j \in 1..m
      /\ \A n \in 1..m : items[n] \in Nat
  BY SamplesAre
<1>2. PICK u \in [0..m -> Int] : WrappedSums(u) /\ DatasetSum = u[m]  BY SumWraps
<1>3. PICK v \in [0..m -> Int] : SumsWithout(v, i, j) /\ SumBut(i, j) = v[m]  BY SumWithout
<1>4. u[0] = 0 /\ \A n \in 1..m : u[n] = (u[n - 1] + items[n]) % Modulus
  BY <1>2 DEF WrappedSums
<1>5. v[0] = 0 /\ \A n \in 1..m : v[n] = v[n - 1] + (IF n \in {i, j} THEN 0 ELSE items[n])
  BY <1>3 DEF SumsWithout
<1> HIDE DEF m
<1> DEFINE part1(n) == IF i <= n THEN items[i] ELSE 0
           part2(n) == IF j <= n THEN items[j] ELSE 0
           all(n) == v[n] + part1(n) + part2(n)
           T == {n \in 0..m : v[n] \in Nat /\ u[n] = all(n) % Modulus}
<1>6. 0 \in T
  <2>1. part1(0) = 0 /\ part2(0) = 0  BY <1>1
  <2>2. all(0) = 0  BY <1>5, <2>1
  <2>3. 0 % Modulus = 0
    <3>1. 0 \in 0..Modulus-1 /\ 0 \in Int /\ Modulus * 0 + 0 = 0  BY <1>1
    <3>2. (Modulus * 0 + 0) % Modulus = 0  BY <1>1, <3>1, Remainder
    <3> QED  BY <3>1, <3>2
  <2>4. 0 \in 0..m  BY <1>1
  <2> HIDE DEF all
  <2> QED  BY <1>4, <1>5, <2>2, <2>3, <2>4
<1>7. ASSUME NEW n \in 1..m, n - 1 \in T  PROVE n \in T
  <2>1. v[n - 1] \in Nat /\ u[n - 1] = all(n - 1) % Modulus /\ n \in 0..m  BY <1>7, <1>1
  <2>2. items[n] \in Nat /\ items[i] \in Nat /\ items[j] \in Nat /\ n \in Int /\ i \in Int /\ j \in Int
    BY <1>1
  <2>3. part1(n - 1) \in Int /\ part2(n - 1) \in Int /\ all(n - 1) \in Int  BY <2>1, <2>2
  <2>4. v[n] = v[n - 1] + (IF n \in {i, j} THEN 0 ELSE items[n])  BY <1>5
  <2>5. v[n] \in Nat  BY <2>1, <2>2, <2>4
  <2>6. all(n) = all(n - 1) + items[n]
    <3>1. i <= n <=> i <= n - 1 \/ i = n  BY <2>2
    <3>2. j <= n <=> j <= n - 1 \/ j = n  BY <2>2
    <3>3. CASE n = i
      <4>1. part1(n) = items[n] /\ part1(n - 1) = 0  BY <2>2, <3>3
      <4>2. part2(n) = part2(n - 1)  BY <3>2, <3>3
      <4>3. v[n] = v[n - 1]  BY <2>1, <2>4, <3>3
      <4> HIDE DEF part1, part2
      <4> QED  BY <2>1, <2>2, <2>3, <4>1, <4>2, <4>3
    <3>4. CASE n = j
      <4>1. part2(n) = items[n] /\ part2(n - 1) = 0  BY <2>2, <3>4
      <4>2. part1(n) = part1(n - 1)  BY <3>1, <3>4
      <4>3. v[n] = v[n - 1]  BY <2>1, <2>4, <3>4
      <4> HIDE DEF part1, part2
      <4> QED  BY <2>1, <2>2, <2>3, <4>1, <4>2, <4>3
    <3>5. CASE n # i /\ n # j
      <4>1. part1(n) = part1(n - 1) /\ part2(n) = part2(n - 1)  BY <3>1, <3>2, <3>5
      <4>2. v[n] = v[n - 1] + items[n]  BY <2>4, <3>5
      <4> HIDE DEF part1, part2
      <4> QED  BY <2>1, <2>2, <2>3, <4>1, <4>2
    <3> QED  BY <3>3, <3>4, <3>5
  <2> HIDE DEF all
  <2>7. u[n] = ((all(n - 1) % Modulus) + items[n]) % Modulus  BY <1>4, <2>1
  <2>8. u[n] = (all(n - 1) + items[n]) % Modulus
    <3> DEFINE a == all(n - 1)
               x == items[n]
    <3>1. a \in Int /\ x \in Int  BY <2>2, <2>3
    <3> HIDE DEF a, x
    <3>2. ((a % Modulus) + x) % Modulus = (a + x) % Modulus  BY <1>1, <3>1, SumOfRemainders
    <3> QED  BY <2>7, <3>2 DEF a, x
  <2>9. u[n] = all(n) % Modulus  BY <2>6, <2>8
  <2> QED  BY <2>1, <2>5, <2>9
<1> HIDE DEF T
<1>8. \A n \in 0..m : n \in T  BY <1>1, <1>6, <1>7, Induction
<1>9. m \in T  BY <1>1, <1>8
<1>10. v[m] \in Nat /\ u[m] = all(m) % Modulus  BY <1>9 DEF T
<1>11. part1(m) = items[i] /\ part2(m) = items[j]  BY <1>1
<1> HIDE DEF part1, part2
<1> QED  BY <1>2, <1>3, <1>10, <1>11

LEMMA MiddleAveraged ==
  ASSUME items \in Seq(Samples), Len(items) >= 3, NEW i \in DOMAIN items, NEW j \in DOMAIN items,
         Extremes(i, j), SumBut(i, j) < Modulus
  PROVE  AvgWithoutExtreme = SumBut(i, j) \div (Len(items) - 2)
<1> DEFINE v == SumBut(i, j)
           s == DatasetSum
           a == items[i]
           b == items[j]
<1>1. a \in Int /\ b \in Int /\ Modulus \in Nat \ {0}  BY SamplesAre
<1>2. i # j  BY DEF Extremes
<1>3. v \in Nat /\ s = (v + a + b) % Modulus  BY <1>2, SumOfAll
<1>4. MinItem = a /\ MaxItem = b  BY ExtremesFound
<1>5. v \in 0..Modulus-1  BY <1>1, <1>3
<1> HIDE DEF v, s, a, b
<1> DEFINE t == v + a + b
<1>6. t \in Int  BY <1>1, <1>3
<1>7. s = t % Modulus  BY <1>3
<1> HIDE DEF t
<1>8. PICK p \in Int : t = Modulus * p + (t % Modulus)  BY <1>1, <1>6, Division
<1>9. s + 2 * Modulus - a - b = Modulus * (2 - p) + v
  <2>1. t % Modulus \in Int  BY <1>1, <1>6
  <2>2. Modulus * p \in Int /\ Modulus * (2 - p) = 2 * Modulus - Modulus * p  BY <1>1
  <2>3. v + a + b = Modulus * p + s  BY <1>7, <1>8 DEF t
  <2>4. s \in Int  BY <1>7, <2>1
  <2> QED  BY <1>1, <1>3, <2>2, <2>3, <2>4
<1> DEFINE q == 2 - p
<1>10. q \in Int  OBVIOUS
<1> HIDE DEF q
<1>11. (Modulus * q + v) % Modulus = v  BY <1>1, <1>5, <1>10, Remainder
<1>12. (s + 2 * Modulus - a - b) % Modulus = v  BY <1>9, <1>11 DEF q
<1> QED  BY <1>4, <1>12 DEF AvgWithoutExtreme, v, s, a, b

DatasetInv == items \in Seq(Samples)

LEMMA SamplesGoOn == PartsSpec => []DatasetInv
<1>1. PartsInit => DatasetInv
  <2>1. DatasetInit => DatasetInv  BY DEF DatasetInit, DatasetInv
  <2> QED  BY <2>1 DEF PartsInit
<1>2. DatasetInv /\ [PartsNext]_partsVars => DatasetInv'
  <2> SUFFICES ASSUME items \in Seq(Samples), [PartsNext]_partsVars
               PROVE  items' \in Seq(Samples)
    BY DEF DatasetInv
  <2>1. CASE UNCHANGED partsVars  BY <2>1 DEF partsVars, datasetVars
  <2>2. CASE Works("dataset") /\ DatasetNext
    <3>1. CASE DatasetClear  BY <3>1 DEF DatasetClear
    <3>2. CASE \E x \in Samples : DatasetAdd(x)
      <4>1. PICK x \in Samples : DatasetAdd(x)  BY <3>2
      <4>2. Append(items, x) \in Seq(Samples)  OBVIOUS
      <4> QED  BY <4>1, <4>2 DEF DatasetAdd
    <3> QED  BY <2>2, <3>1, <3>2 DEF DatasetNext
  <2>3. CASE PartsNext /\ ~(Works("dataset") /\ DatasetNext)
    <3>1. UNCHANGED datasetVars  BY <2>3 DEF PartsNext, Works
    <3> QED  BY <3>1 DEF datasetVars
  <2> QED  BY <2>1, <2>2, <2>3
<1> QED  BY <1>1, <1>2, PTL DEF PartsSpec, partsVars

(***************************************************************************)
(* em_dataset_avg_without_extreme (dataset.c:47-123) averages the samples  *)
(* but one smallest and one largest, whether or not the sum of all of them *)
(* wraps around: for every modulus, every set of samples and any number of *)
(* them.                                                                   *)
(***************************************************************************)
THEOREM MiddleIsAveraged == PartsSpec => []AverageOfMiddle
<1>1. DatasetInv => AverageOfMiddle
  BY ExtremesExist, MiddleAveraged DEF AverageOfMiddle, DatasetInv
<1> QED  BY <1>1, SamplesGoOn, PTL
=============================================================================

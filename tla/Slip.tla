-------------------------------- MODULE Slip --------------------------------
(***************************************************************************)
(* The framing of the server link, em_slip/slip.c, as the TCP client uses  *)
(* it: what one read of the socket returns, a chunk, is decoded by one     *)
(* call of slip_static_data_decoder, and every message is encoded by one   *)
(* call of slip_static_data_encoder before it is sent.  The decoder keeps  *)
(* insideOfPacket and escActive from call to call, and nothing else.       *)
(*                                                                         *)
(* A byte is one of the six that SLIP treats specially, or any other.      *)
(* The server, external, encodes as the device does; the network delivers  *)
(* frames whole, two at a time, or torn, and the rest of a torn frame      *)
(* arrives next, or never when the connection is lost in between.  A chunk *)
(* has at most 16 cut packets (slip.c:233), and a receive buffer of 256    *)
(* bytes keeps it below the size of decoded (slip.c:55).                   *)
(***************************************************************************)
EXTENDS Naturals, Sequences

CONSTANTS
  EncodedSize,   \* CONFIG_EM_SLIP_ENCODED_DATA_BUF_SIZE
  MaxData        \* bound: the length of a message

ASSUME SlipAssumption == MaxData \in Nat

VARIABLES
  inside,   \* decoder.insideOfPacket
  esc,      \* decoder.escActive
  rest,     \* the part of a torn frame that is still to arrive
  result,   \* what the last call has put out: <<a message>> or a frame
  frames,   \* history: the whole frames in the last chunk
  misses    \* history: whole frames in a row that were not given as they were,
            \* counted afresh from two that arrive in one chunk

slipVars == <<inside, esc, rest, result, frames, misses>>

Special == {"BEGIN", "END", "ESC"}
Escape == [BEGIN |-> "ESC_BEGIN", END |-> "ESC_END", ESC |-> "ESC_ESC"]
Unescape == [ESC_BEGIN |-> "BEGIN", ESC_END |-> "END", ESC_ESC |-> "ESC"]
SlipBytes == Special \cup DOMAIN Unescape \cup {"other"}
Messages == UNION {[1..n -> SlipBytes] : n \in 1..MaxData}

-----------------------------------------------------------------------------
(* The encoder                                                             *)

EncodeByte(b) == IF b \in Special THEN <<"ESC", Escape[b]>> ELSE <<b>>

Frame(data) ==
  LET begun[n \in 0..Len(data)] ==
        IF n = 0 THEN <<"BEGIN">> ELSE begun[n - 1] \o EncodeByte(data[n])
  IN begun[Len(data)] \o <<"END">>

\* slip_encode: nothing is sent of a frame that has no room.
Encode(data) == IF Len(Frame(data)) <= EncodedSize THEN Frame(data) ELSE <<>>

-----------------------------------------------------------------------------
(* The decoder.  d.decoded gathers the packets of a chunk: it is emptied   *)
(* neither between two packets nor when a packet is cut.  d.out holds what *)
(* *data_out and *len_out tell when the call ends, or nothing if they are  *)
(* not set; d.failed ends the call.                                        *)

Push(d, b) == [d EXCEPT !.decoded = Append(@, b), !.esc = FALSE]

\* Fault: an invalid escape sequence leaves escActive set.
FailEscaping(d) == [d EXCEPT !.inside = FALSE, !.failed = TRUE]

Fail(d) == [d EXCEPT !.inside = FALSE, !.esc = FALSE, !.failed = TRUE]

\* decode, one byte.  "Put back SLIP_BEGIN" (slip.c:71) decrements the
\* pointer to the count: the BEGIN that cuts a packet is consumed.
DecodeByte(d, b) ==
  CASE d.failed -> d
    [] ~d.failed /\ ~d.inside -> [d EXCEPT !.inside = b = "BEGIN"]
    [] OTHER ->
         CASE b = "BEGIN" -> [d EXCEPT !.inside = FALSE]
           [] b = "ESC" -> [d EXCEPT !.esc = TRUE]
           [] b = "END" ->
                IF d.esc THEN Fail(d) ELSE [d EXCEPT !.inside = FALSE, !.out = <<d.decoded>>]
           [] b \in DOMAIN Unescape -> Push(d, IF d.esc THEN Unescape[b] ELSE b)
           [] b = "other" -> IF d.esc THEN Fail(d) ELSE Push(d, b)

\* A call begins with what the last one left inside and active.
Started ==
  [inside |-> inside, esc |-> esc, decoded |-> <<>>, out |-> <<>>, failed |-> FALSE]

\* slip_static_data_decoder up to its last line
Decode(chunk) ==
  LET read[n \in 0..Len(chunk)] ==
        IF n = 0 THEN Started ELSE DecodeByte(read[n - 1], chunk[n])
  IN read[Len(chunk)]

\* It returns ESP_OK, "PACKET_START_NOT_FOUND", when nothing is left over.
Succeeds(d) == ~d.failed /\ ~d.inside

-----------------------------------------------------------------------------
(* The receiving task                                                      *)

SlipInit ==
  /\ inside = FALSE /\ esc = FALSE
  /\ rest = <<>> /\ result = <<>>
  /\ frames = 0 /\ misses = 0

\* The chunk is decoded and what comes out is dispatched.  The dispatcher's
\* assert (receiver.c:22) restarts the device if *data_out was not set.
ReceiveChunk(chunk) ==
  LET d == Decode(chunk) IN
  IF Succeeds(d) /\ d.out = <<>>
  THEN inside' = FALSE /\ esc' = FALSE /\ result' = <<>>
  ELSE /\ inside' = d.inside /\ esc' = d.esc
       /\ result' = IF Succeeds(d) THEN d.out ELSE <<>>

ReceiveFrame(data) ==
  /\ rest = <<>>
  /\ ReceiveChunk(Frame(data))
  /\ frames' = 1
  /\ misses' = IF result' = <<data>> THEN 0 ELSE misses + 1
  /\ UNCHANGED rest

\* Of two frames, what comes out may be the second as it was; or one message
\* that is neither: decoded still has the first when the second is added to it.
ReceiveTwo(data) ==
  /\ rest = <<>>
  /\ ReceiveChunk(Frame(data) \o Frame(data))
  /\ frames' = 2
  /\ misses' = IF result' = <<data>> THEN 0 ELSE 2
  /\ UNCHANGED rest

ReceiveTorn(data, n) ==
  /\ rest = <<>>
  /\ n < Len(Frame(data))
  /\ ReceiveChunk(SubSeq(Frame(data), 1, n))
  /\ rest' = SubSeq(Frame(data), n + 1, Len(Frame(data)))
  /\ frames' = 0 /\ misses' = 0

ReceiveRest ==
  /\ rest # <<>>
  /\ ReceiveChunk(rest)
  /\ rest' = <<>> /\ frames' = 0 /\ misses' = 0

\* The connection is lost; the decoder is not told.
LoseRest ==
  /\ rest # <<>>
  /\ rest' = <<>>
  /\ UNCHANGED <<inside, esc, result, frames, misses>>

SendMessage(data) ==
  /\ result' = Encode(data)
  /\ UNCHANGED <<inside, esc, rest, frames, misses>>

SlipNext ==
  \/ \E data \in Messages :
       \/ ReceiveFrame(data) \/ ReceiveTwo(data) \/ SendMessage(data)
       \/ \E n \in 1..(2 * MaxData + 1) : ReceiveTorn(data, n)
  \/ ReceiveRest \/ LoseRest

-----------------------------------------------------------------------------
(* Properties                                                              *)

(***************************************************************************)
(* The decoder finds its way back (slip.c:62-135, 327): a frame that       *)
(* arrives whole in a chunk of its own is not given to the dispatcher byte *)
(* by byte as it was only if the chunk before it ended inside a packet or  *)
(* an escape sequence, and of the frames that follow only the first        *)
(* suffers, also after two frames that arrived in one chunk.  These two    *)
(* are excepted: although slip.c:304 keeps "decoding until no more         *)
(* packets", they come out as one message, neither as it was sent.         *)
(***************************************************************************)
DecoderRecovers ==
  [][misses' > misses => frames' = 2 \/ (misses = 0 /\ (inside \/ esc))]_slipVars
=============================================================================

-------------------------------- MODULE Rs232 --------------------------------
(***************************************************************************)
(* The inverter's answers (rs232_2400_protocol.c): how rs232_2400_rsp_parse *)
(* finds one in the bytes that process_data (em_serial_client/rx.c) shows  *)
(* it, and what its parsers accept.                                        *)
(*                                                                         *)
(* On the line an answer is '(', the payload, two bytes of CRC and '\r'.   *)
(* A byte is "(", "r" or "x" (any other); the CRC can hold the delimiters. *)
(* It carries the number of its answer and its place in it: the CRC fits   *)
(* exactly when the bytes are those of one whole answer.  A payload of two *)
(* bytes stands for those that fit into CONFIG_EM_SERIAL_CLIENT_MAX_PACKET *)
(* _LEN with their frame, a payload of PeekSize for longer ones; what the  *)
(* parsers do with it is computed from its form.                           *)
(***************************************************************************)
EXTENDS Integers, Sequences, FiniteSetsExt

CONSTANTS
  PeekSize,   \* the bytes that process_data looks at: 64 (sdkconfig:562)
  RingSize,   \* the ring buffer: 128
  MaxAnswers  \* bound: the answers

\* The ring buffer has twice the room (task.c:33).
ASSUME Rs232Assumption == PeekSize \in Nat /\ RingSize \in Nat /\ PeekSize <= RingSize

VARIABLES
  asked,    \* last_rq_id
  line,     \* what the inverter has still to send
  kept,     \* the ring buffer
  judged,   \* history: what the parser said of the frames since the request
  answer,   \* history: the answer under way
  answers   \* bound

rs232Vars == <<asked, line, kept, judged, answer, answers>>

-----------------------------------------------------------------------------
(* The forms of the payloads, as the comments of the parsers give them     *)

Dec(w) == [kind |-> "float", width |-> w]  \* digits with a point
Num(w) == [kind |-> "int", width |-> w]    \* digits
Txt(w) == [kind |-> "text", width |-> w]

Form ==
  [QPI    |-> <<Txt(4)>>,           QID    |-> <<Txt(14)>>,
   QVFW   |-> <<Txt(14)>>,          QFLAG  |-> <<Txt(11)>>,
   QMOD   |-> <<Txt(1)>>,           QPICF  |-> <<Txt(4)>>,
   QOPMP  |-> <<Num(5)>>,           QLST   |-> <<Num(2)>>,
   QDM    |-> <<Num(3)>>,           QPIWS  |-> <<Num(32)>>,
   QMPPTV |-> <<Num(3), Num(3)>>,   QPVIPV |-> <<Num(3), Num(3)>>,
   QGLTV  |-> <<Num(3), Num(3)>>,   QGOV   |-> <<Dec(5), Dec(5)>>,
   QGOF   |-> <<Dec(4), Dec(4)>>,   QTPR   |-> <<Dec(5), Dec(5), Dec(5)>>,
   QDI2   |-> <<Dec(4), Dec(4), Num(3)>>,
   QPIHF  |-> <<Num(2), Num(14), Dec(5), Dec(5), Dec(5), Dec(5), Dec(5), Dec(5), Dec(5),
                Dec(5), Dec(5), Dec(4), Txt(6), Num(3), Dec(5), Dec(5), Dec(4), Dec(5),
                Dec(5), Num(16)>>,
   QCHGS  |-> <<Dec(4), Dec(4), Dec(4), Dec(4)>>,
   QMD    |-> <<Txt(15), Txt(7), Txt(2), Txt(3), Txt(3), Txt(3), Txt(2), Txt(4)>>,
   QPIRI  |-> <<Dec(5), Dec(4), Dec(5), Dec(5), Dec(5), Dec(4), Dec(5), Num(1), Num(2),
                Num(1)>>,
   QPIGS  |-> <<Dec(5), Dec(4), Dec(5), Dec(4), Num(4), Num(4), Num(3), Num(3), Dec(5),
                Num(3), Num(3), Num(4), Dec(4), Dec(5), Dec(5), Num(5), Num(8), Num(2),
                Num(2), Num(5), Num(3)>>]

Requests == DOMAIN Form

\* The length of a payload: its fields, with a blank between two.
Size232(p) ==
  LET upto[n \in 0..Len(p)] == IF n = 0 THEN -1 ELSE upto[n - 1] + p[n].width + 1
  IN upto[Len(p)]

\* How many fields sscanf converts: %d stops at the point of a float.
Converted(p, kinds) ==
  LET Fits(i) == p[i].kind \in {"int", kinds[i]}
      Bad == {i \in 1..Len(kinds) : ~Fits(i)}
  IN IF Bad = {} THEN Len(kinds)
     ELSE Min(Bad) - IF p[Min(Bad)].kind = "text" THEN 1 ELSE 0

Scanned(p, kinds) == IF Converted(p, kinds) = Len(kinds) THEN "ok" ELSE "malformed"
Floats(n) == [i \in 1..n |-> "float"]
Ints(n) == [i \in 1..n |-> "int"]
Exactly232(p, n) == IF Size232(p) = n THEN "ok" ELSE "malformed"

\* Digits (and '-') will do, and nothing else.
StrDec2Int(p) == IF \A i \in DOMAIN p : p[i].kind = "int" /\ Len(p) = 1 THEN "ok" ELSE "malformed"

ParseQpi(p) == IF Size232(p) < 4 THEN "malformed" ELSE "ok"
ParseQid(p) == Exactly232(p, 14)
ParseQvfw(p) == Exactly232(p, 14)
ParseQmd(p) == IF Size232(p) < 15 THEN "malformed" ELSE "ok"
ParseQpiri(p) ==
  IF Size232(p) # 46 THEN "malformed" ELSE Scanned(p, Floats(7) \o Ints(3))
ParseQpigs(p) == IF Size232(p) < 106 THEN "malformed" ELSE "ok"
ParseQflag(p) == Exactly232(p, 11)
ParseQmod(p) == Exactly232(p, 1)
ParseQgov(p) == IF Size232(p) < 11 THEN "malformed" ELSE Scanned(p, Ints(2))
ParseQgof(p) == IF Size232(p) < 9 THEN "malformed" ELSE Scanned(p, Floats(2))
ParseQpicf(p) == Exactly232(p, 4)
ParseQopmp(p) == IF Size232(p) < 5 THEN "malformed" ELSE StrDec2Int(p)
ParseQmpptv(p) == IF Size232(p) < 7 THEN "malformed" ELSE Scanned(p, Ints(2))
ParseQpvipv(p) == IF Size232(p) < 7 THEN "malformed" ELSE Scanned(p, Ints(2))
ParseQlst(p) == IF Size232(p) < 2 THEN "malformed" ELSE "ok"
ParseQtpr(p) == IF Size232(p) < 17 THEN "malformed" ELSE Scanned(p, Floats(3))
ParseQdi2(p) ==
  IF Size232(p) < 13 THEN "malformed" ELSE Scanned(p, Floats(2) \o Ints(1))
ParseQgltv(p) == IF Size232(p) # 7 THEN "malformed" ELSE Scanned(p, Ints(2))
ParseQdm(p) == IF Size232(p) # 3 THEN "malformed" ELSE Scanned(p, Ints(1))
ParseQchgs(p) == IF Size232(p) # 20 THEN "malformed" ELSE Scanned(p, Floats(4))

\* The warnings' flags: other characters than '0' and '1' are passed over.
ParseQpiws(p) == "ok"
\* The history of faults is printed and given up.
ParseQpihf(p) == "malformed"

\* The switch of rs232_2400_rsp_parse
StatusOf(rq, p) ==
  CASE rq = "QPI" -> ParseQpi(p)       [] rq = "QID" -> ParseQid(p)
    [] rq = "QVFW" -> ParseQvfw(p)     [] rq = "QPIRI" -> ParseQpiri(p)
    [] rq = "QMD" -> ParseQmd(p)       [] rq = "QFLAG" -> ParseQflag(p)
    [] rq = "QPIGS" -> ParseQpigs(p)   [] rq = "QMOD" -> ParseQmod(p)
    [] rq = "QGOV" -> ParseQgov(p)     [] rq = "QGOF" -> ParseQgof(p)
    [] rq = "QOPMP" -> ParseQopmp(p)   [] rq = "QMPPTV" -> ParseQmpptv(p)
    [] rq = "QPVIPV" -> ParseQpvipv(p) [] rq = "QLST" -> ParseQlst(p)
    [] rq = "QTPR" -> ParseQtpr(p)     [] rq = "QDI2" -> ParseQdi2(p)
    [] rq = "QGLTV" -> ParseQgltv(p)   [] rq = "QDM" -> ParseQdm(p)
    [] rq = "QCHGS" -> ParseQchgs(p)   [] rq = "QPICF" -> ParseQpicf(p)
    [] rq = "QPIWS" -> ParseQpiws(p)   [] rq = "QPIHF" -> ParseQpihf(p)

-----------------------------------------------------------------------------
(* Framing                                                                 *)

\* The answer fits, with its frame, into what process_data looks at.
FitsView(rq) == Size232(Form[rq]) + 4 <= 64

\* rs232_2400_serialize's counterpart in the inverter
Framed(rq, crc, id) ==
  LET body == IF FitsView(rq) THEN 2 ELSE PeekSize
      text == <<"(">> \o [i \in 1..body |-> "x"] \o crc \o <<"r">>
  IN [i \in DOMAIN text |-> [c |-> text[i], id |-> id, at |-> i, len |-> Len(text)]]

\* crc16_xmodem: the bytes of d from s to e are one answer.
CrcFits(d, s, e) ==
  /\ d[s].at = 1 /\ e - s + 1 = d[s].len
  /\ \A i \in s..e : d[i].id = d[s].id /\ d[i].at = i - s + 1

\* Fault: the packet starts at the first '('.
FirstStart(d) == Min({i \in DOMAIN d : d[i].c = "("})

\* The packet starts at the last '('.
PacketStart(d) == Max({i \in DOMAIN d : d[i].c = "("})

\* rs232_2400_rsp_parse: the bytes it has processed, and its status
RspParse(rq, nak, d) ==
  LET starts == {i \in DOMAIN d : d[i].c = "("}
      s == PacketStart(d)
      ends == {i \in s..Len(d) : d[i].c = "r"}
      e == Min(ends)
  IN IF Len(d) < 5 THEN [n |-> 0, status |-> "no packet"]
     ELSE IF starts = {} THEN [n |-> Len(d), status |-> "no packet"]
     ELSE IF ends = {} \/ e - s <= 2 THEN [n |-> s - 1, status |-> "no packet"]
     ELSE [n |-> e, status |-> IF ~CrcFits(d, s, e) THEN "crc"
                               ELSE IF nak THEN "rejected" ELSE StatusOf(rq, Form[rq])]

\* One call of the parser by parse and process_data.  A refused request is
\* not expected any longer.  A third round takes nothing more.
Round(c, nak, d) ==
  IF c.rq = "none" \/ c.n = Len(d) THEN c
  ELSE LET r == RspParse(c.rq, nak, SubSeq(d, c.n + 1, Len(d)))
       IN [rq |-> IF r.status = "rejected" THEN "none" ELSE c.rq,
           n |-> c.n + r.n,
           judged |-> IF r.status = "no packet" THEN c.judged ELSE Append(c.judged, r.status)]

Rs232Init ==
  /\ asked = "none" /\ line = <<>> /\ kept = <<>> /\ judged = <<>>
  /\ answer = [rq |-> "none", clean |-> FALSE, nak |-> FALSE] /\ answers = 0

\* The client asks, the inverter answers; on the line there may be noise
\* before the answer.  A clean answer has no delimiter in its CRC, finds the ring
\* buffer empty and, if it fits the view at all, does so with the noise.
Ask(rq, nak, crc, noise) ==
  /\ line = <<>> /\ answers < MaxAnswers
  /\ answers' = answers + 1
  /\ asked' = rq
  /\ line' = [i \in DOMAIN noise |-> [c |-> noise[i], id |-> 0, at |-> 0, len |-> 0]]
             \o Framed(IF nak THEN "QPI" ELSE rq, crc, answers')
  /\ judged' = <<>>
  /\ answer' = [rq |-> rq, nak |-> nak,
                clean |-> /\ kept = <<>> /\ crc = <<"x", "x">>
                          /\ nak \/ FitsView(rq) => Len(line') <= PeekSize]
  /\ UNCHANGED kept

\* uart_rx_cb and process_data: a chunk of n bytes arrives.
ProcessData(n) ==
  /\ n <= Len(line)
  /\ line' = SubSeq(line, n + 1, Len(line))
  /\ LET all == kept \o SubSeq(line, 1, n)
         ring == SubSeq(all, Max({1, Len(all) - RingSize + 1}), Len(all))
         seen == SubSeq(ring, 1, Min({PeekSize, Len(ring)}))
         c0 == [rq |-> asked, n |-> 0, judged |-> judged]
         c == Round(Round(Round(c0, answer.nak, seen), answer.nak, seen), answer.nak, seen)
     IN /\ kept' = SubSeq(ring, c.n + 1, Len(ring))
        /\ judged' = c.judged
        /\ asked' = c.rq
  /\ UNCHANGED <<answer, answers>>

\* A byte is lost on the way.
LoseByte ==
  /\ line # <<>>
  /\ line' = Tail(line)
  /\ answer' = [answer EXCEPT !.clean = FALSE]
  /\ UNCHANGED <<asked, kept, judged, answers>>

Rs232Next ==
  \/ \E rq \in Requests, nak \in BOOLEAN, noise \in {<<>>, <<"x">>, <<"(">>, <<"r", "(">>},
        crc \in {<<"x", "x">>, <<"(", "x">>, <<"x", "(">>, <<"r", "x">>, <<"x", "r">>} :
       Ask(rq, nak, crc, noise)
  \/ \E n \in 1..(PeekSize + 8) : ProcessData(n)
  \/ LoseByte

-----------------------------------------------------------------------------
(* Whatever the chunks it arrives in and the noise before it, an answer    *)
(* that fits the view, with no delimiter in its CRC and nothing left over  *)
(* in the ring buffer, is judged exactly once (rs232_2400_protocol.c:      *)
(* 636-655), and in the form its parser's comment gives it is accepted,    *)
(* with two exceptions: QGOV is scanned for integers, QCHGS is measured    *)
(* with the '\r'.  Two answers do not fit: those to QPIGS, the client's    *)
(* main poll (rs232_2400_protocol.c:226), and to QPIHF (584) are longer    *)
(* than the 64 bytes that rx.c:22 looks at, and they are never judged.     *)
TooLong == {"QPIGS", "QPIHF"}

AnswersUnderstood ==
  line = <<>> /\ answer.clean =>
    judged = IF answer.nak THEN <<"rejected">>
             ELSE IF answer.rq \in TooLong THEN <<>>
             ELSE <<IF answer.rq \in {"QGOV", "QCHGS"} THEN "malformed" ELSE "ok">>
=============================================================================

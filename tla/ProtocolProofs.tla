--------------------------- MODULE ProtocolProofs ---------------------------
(***************************************************************************)
(* The two protocols of the device, for all values of their constants:     *)
(* the inverter's answers are taken for what they are (AnswersUnderstood), *)
(* the server's requests are answered once, within the buffer              *)
(* (AnsweredOnce), and its messages are parsed as they were sent           *)
(* (ParsedAsSent).                                                         *)
(*                                                                         *)
(* Both are about bytes.  The sections on the RS232 line follow one answer *)
(* behind its noise through the parser's calls; those on the server's      *)
(* protocol count the bytes of a layout, then show what each message puts  *)
(* into the buffer and what the parser of each command takes out of it.    *)
(***************************************************************************)
EXTENDS Parts, BasicLemmas, SequenceTheorems, FiniteSetTheorems, TLAPS

-----------------------------------------------------------------------------
(* The inverter's answers                                                  *)

\* The lengths of a payload up to each of its fields
Lengths232(u, p) ==
  /\ u[0] = -1
  /\ \A n \in 1..Len(p) : u[n] = u[n - 1] + p[n].width + 1

LEMMA SizeSums ==
  ASSUME NEW p, Len(p) \in Nat, \A n \in 1..Len(p) : p[n].width \in Int
  PROVE  \E u \in [0..Len(p) -> Int] : Lengths232(u, p) /\ Size232(p) = u[Len(p)]
<1> DEFINE m == Len(p)
           step == [q \in (1..m) \X Int |-> q[2] + p[q[1]].width + 1]
           upto == CHOOSE u : u = [n \in 0..m |-> IF n = 0 THEN -1 ELSE u[n - 1] + p[n].width + 1]
<1>1. step \in [(1..m) \X Int -> Int]  OBVIOUS
<1>2. \A n \in 1..m, i \in Int : step[<<n, i>>] = i + p[n].width + 1  OBVIOUS
<1>3. m \in Nat /\ -1 \in Int  OBVIOUS
<1>4. Size232(p) = upto[m]  BY DEF Size232
<1> HIDE DEF step, m
<1>5. PICK u \in [0..m -> Int] : GoesFrom(u, -1, step, m)  BY <1>1, <1>3, Recursion
<1>6. ASSUME NEW n \in 1..m  PROVE u[n] = u[n - 1] + p[n].width + 1
  <2>1. u[n - 1] \in Int  BY <1>3
  <2> QED  BY <1>2, <1>5, <2>1 DEF GoesFrom
<1>7. u = [n \in 0..m |-> IF n = 0 THEN -1 ELSE u[n - 1] + p[n].width + 1]
  <2>1. \A n \in 0..m : u[n] = IF n = 0 THEN -1 ELSE u[n - 1] + p[n].width + 1
    BY <1>3, <1>5, <1>6 DEF GoesFrom
  <2> QED  BY <1>5, <2>1
<1>8. upto = [n \in 0..m |-> IF n = 0 THEN -1 ELSE upto[n - 1] + p[n].width + 1]
  BY <1>7
<1> HIDE DEF upto
<1>9. upto[0] = -1 /\ \A n \in 1..m : upto[n] = upto[n - 1] + p[n].width + 1
  <2>1. upto[0] = -1  BY <1>3, <1>8
  <2>2. ASSUME NEW n \in 1..m  PROVE upto[n] = upto[n - 1] + p[n].width + 1
    <3>1. n \in 0..m /\ n # 0  BY <1>3
    <3> QED  BY <1>8, <3>1
  <2> QED  BY <2>1, <2>2
<1>10. \A n \in 0..m : upto[n] \in Int
  <2> DEFINE T == {n \in 0..m : upto[n] \in Int}
  <2>1. 0 \in T  BY <1>3, <1>9
  <2>2. ASSUME NEW n \in 1..m, n - 1 \in T  PROVE n \in T
    <3>1. n \in 0..m /\ upto[n - 1] \in Int /\ p[n].width \in Int  BY <2>2 DEF m
    <3> QED  BY <1>9, <3>1
  <2> HIDE DEF T
  <2>3. \A n \in 0..m : n \in T  BY <1>3, <2>1, <2>2, Induction
  <2> QED  BY <2>3 DEF T
<1>11. upto \in [0..m -> Int]  BY <1>8, <1>10
<1> QED  BY <1>4, <1>9, <1>11 DEF Lengths232, m

\* The lengths of short payloads
LEMMA ShortPayloads ==
  ASSUME NEW p, Len(p) \in 1..4, \A n \in 1..Len(p) : p[n].width \in Int
  PROVE  /\ Len(p) = 1 => Size232(p) = p[1].width
         /\ Len(p) = 2 => Size232(p) = p[1].width + p[2].width + 1
         /\ Len(p) = 3 => Size232(p) = p[1].width + p[2].width + p[3].width + 2
         /\ Len(p) = 4 => Size232(p) = p[1].width + p[2].width + p[3].width + p[4].width + 3
<1>1. PICK u \in [0..Len(p) -> Int] : Lengths232(u, p) /\ Size232(p) = u[Len(p)]  BY SizeSums
<1>2. u[0] = -1 /\ u[1] = u[0] + p[1].width + 1 /\ u[1] = p[1].width  BY <1>1 DEF Lengths232
<1>3. Len(p) >= 2 => u[2] = u[1] + p[2].width + 1 /\ u[1] \in Int /\ u[2] \in Int
  BY <1>1 DEF Lengths232
<1>4. Len(p) >= 3 => u[3] = u[2] + p[3].width + 1 /\ u[3] \in Int
  BY <1>1 DEF Lengths232
<1>5. Len(p) = 4 => u[4] = u[3] + p[4].width + 1
  BY <1>1 DEF Lengths232
<1>6. Len(p) = 1 => Size232(p) = p[1].width  BY <1>1, <1>2
<1>7. Len(p) = 2 => Size232(p) = p[1].width + p[2].width + 1  BY <1>1, <1>2, <1>3
<1>8. Len(p) = 3 => Size232(p) = p[1].width + p[2].width + p[3].width + 2
  BY <1>1, <1>2, <1>3, <1>4
<1>9. Len(p) = 4 => Size232(p) = p[1].width + p[2].width + p[3].width + p[4].width + 3
  BY <1>1, <1>2, <1>3, <1>4, <1>5
<1> QED  BY <1>6, <1>7, <1>8, <1>9

\* Fields that are digits, or of the kind that is asked for, are all converted ...
LEMMA AllConverted ==
  ASSUME NEW p, NEW kinds, \A i \in 1..Len(kinds) : p[i].kind \in {"int", kinds[i]}
  PROVE  Scanned(p, kinds) = "ok"
  BY DEF Scanned, Converted

\* ... and nothing is if the first has a point and digits are asked for.
LEMMA NoneConverted ==
  ASSUME NEW p, NEW kinds, Len(kinds) \in Nat, Len(kinds) >= 2,
         p[1].kind = "float", kinds[1] = "int"
  PROVE  Scanned(p, kinds) = "malformed"
<1> DEFINE Suits(i) == p[i].kind \in {"int", kinds[i]}
           Bad == {i \in 1..Len(kinds) : ~Suits(i)}
<1>1. 1 \in Bad /\ Bad \subseteq Nat /\ \A i \in Bad : 1 <= i  OBVIOUS
<1> HIDE DEF Bad
<1>2. Min(Bad) = 1  BY <1>1 DEF Min
<1>3. Converted(p, kinds) = 1  BY <1>1, <1>2 DEF Converted, Bad
<1>4. Len(kinds) # 1  OBVIOUS
<1> QED  BY <1>3, <1>4, Zenon DEF Scanned

\* What the parsers make of the forms of their answers, and which of them fit
LEMMA FormsUnderstood ==
  ASSUME NEW rq \in Requests
  PROVE  /\ StatusOf(rq, Form[rq]) =
              IF rq \in {"QGOV", "QCHGS", "QPIHF"} THEN "malformed" ELSE "ok"
         /\ FitsView(rq) <=> rq \notin TooLong
<1>1. StatusOf("QPI", Form["QPI"]) = "ok" /\ FitsView("QPI")
  <2> DEFINE p == Form["QPI"]
  <2>1. p = <<Txt(4)>>  BY DEF Form
  <2> HIDE DEF p
  <2>2. Len(p) = 1 /\ p[1].width = 4
    BY <2>1 DEF Txt
  <2>3. Size232(p) = 4  BY <2>2, ShortPayloads
  <2> QED  BY <2>2, <2>3 DEF StatusOf, ParseQpi, p, FitsView
<1>2. StatusOf("QID", Form["QID"]) = "ok" /\ FitsView("QID")
  <2> DEFINE p == Form["QID"]
  <2>1. p = <<Txt(14)>>  BY DEF Form
  <2> HIDE DEF p
  <2>2. Len(p) = 1 /\ p[1].width = 14
    BY <2>1 DEF Txt
  <2>3. Size232(p) = 14  BY <2>2, ShortPayloads
  <2> QED  BY <2>2, <2>3 DEF StatusOf, ParseQid, p, Exactly232, FitsView
<1>3. StatusOf("QVFW", Form["QVFW"]) = "ok" /\ FitsView("QVFW")
  <2> DEFINE p == Form["QVFW"]
  <2>1. p = <<Txt(14)>>  BY DEF Form
  <2> HIDE DEF p
  <2>2. Len(p) = 1 /\ p[1].width = 14
    BY <2>1 DEF Txt
  <2>3. Size232(p) = 14  BY <2>2, ShortPayloads
  <2> QED  BY <2>2, <2>3 DEF StatusOf, ParseQvfw, p, Exactly232, FitsView
<1>4. StatusOf("QFLAG", Form["QFLAG"]) = "ok" /\ FitsView("QFLAG")
  <2> DEFINE p == Form["QFLAG"]
  <2>1. p = <<Txt(11)>>  BY DEF Form
  <2> HIDE DEF p
  <2>2. Len(p) = 1 /\ p[1].width = 11
    BY <2>1 DEF Txt
  <2>3. Size232(p) = 11  BY <2>2, ShortPayloads
  <2> QED  BY <2>2, <2>3 DEF StatusOf, ParseQflag, p, Exactly232, FitsView
<1>5. StatusOf("QMOD", Form["QMOD"]) = "ok" /\ FitsView("QMOD")
  <2> DEFINE p == Form["QMOD"]
  <2>1. p = <<Txt(1)>>  BY DEF Form
  <2> HIDE DEF p
  <2>2. Len(p) = 1 /\ p[1].width = 1
    BY <2>1 DEF Txt
  <2>3. Size232(p) = 1  BY <2>2, ShortPayloads
  <2> QED  BY <2>2, <2>3 DEF StatusOf, ParseQmod, p, Exactly232, FitsView
<1>6. StatusOf("QPICF", Form["QPICF"]) = "ok" /\ FitsView("QPICF")
  <2> DEFINE p == Form["QPICF"]
  <2>1. p = <<Txt(4)>>  BY DEF Form
  <2> HIDE DEF p
  <2>2. Len(p) = 1 /\ p[1].width = 4
    BY <2>1 DEF Txt
  <2>3. Size232(p) = 4  BY <2>2, ShortPayloads
  <2> QED  BY <2>2, <2>3 DEF StatusOf, ParseQpicf, p, Exactly232, FitsView
<1>7. StatusOf("QOPMP", Form["QOPMP"]) = "ok" /\ FitsView("QOPMP")
  <2> DEFINE p == Form["QOPMP"]
  <2>1. p = <<Num(5)>>  BY DEF Form
  <2> HIDE DEF p
  <2>2. Len(p) = 1 /\ p[1].width = 5
          /\ p[1].kind = "int"
    BY <2>1 DEF Num
  <2>3. Size232(p) = 5  BY <2>2, ShortPayloads
  <2> QED  BY <2>2, <2>3 DEF StatusOf, ParseQopmp, p, StrDec2Int, FitsView
<1>8. StatusOf("QLST", Form["QLST"]) = "ok" /\ FitsView("QLST")
  <2> DEFINE p == Form["QLST"]
  <2>1. p = <<Num(2)>>  BY DEF Form
  <2> HIDE DEF p
  <2>2. Len(p) = 1 /\ p[1].width = 2
    BY <2>1 DEF Num
  <2>3. Size232(p) = 2  BY <2>2, ShortPayloads
  <2> QED  BY <2>2, <2>3 DEF StatusOf, ParseQlst, p, FitsView
<1>9. StatusOf("QDM", Form["QDM"]) = "ok" /\ FitsView("QDM")
  <2> DEFINE p == Form["QDM"]
  <2>1. p = <<Num(3)>>  BY DEF Form
  <2> HIDE DEF p
  <2>2. Len(p) = 1 /\ p[1].width = 3
          /\ p[1].kind = "int"
    BY <2>1 DEF Num
  <2>3. Size232(p) = 3  BY <2>2, ShortPayloads
  <2> DEFINE kinds == Ints(1)
  <2>4. Len(kinds) = 1 /\ kinds[1] = "int"
    BY DEF Ints
  <2> HIDE DEF kinds
  <2>5. Scanned(p, kinds) = "ok"  BY <2>2, <2>4, AllConverted
  <2> QED  BY <2>2, <2>3, <2>5 DEF StatusOf, ParseQdm, p, kinds, FitsView
<1>10. StatusOf("QPIWS", Form["QPIWS"]) = "ok" /\ FitsView("QPIWS")
  <2> DEFINE p == Form["QPIWS"]
  <2>1. p = <<Num(32)>>  BY DEF Form
  <2> HIDE DEF p
  <2>2. Len(p) = 1 /\ p[1].width = 32
    BY <2>1 DEF Num
  <2>3. Size232(p) = 32  BY <2>2, ShortPayloads
  <2> QED  BY <2>2, <2>3 DEF StatusOf, ParseQpiws, p, FitsView
<1>11. StatusOf("QMPPTV", Form["QMPPTV"]) = "ok" /\ FitsView("QMPPTV")
  <2> DEFINE p == Form["QMPPTV"]
  <2>1. p = <<Num(3), Num(3)>>  BY DEF Form
  <2> HIDE DEF p
  <2>2. Len(p) = 2 /\ p[1].width = 3 /\ p[2].width = 3
          /\ p[1].kind = "int" /\ p[2].kind = "int"
    BY <2>1 DEF Num
  <2>3. Size232(p) = 7  BY <2>2, ShortPayloads
  <2> DEFINE kinds == Ints(2)
  <2>4. Len(kinds) = 2 /\ kinds[1] = "int" /\ kinds[2] = "int"
    BY DEF Ints
  <2> HIDE DEF kinds
  <2>5. Scanned(p, kinds) = "ok"  BY <2>2, <2>4, AllConverted
  <2> QED  BY <2>2, <2>3, <2>5 DEF StatusOf, ParseQmpptv, p, kinds, FitsView
<1>12. StatusOf("QPVIPV", Form["QPVIPV"]) = "ok" /\ FitsView("QPVIPV")
  <2> DEFINE p == Form["QPVIPV"]
  <2>1. p = <<Num(3), Num(3)>>  BY DEF Form
  <2> HIDE DEF p
  <2>2. Len(p) = 2 /\ p[1].width = 3 /\ p[2].width = 3
          /\ p[1].kind = "int" /\ p[2].kind = "int"
    BY <2>1 DEF Num
  <2>3. Size232(p) = 7  BY <2>2, ShortPayloads
  <2> DEFINE kinds == Ints(2)
  <2>4. Len(kinds) = 2 /\ kinds[1] = "int" /\ kinds[2] = "int"
    BY DEF Ints
  <2> HIDE DEF kinds
  <2>5. Scanned(p, kinds) = "ok"  BY <2>2, <2>4, AllConverted
  <2> QED  BY <2>2, <2>3, <2>5 DEF StatusOf, ParseQpvipv, p, kinds, FitsView
<1>13. StatusOf("QGLTV", Form["QGLTV"]) = "ok" /\ FitsView("QGLTV")
  <2> DEFINE p == Form["QGLTV"]
  <2>1. p = <<Num(3), Num(3)>>  BY DEF Form
  <2> HIDE DEF p
  <2>2. Len(p) = 2 /\ p[1].width = 3 /\ p[2].width = 3
          /\ p[1].kind = "int" /\ p[2].kind = "int"
    BY <2>1 DEF Num
  <2>3. Size232(p) = 7  BY <2>2, ShortPayloads
  <2> DEFINE kinds == Ints(2)
  <2>4. Len(kinds) = 2 /\ kinds[1] = "int" /\ kinds[2] = "int"
    BY DEF Ints
  <2> HIDE DEF kinds
  <2>5. Scanned(p, kinds) = "ok"  BY <2>2, <2>4, AllConverted
  <2> QED  BY <2>2, <2>3, <2>5 DEF StatusOf, ParseQgltv, p, kinds, FitsView
<1>14. StatusOf("QGOV", Form["QGOV"]) = "malformed" /\ FitsView("QGOV")
  <2> DEFINE p == Form["QGOV"]
  <2>1. p = <<Dec(5), Dec(5)>>  BY DEF Form
  <2> HIDE DEF p
  <2>2. Len(p) = 2 /\ p[1].width = 5 /\ p[2].width = 5
          /\ p[1].kind = "float" /\ p[2].kind = "float"
    BY <2>1 DEF Dec
  <2>3. Size232(p) = 11  BY <2>2, ShortPayloads
  <2> DEFINE kinds == Ints(2)
  <2>4. Len(kinds) = 2 /\ kinds[1] = "int" /\ kinds[2] = "int"
    BY DEF Ints
  <2> HIDE DEF kinds
  <2>5. Scanned(p, kinds) = "malformed"
    <3>1. Len(kinds) \in Nat /\ Len(kinds) >= 2  BY <2>4
    <3> QED  BY <2>2, <2>4, <3>1, NoneConverted, Zenon
  <2> QED  BY <2>2, <2>3, <2>5 DEF StatusOf, ParseQgov, p, kinds, FitsView
<1>15. StatusOf("QGOF", Form["QGOF"]) = "ok" /\ FitsView("QGOF")
  <2> DEFINE p == Form["QGOF"]
  <2>1. p = <<Dec(4), Dec(4)>>  BY DEF Form
  <2> HIDE DEF p
  <2>2. Len(p) = 2 /\ p[1].width = 4 /\ p[2].width = 4
          /\ p[1].kind = "float" /\ p[2].kind = "float"
    BY <2>1 DEF Dec
  <2>3. Size232(p) = 9  BY <2>2, ShortPayloads, SMTT(30)
  <2> DEFINE kinds == Floats(2)
  <2>4. Len(kinds) = 2 /\ kinds[1] = "float" /\ kinds[2] = "float"
    BY DEF Floats
  <2> HIDE DEF kinds
  <2>5. Scanned(p, kinds) = "ok"  BY <2>2, <2>4, AllConverted
  <2> QED  BY <2>2, <2>3, <2>5 DEF StatusOf, ParseQgof, p, kinds, FitsView
<1>16. StatusOf("QTPR", Form["QTPR"]) = "ok" /\ FitsView("QTPR")
  <2> DEFINE p == Form["QTPR"]
  <2>1. p = <<Dec(5), Dec(5), Dec(5)>>  BY DEF Form
  <2> HIDE DEF p
  <2>2. Len(p) = 3 /\ p[1].width = 5 /\ p[2].width = 5 /\ p[3].width = 5
          /\ p[1].kind = "float" /\ p[2].kind = "float" /\ p[3].kind = "float"
    BY <2>1 DEF Dec
  <2>3. Size232(p) = 17  BY <2>2, ShortPayloads
  <2> DEFINE kinds == Floats(3)
  <2>4. Len(kinds) = 3 /\ kinds[1] = "float" /\ kinds[2] = "float" /\ kinds[3] = "float"
    BY DEF Floats
  <2> HIDE DEF kinds
  <2>5. Scanned(p, kinds) = "ok"  BY <2>2, <2>4, AllConverted
  <2> QED  BY <2>2, <2>3, <2>5 DEF StatusOf, ParseQtpr, p, kinds, FitsView
<1>17. StatusOf("QDI2", Form["QDI2"]) = "ok" /\ FitsView("QDI2")
  <2> DEFINE p == Form["QDI2"]
  <2>1. p = <<Dec(4), Dec(4), Num(3)>>  BY DEF Form
  <2> HIDE DEF p
  <2>2. Len(p) = 3 /\ p[1].width = 4 /\ p[2].width = 4 /\ p[3].width = 3
          /\ p[1].kind = "float" /\ p[2].kind = "float" /\ p[3].kind = "int"
    BY <2>1 DEF Dec, Num
  <2>3. Size232(p) = 13  BY <2>2, ShortPayloads
  <2> DEFINE kinds == Floats(2) \o Ints(1)
  <2>4. Len(kinds) = 3 /\ kinds[1] = "float" /\ kinds[2] = "float" /\ kinds[3] = "int"
    BY DEF Floats, Ints
  <2> HIDE DEF kinds
  <2>5. Scanned(p, kinds) = "ok"  BY <2>2, <2>4, AllConverted
  <2> QED  BY <2>2, <2>3, <2>5 DEF StatusOf, ParseQdi2, p, kinds, FitsView
<1>18. StatusOf("QPIHF", Form["QPIHF"]) = "malformed" /\ ~FitsView("QPIHF")
  <2> DEFINE p == Form["QPIHF"]
  <2>1. p = <<Num(2), Num(14), Dec(5), Dec(5), Dec(5), Dec(5), Dec(5), Dec(5), Dec(5),
              Dec(5), Dec(5), Dec(4), Txt(6), Num(3), Dec(5), Dec(5), Dec(4), Dec(5),
              Dec(5), Num(16)>>
    BY DEF Form
  <2> HIDE DEF p
  <2>2. Len(p) = 20 /\ p[1].width = 2 /\ p[2].width = 14 /\ p[3].width = 5 /\ p[4].width = 5
        /\ p[5].width = 5 /\ p[6].width = 5 /\ p[7].width = 5 /\ p[8].width = 5 /\ p[9].width = 5
        /\ p[10].width = 5 /\ p[11].width = 5 /\ p[12].width = 4 /\ p[13].width = 6
        /\ p[14].width = 3 /\ p[15].width = 5 /\ p[16].width = 5 /\ p[17].width = 4
        /\ p[18].width = 5 /\ p[19].width = 5 /\ p[20].width = 16
    BY <2>1 DEF Dec, Num, Txt
  <2>3. PICK u \in [0..Len(p) -> Int] : Lengths232(u, p) /\ Size232(p) = u[Len(p)]
    <3>1. \A i \in 1..Len(p) : p[i].width \in Int  BY <2>2
    <3>2. Len(p) \in Nat  BY <2>2
    <3> QED  BY <3>1, <3>2, SizeSums
  <2>4. u[1] = 2 /\ u[2] = 17 /\ u[3] = 23 /\ u[4] = 29 /\ u[5] = 35 /\ u[6] = 41 /\ u[7] = 47
        /\ u[8] = 53 /\ u[9] = 59 /\ u[10] = 65 /\ u[11] = 71 /\ u[12] = 76 /\ u[13] = 83
        /\ u[14] = 87 /\ u[15] = 93 /\ u[16] = 99 /\ u[17] = 104 /\ u[18] = 110 /\ u[19] = 116
        /\ u[20] = 133
    BY <2>2, <2>3 DEF Lengths232
  <2> QED  BY <2>2, <2>3, <2>4 DEF StatusOf, ParseQpihf, p, FitsView
<1>19. StatusOf("QCHGS", Form["QCHGS"]) = "malformed" /\ FitsView("QCHGS")
  <2> DEFINE p == Form["QCHGS"]
  <2>1. p = <<Dec(4), Dec(4), Dec(4), Dec(4)>>  BY DEF Form
  <2> HIDE DEF p
  <2>2. Len(p) = 4 /\ p[1].width = 4 /\ p[2].width = 4 /\ p[3].width = 4 /\ p[4].width = 4
          /\ p[1].kind = "float" /\ p[2].kind = "float" /\ p[3].kind = "float" /\ p[4].kind = "float"
    BY <2>1 DEF Dec
  <2>3. Size232(p) = 19
    <3>1. Len(p) \in 1..4 /\ \A n \in 1..Len(p) : p[n].width \in Int  BY <2>2
    <3> QED  BY <2>2, <3>1, ShortPayloads, SMTT(30)
  <2> QED  BY <2>2, <2>3 DEF StatusOf, ParseQchgs, p, FitsView
<1>20. StatusOf("QMD", Form["QMD"]) = "ok" /\ FitsView("QMD")
  <2> DEFINE p == Form["QMD"]
  <2>1. p = <<Txt(15), Txt(7), Txt(2), Txt(3), Txt(3), Txt(3), Txt(2), Txt(4)>>
    BY DEF Form
  <2> HIDE DEF p
  <2>2. Len(p) = 8 /\ p[1].width = 15 /\ p[2].width = 7 /\ p[3].width = 2 /\ p[4].width = 3
        /\ p[5].width = 3 /\ p[6].width = 3 /\ p[7].width = 2 /\ p[8].width = 4
    BY <2>1 DEF Txt
  <2>3. PICK u \in [0..Len(p) -> Int] : Lengths232(u, p) /\ Size232(p) = u[Len(p)]
    <3>1. \A i \in 1..Len(p) : p[i].width \in Int  BY <2>2
    <3>2. Len(p) \in Nat  BY <2>2
    <3> QED  BY <3>1, <3>2, SizeSums
  <2>4. u[1] = 15 /\ u[2] = 23 /\ u[3] = 26 /\ u[4] = 30 /\ u[5] = 34 /\ u[6] = 38
        /\ u[7] = 41 /\ u[8] = 46
    BY <2>2, <2>3 DEF Lengths232
  <2> QED  BY <2>2, <2>3, <2>4 DEF StatusOf, ParseQmd, p, FitsView
<1>21. StatusOf("QPIRI", Form["QPIRI"]) = "ok" /\ FitsView("QPIRI")
  <2> DEFINE p == Form["QPIRI"]
  <2>1. p = <<Dec(5), Dec(4), Dec(5), Dec(5), Dec(5), Dec(4), Dec(5), Num(1), Num(2),
            Num(1)>>
    BY DEF Form
  <2> HIDE DEF p
  <2>2. Len(p) = 10 /\ p[1].width = 5 /\ p[2].width = 4 /\ p[3].width = 5 /\ p[4].width = 5
        /\ p[5].width = 5 /\ p[6].width = 4 /\ p[7].width = 5 /\ p[8].width = 1
        /\ p[9].width = 2 /\ p[10].width = 1
    BY <2>1 DEF Dec, Num
  <2>3. PICK u \in [0..Len(p) -> Int] : Lengths232(u, p) /\ Size232(p) = u[Len(p)]
    <3>1. \A i \in 1..Len(p) : p[i].width \in Int  BY <2>2
    <3>2. Len(p) \in Nat  BY <2>2
    <3> QED  BY <3>1, <3>2, SizeSums
  <2>4. u[1] = 5 /\ u[2] = 10 /\ u[3] = 16 /\ u[4] = 22 /\ u[5] = 28 /\ u[6] = 33
        /\ u[7] = 39 /\ u[8] = 41 /\ u[9] = 44 /\ u[10] = 46
    BY <2>2, <2>3 DEF Lengths232
  <2> DEFINE kinds == Floats(7) \o Ints(3)
  <2>5. Len(kinds) = 10 /\ \A i \in 1..10 : kinds[i] = IF i <= 7 THEN "float" ELSE "int"
    BY DEF Floats, Ints
  <2> HIDE DEF kinds
  <2>6. p[1].kind = "float" /\ p[2].kind = "float" /\ p[3].kind = "float"
        /\ p[4].kind = "float" /\ p[5].kind = "float" /\ p[6].kind = "float"
        /\ p[7].kind = "float" /\ p[8].kind = "int" /\ p[9].kind = "int"
        /\ p[10].kind = "int"
    BY <2>1 DEF Dec, Num
  <2>7. \A i \in 1..Len(kinds) : p[i].kind \in {"int", kinds[i]}  BY <2>5, <2>6
  <2>8. Scanned(p, kinds) = "ok"  BY <2>7, AllConverted
  <2> QED  BY <2>2, <2>3, <2>4, <2>8 DEF StatusOf, ParseQpiri, p, kinds, FitsView
<1>22. StatusOf("QPIGS", Form["QPIGS"]) = "ok" /\ ~FitsView("QPIGS")
  <2> DEFINE p == Form["QPIGS"]
  <2>1. p = <<Dec(5), Dec(4), Dec(5), Dec(4), Num(4), Num(4), Num(3), Num(3), Dec(5),
            Num(3), Num(3), Num(4), Dec(4), Dec(5), Dec(5), Num(5), Num(8), Num(2), Num(2),
            Num(5), Num(3)>>
    BY DEF Form
  <2> HIDE DEF p
  <2>2. Len(p) = 21 /\ p[1].width = 5 /\ p[2].width = 4 /\ p[3].width = 5 /\ p[4].width = 4
        /\ p[5].width = 4 /\ p[6].width = 4 /\ p[7].width = 3 /\ p[8].width = 3
        /\ p[9].width = 5 /\ p[10].width = 3 /\ p[11].width = 3 /\ p[12].width = 4
        /\ p[13].width = 4 /\ p[14].width = 5 /\ p[15].width = 5 /\ p[16].width = 5
        /\ p[17].width = 8 /\ p[18].width = 2 /\ p[19].width = 2 /\ p[20].width = 5
        /\ p[21].width = 3
    BY <2>1 DEF Dec, Num
  <2>3. PICK u \in [0..Len(p) -> Int] : Lengths232(u, p) /\ Size232(p) = u[Len(p)]
    <3>1. \A i \in 1..Len(p) : p[i].width \in Int  BY <2>2
    <3>2. Len(p) \in Nat  BY <2>2
    <3> QED  BY <3>1, <3>2, SizeSums
  <2>4. u[1] = 5 /\ u[2] = 10 /\ u[3] = 16 /\ u[4] = 21 /\ u[5] = 26 /\ u[6] = 31
        /\ u[7] = 35 /\ u[8] = 39 /\ u[9] = 45 /\ u[10] = 49 /\ u[11] = 53 /\ u[12] = 58
        /\ u[13] = 63 /\ u[14] = 69 /\ u[15] = 75 /\ u[16] = 81 /\ u[17] = 90 /\ u[18] = 93
        /\ u[19] = 96 /\ u[20] = 102 /\ u[21] = 106
    BY <2>2, <2>3 DEF Lengths232
  <2> QED  BY <2>2, <2>3, <2>4 DEF StatusOf, ParseQpigs, p, FitsView
<1>23. rq \in {"QPI", "QID", "QVFW", "QFLAG", "QMOD", "QPICF", "QOPMP",
                "QLST", "QDM", "QPIWS", "QMPPTV", "QPVIPV", "QGLTV",
                "QGOV", "QGOF", "QTPR", "QDI2", "QPIHF",
                "QCHGS", "QMD", "QPIRI", "QPIGS"}
  BY DEF Requests, Form
<1> QED
  BY <1>1, <1>2, <1>3, <1>4, <1>5, <1>6, <1>7, <1>8, <1>9, <1>10, <1>11, <1>12, <1>13, <1>14,
     <1>15, <1>16, <1>17, <1>18, <1>19, <1>20, <1>21, <1>22, <1>23 DEF TooLong

-----------------------------------------------------------------------------
(* The bytes of an answer, and how the parser finds it behind the noise    *)

Bytes232 == [c : {"(", "r", "x"}, id : Nat, at : Nat, len : Nat]

\* The i-th of the six bytes of a short answer
AnswerByte(i, id) ==
  [c |-> IF i = 1 THEN "(" ELSE IF i = 6 THEN "r" ELSE "x", id |-> id, at |-> i, len |-> 6]

\* k bytes of noise, in which no '\r' ends what a '(' began, and an answer
NoiseAndAnswer(w, k) ==
  /\ w \in Seq(Bytes232) /\ k \in Nat /\ Len(w) = k + 6
  /\ \E id \in Nat : \A i \in 1..6 : w[k + i] = AnswerByte(i, id)
  /\ \A i, j \in 1..k : i < j /\ w[i].c = "(" => w[j].c # "r"

\* What the parser is to say of an answer
Judgement(rq, nak) ==
  IF nak THEN "rejected" ELSE IF rq \in {"QGOV", "QCHGS", "QPIHF"} THEN "malformed" ELSE "ok"

\* The bytes from a to m
LEMMA SeenBytes ==
  ASSUME NEW w \in Seq(Bytes232), NEW a \in Nat, NEW m \in Nat, a <= m, m <= Len(w)
  PROVE  LET d == SubSeq(w, a + 1, m) IN
         /\ d \in Seq(Bytes232) /\ Len(d) = m - a /\ DOMAIN d = 1..(m - a)
         /\ \A i \in 1..(m - a) : d[i] = w[a + i]
<1> DEFINE d == SubSeq(w, a + 1, m)
<1>1. d \in Seq(Bytes232) /\ Len(d) = m - a  OBVIOUS
<1>2. \A i \in 1..(m - a) : d[i] = w[a + i]  OBVIOUS
<1> QED  BY <1>1, <1>2

\* p passes over no more than k bytes, and no more than the m that there are.
PassesOver(p, k, m) == \E n \in 0..k : n <= m /\ p = [n |-> n, status |-> "no packet"]

\* As long as the answer has not all come, only noise is passed over ...
LEMMA NoiseParsed ==
  ASSUME NEW w, NEW k, NoiseAndAnswer(w, k), NEW a \in 0..k, NEW m \in a..(k + 5),
         NEW rq, NEW nak
  PROVE  PassesOver(RspParse(rq, nak, SubSeq(w, a + 1, m)), k - a, m - a)
<1> DEFINE d == SubSeq(w, a + 1, m)
           L == m - a
           opened == {i \in DOMAIN d : d[i].c = "("}
           s == PacketStart(d)
           closed == {i \in s..Len(d) : d[i].c = "r"}
<1>1. w \in Seq(Bytes232) /\ k \in Nat /\ Len(w) = k + 6 /\ a \in Nat /\ m \in Nat /\ L \in Nat
      /\ a <= m /\ m <= Len(w) /\ m <= k + 5
  BY DEF NoiseAndAnswer
<1>2. /\ d \in Seq(Bytes232) /\ Len(d) = L /\ DOMAIN d = 1..L
      /\ \A i \in 1..L : d[i] = w[a + i]
  BY <1>1, SeenBytes
<1> HIDE DEF d, L
<1>3. /\ w[k + 1].c = "("
      /\ \A i \in 2..6 : w[k + i].c # "("
      /\ \A i \in 1..5 : w[k + i].c # "r"
  <2>1. PICK id \in Nat : \A i \in 1..6 : w[k + i] = AnswerByte(i, id)  BY DEF NoiseAndAnswer
  <2>2. \A i \in 1..6 : w[k + i].c = IF i = 1 THEN "(" ELSE IF i = 6 THEN "r" ELSE "x"
    BY <2>1 DEF AnswerByte
  <2> QED  BY <2>2
<1>4. opened \in SUBSET (1..L)  BY <1>2
<1>5. CASE Len(d) < 5
  <2>1. RspParse(rq, nak, d) = [n |-> 0, status |-> "no packet"]
    BY <1>1, <1>2, <1>5 DEF RspParse
  <2>2. 0 \in 0..(k - a) /\ 0 <= m - a  BY <1>1
  <2> QED  BY <2>1, <2>2 DEF d, PassesOver
<1>6. CASE Len(d) >= 5 /\ opened = {}
  <2>1. RspParse(rq, nak, d) = [n |-> L, status |-> "no packet"]
    <3>1. ~(Len(d) < 5) /\ opened = {} /\ Len(d) = L  BY <1>1, <1>2, <1>6
    <3> QED  BY <3>1, Zenon DEF RspParse
  <2>2. L \in 0..(k - a) /\ L <= m - a
    <3>1. ~(m >= k + 1)
      <4> SUFFICES ASSUME m >= k + 1 PROVE FALSE  OBVIOUS
      <4>1. k + 1 - a \in 1..L /\ a + (k + 1 - a) = k + 1  BY <1>1 DEF L
      <4>2. d[k + 1 - a].c = "("  BY <1>2, <1>3, <4>1
      <4> QED  BY <1>2, <1>6, <4>1, <4>2
    <3> QED  BY <1>1, <3>1 DEF L
  <2> QED  BY <2>1, <2>2 DEF d, PassesOver
<1>7. CASE Len(d) >= 5 /\ opened # {}
  <2>1. s \in opened /\ (\A y \in opened : y <= s) /\ s \in 1..L
    BY <1>1, <1>4, <1>7, Greatest DEF PacketStart
  <2>2. s - 1 \in 0..(k - a) /\ s - 1 <= m - a /\ closed = {}
    <3> HIDE DEF s
    <3>1. CASE m >= k + 1
      <4>1. k + 1 - a \in 1..L /\ a + (k + 1 - a) = k + 1  BY <1>1, <3>1 DEF L
      <4>2. k + 1 - a \in opened  BY <1>2, <1>3, <4>1
      <4>3. s >= k + 1 - a  BY <1>1, <2>1, <4>2
      <4>4. ASSUME NEW i \in 1..L, i > k + 1 - a  PROVE d[i].c # "("
        <5>1. a + i - k \in 2..6 /\ k + (a + i - k) = a + i  BY <1>1, <4>4 DEF L
        <5> QED  BY <1>2, <1>3, <5>1
      <4>5. s = k + 1 - a  BY <1>1, <1>2, <2>1, <4>3, <4>4
      <4>6. ASSUME NEW i \in s..Len(d)  PROVE d[i].c # "r"
        <5>1. i \in 1..L /\ a + i - k \in 1..5 /\ k + (a + i - k) = a + i
          <6>1. i \in Int /\ s \in Int /\ s <= i /\ i <= L  BY <1>2, <2>1
          <6> QED  BY <1>1, <2>1, <4>5, <6>1 DEF L
        <5> QED  BY <1>2, <1>3, <5>1
      <4>7. closed = {}  BY <4>6
      <4>8. s - 1 \in 0..(k - a) /\ s - 1 <= m - a  BY <1>1, <3>1, <4>5
      <4> QED  BY <4>7, <4>8
    <3>2. CASE m <= k
      <4>1. ASSUME NEW i \in s..Len(d)  PROVE d[i].c # "r"
        <5>1. i \in 1..L /\ s <= i /\ a + s \in 1..k /\ a + i \in 1..k
          BY <1>1, <1>2, <2>1, <3>2 DEF L
        <5>2. w[a + s].c = "("  BY <1>2, <2>1
        <5>3. CASE i = s  BY <1>2, <5>1, <5>2, <5>3
        <5>4. CASE i # s
          <6>1. a + s < a + i  BY <1>1, <2>1, <5>1, <5>4
          <6>2. w[a + i].c # "r"  BY <5>1, <5>2, <6>1 DEF NoiseAndAnswer
          <6> QED  BY <1>2, <5>1, <6>2
        <5> QED  BY <5>3, <5>4
      <4> QED  BY <1>1, <2>1, <3>2, <4>1 DEF L
    <3> QED  BY <1>1, <3>1, <3>2
  <2>3. RspParse(rq, nak, d) = [n |-> s - 1, status |-> "no packet"]
    <3>1. ~(Len(d) < 5) /\ opened # {} /\ closed = {}  BY <1>1, <1>2, <1>7, <2>2
    <3> QED  BY <3>1, Zenon DEF RspParse
  <2> QED  BY <2>2, <2>3 DEF d, PassesOver
<1>8. Len(d) < 5 \/ Len(d) >= 5  BY <1>1, <1>2
<1> QED  BY <1>5, <1>6, <1>7, <1>8

\* ... and the answer is judged when it has: all that came is processed.
LEMMA AnswerParsed ==
  ASSUME NEW w, NEW k, NoiseAndAnswer(w, k), NEW a \in 0..k, NEW rq \in Requests,
         NEW nak \in BOOLEAN
  PROVE  RspParse(rq, nak, SubSeq(w, a + 1, k + 6))
           = [n |-> k + 6 - a, status |-> Judgement(rq, nak)]
<1> DEFINE d == SubSeq(w, a + 1, k + 6)
           L == k + 6 - a
           s == k + 1 - a
           opened == {i \in DOMAIN d : d[i].c = "("}
           closed == {i \in s..Len(d) : d[i].c = "r"}
<1>1. w \in Seq(Bytes232) /\ k \in Nat /\ Len(w) = k + 6 /\ a \in Nat /\ a <= k
  BY DEF NoiseAndAnswer
<1>2. PICK id \in Nat : \A i \in 1..6 : w[k + i] = AnswerByte(i, id)  BY DEF NoiseAndAnswer
<1>3. L \in Nat /\ s \in Nat /\ L = s + 5 /\ 1 <= s /\ ~(L < 5)  BY <1>1
<1>4. /\ d \in Seq(Bytes232) /\ Len(d) = L /\ DOMAIN d = 1..L
      /\ \A i \in 1..L : d[i] = w[a + i]
  BY <1>1, SeenBytes
<1>5. \A i \in 1..6 : s + i - 1 \in 1..L /\ a + (s + i - 1) = k + i  BY <1>1
<1>6. \A i \in 1..6 : d[s + i - 1] = AnswerByte(i, id)  BY <1>2, <1>4, <1>5
<1> HIDE DEF d, L, s
<1>7. \A j \in s..L : j - s + 1 \in 1..6 /\ s + (j - s + 1) - 1 = j  BY <1>3
<1>8. \A j \in s..L : d[j] = AnswerByte(j - s + 1, id)
  <2> SUFFICES ASSUME NEW j \in s..L  PROVE d[j] = AnswerByte(j - s + 1, id)  OBVIOUS
  <2>1. d[s + (j - s + 1) - 1] = AnswerByte(j - s + 1, id)  BY <1>6, <1>7
  <2> QED  BY <1>7, <2>1
<1>9. \A j \in s..L :
        d[j] = [c |-> IF j = s THEN "(" ELSE IF j = L THEN "r" ELSE "x",
                id |-> id, at |-> j - s + 1, len |-> 6]
  <2>1. \A j \in s..L : (j - s + 1 = 1 <=> j = s) /\ (j - s + 1 = 6 <=> j = L)  BY <1>3
  <2> QED  BY <1>8, <2>1 DEF AnswerByte
<1> DEFINE delimiter(j) == IF j = s THEN "(" ELSE IF j = L THEN "r" ELSE "x"
<1>10. \A j \in s..L :
         d[j].c = delimiter(j) /\ d[j].id = id /\ d[j].at = j - s + 1 /\ d[j].len = 6
  <2> SUFFICES ASSUME NEW j \in s..L
               PROVE  /\ d[j].c = delimiter(j) /\ d[j].id = id
                      /\ d[j].at = j - s + 1 /\ d[j].len = 6
    OBVIOUS
  <2>1. d[j] = [c |-> delimiter(j), id |-> id, at |-> j - s + 1, len |-> 6]  BY <1>9
  <2> QED  BY <2>1
<1>11. s \in s..L /\ L \in s..L /\ s # L /\ s \in 1..L  BY <1>3
<1>12. PacketStart(d) = s
  <2>1. opened \in SUBSET Int  BY <1>4
  <2>2. s \in opened  BY <1>4, <1>10, <1>11
  <2>3. ASSUME NEW y \in opened  PROVE y <= s
    <3>1. y \in s..L \/ y <= s  BY <1>3, <1>4
    <3>2. y \in s..L => y = s  BY <1>10
    <3> QED  BY <1>3, <3>1, <3>2
  <2> HIDE DEF opened
  <2>4. Max(opened) = s  BY <2>1, <2>2, <2>3, MaxIs
  <2> QED  BY <2>4 DEF PacketStart, opened
<1>13. opened # {} /\ closed # {} /\ Min(closed) = L
  <2>1. closed = {L}
    <3>1. \A j \in s..L : d[j].c = "r" <=> j = L  BY <1>10, <1>11
    <3> QED  BY <1>4, <1>11, <3>1
  <2>2. s \in opened  BY <1>4, <1>10, <1>11
  <2> HIDE DEF opened, closed
  <2>3. Min(closed) = L  BY <1>3, <2>1, MinIs
  <2> QED  BY <2>1, <2>2, <2>3
<1>14. CrcFits(d, s, L)
  <2>1. L - s + 1 = 6 /\ s - s + 1 = 1  BY <1>3
  <2> QED  BY <1>10, <1>11, <2>1 DEF CrcFits
<1>15. ~(L - s <= 2)  BY <1>3
<1>16. RspParse(rq, nak, d) = [n |-> L, status |-> IF nak THEN "rejected" ELSE StatusOf(rq, Form[rq])]
  BY <1>3, <1>4, <1>12, <1>13, <1>14, <1>15, Zenon DEF RspParse
<1>17. StatusOf(rq, Form[rq]) =
         IF rq \in {"QGOV", "QCHGS", "QPIHF"} THEN "malformed" ELSE "ok"
  BY FormsUnderstood
<1>18. Judgement(rq, nak) = IF nak THEN "rejected" ELSE StatusOf(rq, Form[rq])
  BY <1>17 DEF Judgement
<1> QED  BY <1>16, <1>18 DEF d, L

\* A parser's round of m bytes that were seen: noise is passed over, or the answer judged.
Passed(c, k, m, rq, v) ==
  \/ c.n \in 0..k /\ c.n <= m /\ c.judged = <<>> /\ c.rq = rq
  \/ m = k + 6 /\ c.n = m /\ c.judged = <<v>>

LEMMA RoundPasses ==
  ASSUME NEW w, NEW k, NoiseAndAnswer(w, k), NEW m \in 0..(k + 6),
         NEW rq \in Requests, NEW nak \in BOOLEAN, NEW c,
         Passed(c, k, m, rq, Judgement(rq, nak))
  PROVE  LET r == Round(c, nak, SubSeq(w, 1, m)) IN
         /\ Passed(r, k, m, rq, Judgement(rq, nak))
         /\ m = k + 6 => r.n = m
<1> DEFINE d == SubSeq(w, 1, m)
           r == Round(c, nak, d)
           v == Judgement(rq, nak)
<1>1. w \in Seq(Bytes232) /\ k \in Nat /\ Len(w) = k + 6 /\ m \in Nat  BY DEF NoiseAndAnswer
<1>2. d \in Seq(Bytes232) /\ Len(d) = m  BY <1>1
<1>3. rq # "none"  BY DEF Requests, Form
<1> HIDE DEF d, v
<1>4. CASE c.n = m
  <2>1. r = c  BY <1>2, <1>4, Zenon DEF Round
  <2>2. m = k + 6 => r.n = m  BY <1>4, <2>1
  <2>3. Passed(c, k, m, rq, v)  BY DEF v
  <2> HIDE DEF r
  <2>4. Passed(r, k, m, rq, v)  BY <2>1, <2>3
  <2> QED  BY <2>2, <2>4 DEF d, r, v
<1>5. CASE c.n # m
  <2>1. c.n \in 0..k /\ c.n <= m /\ c.judged = <<>> /\ c.rq = rq  BY <1>5 DEF Passed
  <2> DEFINE a == c.n
             p == RspParse(rq, nak, SubSeq(w, a + 1, m))
  <2>2. SubSeq(d, a + 1, Len(d)) = SubSeq(w, a + 1, m)
    <3>1. a \in Nat /\ a <= m /\ m <= Len(w)  BY <1>1, <2>1
    <3> HIDE DEF a
    <3> QED  BY <1>1, <1>2, <3>1 DEF d
  <2>3. r = [rq |-> IF p.status = "rejected" THEN "none" ELSE c.rq, n |-> a + p.n,
             judged |-> IF p.status = "no packet" THEN c.judged ELSE Append(c.judged, p.status)]
    BY <1>2, <1>3, <1>5, <2>1, <2>2, Zenon DEF Round
  <2> HIDE DEF p, r, a
  <2>4. CASE m <= k + 5
    <3>1. a \in 0..k /\ m \in a..(k + 5)  BY <1>1, <2>1, <2>4 DEF a
    <3>2. PICK n \in 0..(k - a) : n <= m - a /\ p = [n |-> n, status |-> "no packet"]
      <4>1. PassesOver(p, k - a, m - a)  BY <3>1, NoiseParsed DEF p
      <4> QED  BY <4>1 DEF PassesOver
    <3>3. p.n = n /\ p.status = "no packet"  BY <3>2
    <3>4. r.n = a + n /\ r.judged = <<>> /\ r.rq = rq  BY <2>1, <2>3, <3>3
    <3>5. a + n \in 0..k /\ a + n <= m
      <4>1. n \in 0..(k - a) /\ n <= m - a  BY <3>2
      <4> QED  BY <1>1, <3>1, <4>1
    <3>6. Passed(r, k, m, rq, v)  BY <3>4, <3>5 DEF Passed
    <3>7. m # k + 6  BY <1>1, <2>4
    <3> QED  BY <3>6, <3>7 DEF d, r, v
  <2>5. CASE m = k + 6
    <3>1. a \in 0..k  BY <2>1 DEF a
    <3>2. p = [n |-> k + 6 - a, status |-> v]  BY <2>5, <3>1, AnswerParsed DEF p, v
    <3>3. p.n = k + 6 - a /\ p.status = v  BY <3>2
    <3>4. v # "no packet"  BY DEF v, Judgement
    <3>5. r.n = a + (k + 6 - a) /\ r.judged = Append(<<>>, v)  BY <2>1, <2>3, <3>3, <3>4
    <3>6. a + (k + 6 - a) = k + 6 /\ Append(<<>>, v) = <<v>>  BY <1>1, <3>1
    <3>7. Passed(r, k, m, rq, v) /\ r.n = m  BY <2>5, <3>5, <3>6 DEF Passed
    <3> QED  BY <3>7 DEF d, r, v
  <2> QED  BY <1>1, <2>4, <2>5
<1> QED  BY <1>4, <1>5

\* The answer under way is longer than what process_data looks at.
Overlong == ~answer.nak /\ answer.rq \in TooLong

\* No '(' is ever seen together with a '\r' behind it.
FarApart(w) ==
  \A i, j \in 1..Len(w) : i < j /\ w[i].c = "(" /\ w[j].c = "r" => j - i >= PeekSize

(***************************************************************************)
(* Until a clean answer that fits has all come, nothing was judged, and    *)
(* what is kept and what is still to come are noise and the answer.  Of    *)
(* one that does not fit, the ends are always too far apart.               *)
(***************************************************************************)
Rs232Inv ==
  /\ line \in Seq(Bytes232) /\ kept \in Seq(Bytes232) /\ answers \in Nat
  /\ answer \in [rq : Requests \cup {"none"}, clean : BOOLEAN, nak : BOOLEAN]
  /\ answer.clean =>
       /\ answer.rq \in Requests
       /\ ~Overlong /\ line = <<>> => judged = <<Judgement(answer.rq, answer.nak)>>
       /\ ~Overlong /\ line # <<>> =>
            /\ judged = <<>> /\ asked = answer.rq
            /\ Len(kept \o line) <= PeekSize
            /\ \E k : NoiseAndAnswer(kept \o line, k)
       /\ Overlong => judged = <<>> /\ FarApart(kept \o line)

LEMMA Rs232Initial == Rs232Init => Rs232Inv
  BY DEF Rs232Init, Rs232Inv

LEMMA Rs232Unchanged == Rs232Inv /\ UNCHANGED rs232Vars => Rs232Inv'
  BY DEF Rs232Inv, rs232Vars, Overlong

LEMMA LosingKeeps == ASSUME Rs232Inv, LoseByte  PROVE Rs232Inv'
<1>1. line' = Tail(line) /\ line # <<>> /\ kept' = kept /\ answers' = answers
      /\ answer' = [answer EXCEPT !.clean = FALSE]
  BY DEF LoseByte
<1>2. line' \in Seq(Bytes232)  BY <1>1 DEF Rs232Inv
<1>3. answer' \in [rq : Requests \cup {"none"}, clean : BOOLEAN, nak : BOOLEAN] /\ ~answer'.clean
  BY <1>1 DEF Rs232Inv
<1> QED  BY <1>1, <1>2, <1>3 DEF Rs232Inv

\* What is left when the first n bytes are passed over
LEMMA RestOfAnswer ==
  ASSUME NEW w, NEW k, NoiseAndAnswer(w, k), NEW n \in 0..k
  PROVE  NoiseAndAnswer(SubSeq(w, n + 1, Len(w)), k - n)
<1> DEFINE d == SubSeq(w, n + 1, Len(w))
<1>1. w \in Seq(Bytes232) /\ k \in Nat /\ Len(w) = k + 6 /\ n \in Nat /\ n <= k /\ n <= Len(w)
      /\ Len(w) \in Nat
  BY DEF NoiseAndAnswer
<1>2. d \in Seq(Bytes232) /\ Len(d) = k + 6 - n /\ \A i \in 1..(k + 6 - n) : d[i] = w[n + i]
  BY <1>1, SeenBytes
<1> HIDE DEF d
<1>3. PICK id \in Nat : \A i \in 1..6 : w[k + i] = AnswerByte(i, id)  BY DEF NoiseAndAnswer
<1>4. \A i \in 1..6 : d[(k - n) + i] = AnswerByte(i, id)
  <2>1. \A i \in 1..6 : (k - n) + i \in 1..(k + 6 - n) /\ n + ((k - n) + i) = k + i  BY <1>1
  <2> QED  BY <1>2, <1>3, <2>1
<1>5. \A i, j \in 1..(k - n) : i < j /\ d[i].c = "(" => d[j].c # "r"
  <2> SUFFICES ASSUME NEW i \in 1..(k - n), NEW j \in 1..(k - n), i < j, d[i].c = "("
               PROVE  d[j].c # "r"
    OBVIOUS
  <2>1. /\ i \in 1..(k + 6 - n) /\ j \in 1..(k + 6 - n)
        /\ n + i \in 1..k /\ n + j \in 1..k /\ n + i < n + j
    BY <1>1
  <2>2. w[n + i].c = "(" /\ d[j] = w[n + j]  BY <1>2, <2>1
  <2> QED  BY <2>1, <2>2 DEF NoiseAndAnswer
<1>6. k - n \in Nat /\ Len(d) = (k - n) + 6  BY <1>1, <1>2
<1> QED  BY <1>2, <1>3, <1>4, <1>5, <1>6 DEF NoiseAndAnswer, d

LEMMA AskingKeeps ==
  ASSUME Rs232Inv, NEW rq \in Requests, NEW nak \in BOOLEAN,
         NEW noise \in {<<>>, <<"x">>, <<"(">>, <<"r", "(">>},
         NEW crc \in {<<"x", "x">>, <<"(", "x">>, <<"x", "(">>, <<"r", "x">>, <<"x", "r">>},
         Ask(rq, nak, crc, noise)
  PROVE  Rs232Inv'
<1> DEFINE form == IF nak THEN "QPI" ELSE rq
           body == IF FitsView(form) THEN 2 ELSE PeekSize
           text == <<"(">> \o [i \in 1..body |-> "x"] \o crc \o <<"r">>
           before == [i \in DOMAIN noise |-> [c |-> noise[i], id |-> 0, at |-> 0, len |-> 0]]
           frame == Framed(form, crc, answers')
           clean == kept = <<>> /\ crc = <<"x", "x">>
                    /\ (nak \/ FitsView(rq) => Len(line') <= PeekSize)
           overlong == ~nak /\ rq \in TooLong
<1>0. (~overlong => body = 2 /\ (nak \/ FitsView(rq))) /\ (overlong => body = PeekSize)
  <2>1. "QPI" \in Requests /\ "QPI" \notin TooLong  BY DEF Requests, Form, TooLong
  <2>2. FitsView("QPI") /\ (FitsView(rq) <=> rq \notin TooLong)  BY <2>1, FormsUnderstood
  <2> QED  BY <2>2
<1>1. /\ answers' = answers + 1 /\ asked' = rq /\ line' = before \o frame /\ judged' = <<>>
      /\ answer' = [rq |-> rq, nak |-> nak, clean |-> clean] /\ kept' = kept
  BY DEF Ask
<1>2. body \in Nat  BY Rs232Assumption
<1>3. frame = [i \in DOMAIN text |-> [c |-> text[i], id |-> answers', at |-> i, len |-> Len(text)]]
  BY DEF Framed
<1>4. answers' \in Nat  BY <1>1 DEF Rs232Inv
<1> HIDE DEF body
<1>5. /\ text \in Seq({"(", "r", "x"}) /\ Len(text) = body + 4 /\ DOMAIN text = 1..(body + 4)
      /\ text[1] = "(" /\ text[body + 4] = "r"
      /\ crc = <<"x", "x">> => \A i \in 2..(body + 3) : text[i] = "x"
  <2> DEFINE C == {"(", "r", "x"}
             xs == [i \in 1..body |-> "x"]
             start == <<"(">> \o xs
             all == start \o crc
  <2>0. "x" \in C /\ "(" \in C /\ "r" \in C  OBVIOUS
  <2>1. xs \in Seq(C) /\ Len(xs) = body /\ \A i \in 1..body : xs[i] = "x"  BY <1>2
  <2>2. crc \in Seq(C) /\ Len(crc) = 2 /\ crc[1] \in C /\ crc[2] \in C
    <3>1. PICK e \in C, f \in C : crc = <<e, f>>  OBVIOUS
    <3> QED  BY <3>1
  <2>3. crc = <<"x", "x">> => crc[1] = "x" /\ crc[2] = "x"  OBVIOUS
  <2> HIDE DEF C
  <2> HIDE DEF xs
  <2>4. /\ start \in Seq(C) /\ Len(start) = body + 1 /\ start[1] = "("
        /\ \A i \in 2..(body + 1) : start[i] = "x"
    BY <1>2, <2>0, <2>1
  <2> HIDE DEF start
  <2>5. /\ all \in Seq(C) /\ Len(all) = body + 3 /\ all[1] = "("
        /\ \A i \in 2..(body + 1) : all[i] = "x"
        /\ all[body + 2] = crc[1] /\ all[body + 3] = crc[2]
    <3>1. \A i \in 1..(body + 1) : all[i] = start[i]  BY <1>2, <2>2, <2>4
    <3>2. all \in Seq(C) /\ Len(all) = Len(start) + Len(crc)
          /\ \A i \in 1..Len(crc) : all[Len(start) + i] = crc[i]
      <4>1. start \in Seq(C) /\ crc \in Seq(C)  BY <2>2, <2>4
      <4> QED  BY <4>1, Joined
    <3>3. all[(body + 1) + 1] = crc[1] /\ all[(body + 1) + 2] = crc[2]
      BY <1>2, <2>2, <2>4, <3>2
    <3>4. (body + 1) + 1 = body + 2 /\ (body + 1) + 2 = body + 3 /\ 1 \in 1..(body + 1)  BY <1>2
    <3>5. Len(all) = body + 3  BY <1>2, <2>2, <2>4, <3>2
    <3> QED  BY <2>4, <3>1, <3>2, <3>3, <3>4, <3>5
  <2>6. text = all \o <<"r">>  BY DEF start, xs
  <2> HIDE DEF all, text
  <2>7. /\ text \in Seq(C) /\ Len(text) = body + 4 /\ text[body + 4] = "r"
        /\ \A i \in 1..(body + 3) : text[i] = all[i]
    BY <1>2, <2>0, <2>5, <2>6
  <2>8. DOMAIN text = 1..(body + 4)  BY <2>7
  <2>9. text[1] = "("  BY <1>2, <2>5, <2>7
  <2>10. ASSUME crc = <<"x", "x">>, NEW i \in 2..(body + 3)  PROVE text[i] = "x"
    <3>1. i \in 1..(body + 3) /\ (i \in 2..(body + 1) \/ i = body + 2 \/ i = body + 3)  BY <1>2
    <3> QED  BY <2>3, <2>5, <2>7, <2>10, <3>1
  <2> QED  BY <2>7, <2>8, <2>9, <2>10 DEF C
<1> HIDE DEF text
<1>6. frame \in Seq(Bytes232) /\ Len(frame) = body + 4
  <2>1. \A i \in 1..(body + 4) : text[i] \in {"(", "r", "x"}  BY <1>5
  <2> DEFINE n == body + 4
  <2>2. n \in Nat  BY <1>2
  <2> HIDE DEF n
  <2>3. Len(text) = n /\ DOMAIN text = 1..n /\ \A i \in 1..n : text[i] \in {"(", "r", "x"}
    BY <1>5, <2>1 DEF n
  <2>4. frame \in [1..n -> Bytes232]  BY <1>3, <1>4, <2>2, <2>3 DEF Bytes232
  <2> HIDE DEF frame
  <2>5. frame \in Seq(Bytes232) /\ Len(frame) = n  BY <2>2, <2>4
  <2> QED  BY <2>5 DEF n, frame
<1>7. /\ before \in Seq(Bytes232) /\ Len(before) = Len(noise) /\ Len(noise) \in 0..2
      /\ \A i \in 1..Len(noise) : before[i].c = noise[i]
  <2>1. noise \in Seq({"(", "r", "x"}) /\ Len(noise) \in 0..2 /\ DOMAIN noise = 1..Len(noise)
    <3>1. noise = <<>> \/ noise = <<"x">> \/ noise = <<"(">> \/ noise = <<"r", "(">>  OBVIOUS
    <3>2. CASE noise = <<>>  BY <3>2
    <3>3. CASE noise = <<"x">>  BY <3>3
    <3>4. CASE noise = <<"(">>  BY <3>4
    <3>5. CASE noise = <<"r", "(">>  BY <3>5
    <3> QED  BY <3>1, <3>2, <3>3, <3>4, <3>5
  <2>2. \A i \in DOMAIN noise : noise[i] \in {"(", "r", "x"}  BY <2>1
  <2>3. before \in [1..Len(noise) -> Bytes232]  BY <2>1, <2>2 DEF Bytes232
  <2>4. \A i \in 1..Len(noise) : before[i].c = noise[i]  BY <2>1
  <2> HIDE DEF before
  <2>5. before \in Seq(Bytes232) /\ Len(before) = Len(noise)  BY <2>1, <2>3
  <2> QED  BY <2>1, <2>4, <2>5
<1> HIDE DEF before
<1> HIDE DEF frame
<1>8. line' \in Seq(Bytes232) /\ Len(line') = Len(before) + Len(frame) /\ line' # <<>>
  <2>1. line' \in Seq(Bytes232) /\ Len(line') = Len(before) + Len(frame)
    <3>1. before \in Seq(Bytes232) /\ frame \in Seq(Bytes232)  BY <1>6, <1>7
    <3> QED  BY <1>1, <3>1, Joined
  <2>2. Len(line') # 0  BY <1>2, <1>6, <1>7, <2>1
  <2> QED  BY <2>1, <2>2
<1>9. answer' \in [rq : Requests \cup {"none"}, clean : BOOLEAN, nak : BOOLEAN]
      /\ answer'.rq = rq /\ (answer'.clean <=> clean) /\ (Overlong' <=> overlong)
  BY <1>1 DEF Overlong
<1> HIDE DEF overlong
<1>10. ASSUME clean, ~overlong  PROVE NoiseAndAnswer(line', Len(before))
  <2> DEFINE k == Len(before)
  <2>1. body = 2  BY <1>0, <1>10
  <2>2. \A i \in 1..6 : frame[i] = AnswerByte(i, answers')
    <3>1. \A i \in 1..6 : text[i] = IF i = 1 THEN "(" ELSE IF i = 6 THEN "r" ELSE "x"
      BY <1>5, <1>10, <2>1
    <3>2. DOMAIN text = 1..6 /\ Len(text) = 6  BY <1>5, <2>1
    <3> QED  BY <1>3, <3>1, <3>2 DEF AnswerByte
  <2>3. k \in Nat /\ Len(frame) = 6  BY <1>6, <1>7, <2>1
  <2>4. \A i \in 1..6 : line'[k + i] = frame[i]
    <3>1. \A i \in 1..Len(frame) : line'[Len(before) + i] = frame[i]
      <4>1. before \in Seq(Bytes232) /\ frame \in Seq(Bytes232)  BY <1>6, <1>7
      <4>2. \A i \in 1..Len(frame) : (before \o frame)[Len(before) + i] = frame[i]
        BY <4>1, Joined
      <4> QED  BY <1>1, <4>2
    <3> QED  BY <2>3, <3>1
  <2>5. \A i \in 1..k : line'[i] = before[i]  BY <1>1, <1>6, <1>7, <2>3
  <2>6. \A i, j \in 1..k : i < j /\ line'[i].c = "(" => line'[j].c # "r"
    <3>1. \A i \in 1..k : line'[i].c = noise[i]  BY <1>7, <2>5
    <3>2. \A i, j \in 1..Len(noise) : i < j /\ noise[i] = "(" => noise[j] # "r"  OBVIOUS
    <3> QED  BY <1>7, <3>1, <3>2
  <2>7. \A i \in 1..6 : line'[k + i] = AnswerByte(i, answers')  BY <2>2, <2>4
  <2>8. Len(line') = k + 6  BY <1>8, <2>3
  <2> QED  BY <1>4, <1>8, <2>3, <2>6, <2>7, <2>8 DEF NoiseAndAnswer
<1>11. clean => kept' \o line' = line'  BY <1>1, <1>8
<1>12. kept' \in Seq(Bytes232)  BY <1>1 DEF Rs232Inv
<1>13. clean /\ ~overlong => Len(line') <= PeekSize  BY <1>0
<1>14. clean /\ ~overlong => \E n : NoiseAndAnswer(kept' \o line', n)  BY <1>10, <1>11
<1>15. ASSUME clean, overlong  PROVE FarApart(line')
  <2> DEFINE k == Len(before)
             z == body + 4
  <2>1. body = PeekSize  BY <1>0, <1>15
  <2>2. k \in Nat /\ z \in Nat /\ Len(frame) = z /\ Len(line') = k + z
    BY <1>2, <1>6, <1>7, <1>8
  <2>3. /\ \A i \in 1..z : line'[k + i] = frame[i]
        /\ \A i \in 1..k : line'[i] = before[i]
    <3>1. before \in Seq(Bytes232) /\ frame \in Seq(Bytes232)  BY <1>6, <1>7
    <3>2. /\ \A i \in 1..Len(before) : (before \o frame)[i] = before[i]
          /\ \A i \in 1..Len(frame) : (before \o frame)[Len(before) + i] = frame[i]
      BY <3>1, Joined
    <3> QED  BY <1>1, <2>2, <3>2
  <2> HIDE DEF k
  <2>4. ASSUME NEW i \in 1..z  PROVE line'[k + i].c = IF i = 1 THEN "(" ELSE IF i = z THEN "r" ELSE "x"
    <3>1. line'[k + i].c = text[i]  BY <1>3, <1>5, <2>3
    <3>2. i = 1 \/ i = z \/ i \in 2..(body + 3)  BY <1>2
    <3>3. z # 1  BY <1>2
    <3> QED  BY <1>5, <1>15, <3>1, <3>2, <3>3
  <2>5. ASSUME NEW i \in 1..k, NEW j \in 1..k, i < j, line'[i].c = "("  PROVE line'[j].c # "r"
    <3>1. \A l \in 1..k : line'[l].c = noise[l]  BY <1>7, <2>3 DEF k
    <3>2. \A a, b \in 1..Len(noise) : a < b /\ noise[a] = "(" => noise[b] # "r"  OBVIOUS
    <3> QED  BY <1>7, <2>5, <3>1, <3>2 DEF k
  <2>6. ASSUME NEW i \in 1..(k + z), NEW j \in 1..(k + z), i < j,
               line'[i].c = "(", line'[j].c = "r"
        PROVE  j - i >= PeekSize
    <3>1. i \in 1..k \/ (i - k \in 1..z /\ k + (i - k) = i)  BY <2>2
    <3>2. j \in 1..k \/ (j - k \in 1..z /\ k + (j - k) = j)  BY <2>2
    <3> DEFINE a == i - k
               b == j - k
    <3> HIDE DEF a, b
    <3>3. i \in 1..k \/ (a \in 1..z /\ k + a = i)  BY <3>1 DEF a
    <3>4. j \in 1..k \/ (b \in 1..z /\ k + b = j)  BY <3>2 DEF b
    <3>5. CASE j \in 1..k
      <4>1. i \in 1..k  BY <2>2, <2>6, <3>5
      <4> QED  BY <2>5, <2>6, <3>5, <4>1
    <3>6. CASE b \in 1..z /\ k + b = j
      <4>1. b = z  BY <2>4, <2>6, <3>6
      <4>2. CASE i \in 1..k  BY <1>2, <2>1, <2>2, <3>6, <4>1, <4>2
      <4>3. CASE a \in 1..z /\ k + a = i
        <5>1. a = 1  BY <2>4, <2>6, <4>3
        <5> QED  BY <1>2, <2>1, <2>2, <3>6, <4>1, <4>3, <5>1
      <4> QED  BY <3>3, <4>2, <4>3
    <3> QED  BY <3>4, <3>5, <3>6
  <2> QED  BY <2>2, <2>6 DEF FarApart
<1> HIDE DEF clean
<1>16. clean /\ overlong => FarApart(kept' \o line')  BY <1>11, <1>15
<1> QED
  BY <1>1, <1>4, <1>8, <1>9, <1>12, <1>13, <1>14, <1>16, <1>11 DEF Rs232Inv

LEMMA RspParseWithin ==
  ASSUME NEW d \in Seq(Bytes232), NEW rq, NEW nak
  PROVE  RspParse(rq, nak, d).n \in 0..Len(d)
<1> DEFINE opened == {i \in DOMAIN d : d[i].c = "("}
           s == PacketStart(d)
           closed == {i \in s..Len(d) : d[i].c = "r"}
           p == RspParse(rq, nak, d)
<1>1. Len(d) \in Nat /\ DOMAIN d = 1..Len(d)  OBVIOUS
<1>2. opened \in SUBSET (1..Len(d))  BY <1>1
<1> HIDE DEF opened
<1>3. opened # {} => s \in 1..Len(d)  BY <1>1, <1>2, Greatest DEF PacketStart, opened
<1> HIDE DEF s
<1>4. opened # {} /\ closed # {} => Min(closed) \in 0..Len(d)
  <2> SUFFICES ASSUME opened # {}, closed # {}  PROVE Min(closed) \in 0..Len(d)  OBVIOUS
  <2>1. closed \in SUBSET Nat /\ \A i \in closed : i \in 0..Len(d)  BY <1>1, <1>3
  <2> HIDE DEF closed
  <2>2. PICK e \in closed : \A i \in closed : e <= i  BY <2>1, LeastNumber
  <2>3. closed \in SUBSET Int  BY <2>1
  <2>4. Min(closed) = e  BY <2>2, <2>3, MinIs
  <2> QED  BY <2>1, <2>4
<1> HIDE DEF closed
<1>5. p.n \in {0, Len(d)} \/ (opened # {} /\ p.n = s - 1)
        \/ (opened # {} /\ closed # {} /\ p.n = Min(closed))
  BY DEF RspParse, opened, closed, s
<1> HIDE DEF p
<1>6. p.n \in 0..Len(d)  BY <1>1, <1>3, <1>4, <1>5
<1> QED  BY <1>6 DEF p

LEMMA RoundWithin ==
  ASSUME NEW d \in Seq(Bytes232), NEW nak, NEW c, c.n \in 0..Len(d)
  PROVE  Round(c, nak, d).n \in 0..Len(d)
<1> DEFINE rest232 == SubSeq(d, c.n + 1, Len(d))
           p == RspParse(c.rq, nak, rest232)
           r == Round(c, nak, d)
<1>1. Len(d) \in Nat  OBVIOUS
<1>2. rest232 \in Seq(Bytes232) /\ Len(rest232) = Len(d) - c.n
  BY <1>1
<1> HIDE DEF rest232
<1>3. p.n \in 0..(Len(d) - c.n)  BY <1>2, RspParseWithin
<1>4. r.n = c.n \/ r.n = c.n + p.n  BY DEF Round, rest232
<1> HIDE DEF p, r
<1>5. r.n \in 0..Len(d)  BY <1>1, <1>3, <1>4
<1> QED  BY <1>5 DEF r

LEMMA PrefixOfJoin ==
  ASSUME NEW S, NEW s \in Seq(S), NEW t \in Seq(S), NEW n \in 0..Len(t)
  PROVE  /\ SubSeq(s \o t, 1, Len(s) + n) = s \o SubSeq(t, 1, n)
         /\ SubSeq(s \o t, Len(s) + n + 1, Len(s \o t)) = SubSeq(t, n + 1, Len(t))
  OBVIOUS

LEMMA Rejoined ==
  ASSUME NEW S, NEW w \in Seq(S), NEW m \in 0..Len(w), NEW a \in 0..m
  PROVE  SubSeq(SubSeq(w, 1, m), a + 1, m) \o SubSeq(w, m + 1, Len(w)) = SubSeq(w, a + 1, Len(w))
<1> DEFINE f == SubSeq(w, 1, m)
           g == SubSeq(f, a + 1, m)
           h == SubSeq(w, m + 1, Len(w))
           all == SubSeq(w, a + 1, Len(w))
           l == Len(w)
<1>1. l \in Nat /\ m \in Nat /\ a \in Nat /\ a <= m /\ m <= l  OBVIOUS
<1>2. f \in Seq(S) /\ Len(f) = m /\ \A i \in 1..m : f[i] = w[i]  BY <1>1
<1>3. h \in Seq(S) /\ Len(h) = l - m /\ \A i \in 1..(l - m) : h[i] = w[m + i]  BY <1>1
<1>4. all \in Seq(S) /\ Len(all) = l - a /\ \A i \in 1..(l - a) : all[i] = w[a + i]  BY <1>1
<1> HIDE DEF f, h, all, l
<1>5. g \in Seq(S) /\ Len(g) = m - a /\ \A i \in 1..(m - a) : g[i] = f[a + i]  BY <1>1, <1>2
<1> HIDE DEF g
<1>6. \A i \in 1..(m - a) : g[i] = w[a + i]
  <2>1. \A i \in 1..(m - a) : a + i \in 1..m  BY <1>1
  <2> QED  BY <1>2, <1>5, <2>1
<1>7. /\ g \o h \in Seq(S) /\ Len(g \o h) = (m - a) + (l - m)
      /\ \A i \in 1..(m - a) : (g \o h)[i] = g[i]
      /\ \A i \in 1..(l - m) : (g \o h)[(m - a) + i] = h[i]
  <2>1. g \in Seq(S) /\ h \in Seq(S)  BY <1>3, <1>5
  <2>2. /\ g \o h \in Seq(S) /\ Len(g \o h) = Len(g) + Len(h)
        /\ \A i \in 1..Len(g) : (g \o h)[i] = g[i]
        /\ \A i \in 1..Len(h) : (g \o h)[Len(g) + i] = h[i]
    BY <2>1, Joined
  <2>3. Len(g) = m - a /\ Len(h) = l - m  BY <1>3, <1>5
  <2> QED  BY <2>2, <2>3
<1>8. (m - a) + (l - m) = l - a  BY <1>1
<1>9. ASSUME NEW i \in 1..(l - a)  PROVE (g \o h)[i] = all[i]
  <2>1. CASE i <= m - a
    <3>1. i \in 1..(m - a)  BY <1>1, <2>1
    <3> QED  BY <1>4, <1>6, <1>7, <3>1
  <2>2. CASE i > m - a
    <3>1. i - (m - a) \in 1..(l - m) /\ (m - a) + (i - (m - a)) = i /\ m + (i - (m - a)) = a + i
      BY <1>1, <2>2
    <3> DEFINE j == i - (m - a)
    <3> HIDE DEF j
    <3>2. j \in 1..(l - m) /\ (m - a) + j = i /\ m + j = a + i  BY <3>1 DEF j
    <3>3. (g \o h)[(m - a) + j] = h[j] /\ h[j] = w[m + j] /\ all[i] = w[a + i]
      BY <1>3, <1>4, <1>7, <3>2
    <3> QED  BY <3>2, <3>3
  <2>3. i <= m - a \/ i > m - a  BY <1>1
  <2> QED  BY <2>1, <2>2, <2>3
<1>10. g \o h = all
  <2> DEFINE joined == g \o h
  <2>1. joined \in Seq(S) /\ Len(joined) = Len(all) /\ \A i \in 1..Len(all) : joined[i] = all[i]
    BY <1>4, <1>7, <1>8, <1>9
  <2> HIDE DEF joined
  <2>2. joined = all  BY <1>4, <2>1
  <2> QED  BY <2>2 DEF joined
<1> QED  BY <1>10 DEF f, g, h, all, l

\* A part of bytes that are apart ...
LEMMA FarApartPiece ==
  ASSUME NEW w \in Seq(Bytes232), FarApart(w), NEW a \in Nat, NEW m \in Nat, a <= m, m <= Len(w)
  PROVE  FarApart(SubSeq(w, a + 1, m))
<1> DEFINE d == SubSeq(w, a + 1, m)
<1>1. /\ d \in Seq(Bytes232) /\ Len(d) = m - a /\ \A i \in 1..(m - a) : d[i] = w[a + i]
  BY SeenBytes
<1> HIDE DEF d
<1>2. SUFFICES ASSUME NEW i \in 1..(m - a), NEW j \in 1..(m - a), i < j,
                      d[i].c = "(", d[j].c = "r"
               PROVE  j - i >= PeekSize
  BY <1>1 DEF FarApart, d
<1>3. a + i \in 1..Len(w) /\ a + j \in 1..Len(w) /\ a + i < a + j  BY <1>2
<1>4. w[a + i].c = "(" /\ w[a + j].c = "r"  BY <1>1, <1>2
<1>5. (a + j) - (a + i) >= PeekSize  BY <1>3, <1>4 DEF FarApart
<1> QED  BY <1>5

\* ... that is no longer than what is looked at holds no packet.
LEMMA FarApartUnread ==
  ASSUME NEW d \in Seq(Bytes232), FarApart(d), Len(d) <= PeekSize, NEW rq, NEW nak
  PROVE  RspParse(rq, nak, d).status = "no packet"
<1> DEFINE opened == {i \in DOMAIN d : d[i].c = "("}
           s == PacketStart(d)
           closed == {i \in s..Len(d) : d[i].c = "r"}
<1>1. Len(d) \in Nat /\ DOMAIN d = 1..Len(d) /\ PeekSize \in Nat  BY Rs232Assumption
<1>2. opened \in SUBSET (1..Len(d))  BY <1>1
<1> HIDE DEF opened
<1>3. ASSUME opened # {}  PROVE closed = {}
  <2>1. s \in opened  BY <1>1, <1>2, <1>3, Greatest DEF PacketStart, opened
  <2> HIDE DEF s
  <2>2. s \in 1..Len(d) /\ d[s].c = "("  BY <1>2, <2>1 DEF opened
  <2>3. ASSUME NEW i \in s..Len(d)  PROVE d[i].c # "r"
    <3>1. i \in 1..Len(d) /\ (i = s \/ s < i) /\ i - s < Len(d)  BY <1>1, <2>2
    <3>2. CASE i = s  BY <2>2, <3>2
    <3>3. CASE s < i
      <4>1. ~(i - s >= PeekSize)  BY <1>1, <2>2, <3>1
      <4> QED  BY <2>2, <3>1, <3>3, <4>1 DEF FarApart
    <3> QED  BY <3>1, <3>2, <3>3
  <2> QED  BY <2>3
<1> HIDE DEF closed, s
<1> QED  BY <1>3 DEF RspParse, opened, closed, s

LEMMA RoundUnread ==
  ASSUME NEW d \in Seq(Bytes232), FarApart(d), Len(d) <= PeekSize, NEW nak, NEW c,
         c.n \in 0..Len(d)
  PROVE  Round(c, nak, d).judged = c.judged
<1> DEFINE left == SubSeq(d, c.n + 1, Len(d))
           p == RspParse(c.rq, nak, left)
<1>1. Len(d) \in Nat /\ PeekSize \in Nat  BY Rs232Assumption
<1>2. left \in Seq(Bytes232) /\ Len(left) <= PeekSize /\ FarApart(left)
  <2> DEFINE a == c.n
             m == Len(d)
  <2>1. a \in Nat /\ m \in Nat /\ a <= m /\ m <= Len(d)  BY <1>1
  <2> HIDE DEF a, m
  <2>2. FarApart(SubSeq(d, a + 1, m))  BY <2>1, FarApartPiece
  <2>3. SubSeq(d, a + 1, m) \in Seq(Bytes232) /\ Len(SubSeq(d, a + 1, m)) = m - a
    BY <2>1, SeenBytes
  <2>4. m - a <= PeekSize  BY <1>1, <2>1 DEF m
  <2> QED  BY <2>2, <2>3, <2>4 DEF a, m
<1> HIDE DEF left
<1>3. p.status = "no packet"  BY <1>2, FarApartUnread
<1> QED  BY <1>3 DEF Round, left

\* The three rounds of process_data
Rounds(c, nak, d) == Round(Round(Round(c, nak, d), nak, d), nak, d)

LEMMA ProcessingKeeps ==
  ASSUME Rs232Inv, NEW n \in Nat \ {0}, ProcessData(n)
  PROVE  Rs232Inv'
<1> DEFINE all == kept \o SubSeq(line, 1, n)
           buffered == SubSeq(all, Max({1, Len(all) - RingSize + 1}), Len(all))
           seen == SubSeq(buffered, 1, Min({PeekSize, Len(buffered)}))
           c0 == [rq |-> asked, n |-> 0, judged |-> judged]
           nak == answer.nak
           c == Rounds(c0, nak, seen)
<1>1. /\ n <= Len(line) /\ line' = SubSeq(line, n + 1, Len(line))
      /\ kept' = SubSeq(buffered, c.n + 1, Len(buffered)) /\ judged' = c.judged /\ asked' = c.rq
      /\ answer' = answer /\ answers' = answers
  BY DEF ProcessData, Rounds
<1>2. line \in Seq(Bytes232) /\ kept \in Seq(Bytes232) /\ answers \in Nat
      /\ answer \in [rq : Requests \cup {"none"}, clean : BOOLEAN, nak : BOOLEAN]
  BY DEF Rs232Inv
<1>3. all \in Seq(Bytes232) /\ line' \in Seq(Bytes232)
  <2>1. SubSeq(line, 1, n) \in Seq(Bytes232) /\ SubSeq(line, n + 1, Len(line)) \in Seq(Bytes232)
    BY <1>1, <1>2
  <2> QED  BY <1>1, <1>2, <2>1
<1> HIDE DEF all
<1>3a. \E e \in 0..Len(all) : buffered = SubSeq(all, e + 1, Len(all))
  <2> DEFINE from == Len(all) - RingSize + 1
             b == Max({1, from})
  <2>1. Len(all) \in Nat /\ from \in Int /\ from <= Len(all) + 1  BY <1>3, Rs232Assumption
  <2> HIDE DEF from
  <2>2. b \in 1..(Len(all) + 1)
    <3>1. CASE from <= 1
      <4>1. {1, from} \in SUBSET Int /\ \A y \in {1, from} : y <= 1  BY <2>1, <3>1
      <4>2. b = 1  BY <4>1, MaxIs
      <4> QED  BY <2>1, <4>2
    <3>2. CASE from > 1
      <4>1. {1, from} \in SUBSET Int /\ \A y \in {1, from} : y <= from  BY <2>1, <3>2
      <4>2. b = from  BY <4>1, MaxIs
      <4> QED  BY <2>1, <3>2, <4>2
    <3> QED  BY <2>1, <3>1, <3>2
  <2>3. buffered = SubSeq(all, b, Len(all))  BY DEF from
  <2> HIDE DEF b, buffered
  <2>4. b - 1 \in 0..Len(all) /\ (b - 1) + 1 = b  BY <2>1, <2>2
  <2> QED  BY <2>3, <2>4
<1>3b. PICK e \in 0..Len(all) : buffered = SubSeq(all, e + 1, Len(all))  BY <1>3a
<1> HIDE DEF buffered
<1>4. buffered \in Seq(Bytes232) /\ Len(buffered) = Len(all) - e /\ Len(all) \in Nat
  BY <1>3, <1>3b
<1>5. /\ seen \in Seq(Bytes232) /\ Len(seen) <= Len(buffered) /\ Len(seen) <= PeekSize
      /\ seen = SubSeq(buffered, 1, Len(seen))
  <2> DEFINE l == Len(buffered)
             b == Min({PeekSize, l})
  <2>1. l \in Nat /\ PeekSize \in Nat  BY <1>4, Rs232Assumption
  <2> HIDE DEF l
  <2>2. b \in 0..l /\ b <= PeekSize
    <3>1. CASE PeekSize <= l
      <4>1. b = PeekSize  BY <2>1, <3>1, MinIs
      <4> QED  BY <2>1, <3>1, <4>1
    <3>2. CASE PeekSize > l
      <4>1. {PeekSize, l} \in SUBSET Int /\ \A y \in {PeekSize, l} : l <= y  BY <2>1, <3>2
      <4>2. b = l  BY <4>1, MinIs
      <4> QED  BY <2>1, <3>2, <4>2
    <3> QED  BY <2>1, <3>1, <3>2
  <2> HIDE DEF b
  <2>3. SubSeq(buffered, 1, b) \in Seq(Bytes232) /\ Len(SubSeq(buffered, 1, b)) = b
    BY <1>4, <2>1, <2>2 DEF l
  <2>4. seen = SubSeq(buffered, 1, b)  BY DEF b, l
  <2>5. b <= Len(buffered) /\ b <= PeekSize  BY <2>1, <2>2 DEF l
  <2> HIDE DEF seen
  <2> QED  BY <2>3, <2>4, <2>5
<1> HIDE DEF seen
<1>6. c.n \in 0..Len(seen)
  <2>1. c0.n = 0 /\ 0 \in 0..Len(seen)  BY <1>5
  <2> HIDE DEF c0
  <2> DEFINE c1 == Round(c0, nak, seen)
             c2 == Round(c1, nak, seen)
  <2>2. c1.n \in 0..Len(seen)  BY <1>5, <2>1, RoundWithin
  <2> HIDE DEF c1
  <2>3. c2.n \in 0..Len(seen)  BY <1>5, <2>2, RoundWithin
  <2> HIDE DEF c2
  <2>4. Round(c2, nak, seen).n \in 0..Len(seen)  BY <1>5, <2>3, RoundWithin
  <2> QED  BY <2>4 DEF c1, c2, Rounds
<1>7. kept' \in Seq(Bytes232)
  <2> HIDE DEF c
  <2>1. c.n + 1 \in Nat /\ c.n + 1 >= 1 /\ Len(buffered) \in Nat  BY <1>4, <1>5, <1>6
  <2> DEFINE b == c.n + 1
  <2> HIDE DEF b
  <2>2. SubSeq(buffered, b, Len(buffered)) \in Seq(Bytes232)  BY <1>4, <2>1 DEF b
  <2> QED  BY <1>1, <2>2 DEF b

<1>8. CASE ~answer.clean
  <2>1. ~answer'.clean /\ answer' = answer /\ answers' = answers  BY <1>1, <1>8
  <2> QED  BY <1>2, <1>3, <1>7, <2>1 DEF Rs232Inv
<1>9. CASE answer.clean /\ Overlong
  <2> DEFINE w == kept \o line
             m == Len(kept) + n
             a == e + c.n
  <2>1. judged = <<>> /\ FarApart(w) /\ answer.rq \in Requests  BY <1>9 DEF Rs232Inv
  <2>2. w \in Seq(Bytes232) /\ Len(w) = Len(kept) + Len(line) /\ Len(kept) \in Nat
        /\ Len(line) \in Nat
    BY <1>2
  <2>3. m \in Nat /\ m \in 0..Len(w)  BY <1>1, <2>2
  <2>4. all = SubSeq(w, 1, m) /\ line' = SubSeq(w, m + 1, Len(w))
    <3>1. n \in 0..Len(line)  BY <1>1, <2>2
    <3>2. /\ SubSeq(kept \o line, 1, Len(kept) + n) = kept \o SubSeq(line, 1, n)
          /\ SubSeq(kept \o line, Len(kept) + n + 1, Len(kept \o line))
               = SubSeq(line, n + 1, Len(line))
      <4>1. kept \in Seq(Bytes232) /\ line \in Seq(Bytes232)  BY <1>2
      <4> QED  BY <3>1, <4>1, PrefixOfJoin
    <3> QED  BY <1>1, <3>2, Zenon DEF all
  <2> HIDE DEF w, m
  <2>5. FarApart(seen)
    <3>1. FarApart(all) /\ Len(all) = m /\ SubSeq(w, 0 + 1, m) = all
      <4>1. FarApart(SubSeq(w, 0 + 1, m))  BY <2>1, <2>2, <2>3, FarApartPiece
      <4> QED  BY <2>2, <2>3, <2>4, <4>1
    <3>2. FarApart(buffered)
      <4>1. e \in Nat /\ e <= Len(all)  BY <1>4
      <4>2. FarApart(SubSeq(all, e + 1, Len(all)))  BY <1>3, <1>4, <3>1, <4>1, FarApartPiece
      <4> QED  BY <1>3b, <4>2
    <3> DEFINE z == Len(seen)
    <3>3. z \in Nat /\ z <= Len(buffered) /\ seen = SubSeq(buffered, 1, z)  BY <1>5
    <3> HIDE DEF z
    <3> DEFINE o == 0
    <3>4. o \in Nat /\ o <= z /\ o + 1 = 1  BY <3>3
    <3> HIDE DEF o
    <3>5. FarApart(SubSeq(buffered, o + 1, z))  BY <1>4, <3>2, <3>3, <3>4, FarApartPiece
    <3> QED  BY <3>3, <3>4, <3>5
  <2>6. judged' = <<>>
    <3> DEFINE c1 == Round(c0, nak, seen)
               c2 == Round(c1, nak, seen)
    <3>1. c0.n = 0 /\ 0 \in 0..Len(seen) /\ c0.judged = <<>>  BY <1>5, <2>1
    <3> HIDE DEF c0
    <3>2. c1.n \in 0..Len(seen) /\ c1.judged = <<>>
      BY <1>5, <2>5, <3>1, RoundUnread, RoundWithin
    <3> HIDE DEF c1
    <3>3. c2.n \in 0..Len(seen) /\ c2.judged = <<>>
      BY <1>5, <2>5, <3>2, RoundUnread, RoundWithin
    <3> HIDE DEF c2
    <3>4. Round(c2, nak, seen).judged = <<>>  BY <1>5, <2>5, <3>3, RoundUnread
    <3>5. c = Round(c2, nak, seen)  BY DEF c1, c2, Rounds
    <3> QED  BY <1>1, <3>4, <3>5
  <2> HIDE DEF c
  <2>7. a \in 0..m /\ Len(all) = m /\ c.n \in 0..(m - e) /\ Len(buffered) = m - e /\ e \in 0..m
    <3>1. Len(all) = m  BY <2>2, <2>3, <2>4
    <3>2. e \in 0..m /\ Len(buffered) = m - e  BY <1>4, <3>1
    <3>3. c.n \in Nat /\ c.n <= Len(buffered)  BY <1>4, <1>5, <1>6
    <3> QED  BY <2>3, <3>1, <3>2, <3>3
  <2>8. kept' = SubSeq(SubSeq(w, 1, m), a + 1, m)
    <3> DEFINE x == c.n
    <3> HIDE DEF x
    <3>1. kept' = SubSeq(SubSeq(all, e + 1, m), x + 1, m - e)  BY <1>1, <1>3b, <2>7 DEF x
    <3>2. x \in 0..(m - e)  BY <2>7 DEF x
    <3>3. kept' = SubSeq(all, (e + x) + 1, m)  BY <1>3, <2>3, <2>7, <3>1, <3>2
    <3> QED  BY <2>4, <3>3 DEF x
  <2> HIDE DEF a
  <2>9. kept' \o line' = SubSeq(w, a + 1, Len(w))  BY <2>2, <2>3, <2>4, <2>7, <2>8, Rejoined
  <2>10. FarApart(kept' \o line')
    <3>1. a \in Nat /\ Len(w) \in Nat /\ a <= Len(w)  BY <2>2, <2>3, <2>7
    <3>2. FarApart(SubSeq(w, a + 1, Len(w)))  BY <2>1, <2>2, <3>1, FarApartPiece
    <3> QED  BY <2>9, <3>2
  <2>11. Overlong'  BY <1>1, <1>9 DEF Overlong
  <2> QED  BY <1>1, <1>2, <1>3, <1>7, <2>1, <2>6, <2>10, <2>11 DEF Rs232Inv
<1>10. CASE answer.clean /\ ~Overlong
  <2> DEFINE w == kept \o line
             m == Len(kept) + n
             rq == answer.rq
             v == Judgement(rq, nak)
  <2>0. ~Overlong'  BY <1>1, <1>10 DEF Overlong
  <2>1. line # <<>>
    <3>1. Len(line) # 0  BY <1>1, <1>2
    <3> QED  BY <3>1
  <2>2. rq \in Requests /\ judged = <<>> /\ asked = rq /\ Len(w) <= PeekSize
    BY <1>10, <2>1 DEF Rs232Inv
  <2>3. PICK k : NoiseAndAnswer(w, k)  BY <1>10, <2>1 DEF Rs232Inv
  <2>4. w \in Seq(Bytes232) /\ k \in Nat /\ Len(w) = k + 6  BY <2>3 DEF NoiseAndAnswer
  <2>5. Len(kept) \in Nat /\ Len(line) \in Nat /\ Len(w) = Len(kept) + Len(line)
    BY <1>2
  <2>6. m \in 0..(k + 6) /\ m <= PeekSize /\ m <= RingSize /\ m \in Nat
    BY <1>1, <2>2, <2>4, <2>5, Rs232Assumption
  <2>7. all = SubSeq(w, 1, m) /\ line' = SubSeq(w, m + 1, Len(w))
    <3>1. n \in 0..Len(line)  BY <1>1, <2>5
    <3>2. /\ SubSeq(kept \o line, 1, Len(kept) + n) = kept \o SubSeq(line, 1, n)
          /\ SubSeq(kept \o line, Len(kept) + n + 1, Len(kept \o line))
               = SubSeq(line, n + 1, Len(line))
      <4>1. kept \in Seq(Bytes232) /\ line \in Seq(Bytes232)  BY <1>2
      <4> QED  BY <3>1, <4>1, PrefixOfJoin
    <3> QED  BY <1>1, <3>2, Zenon DEF all
  <2>8. Len(all) = m  BY <2>4, <2>6, <2>7
  <2> HIDE DEF w, m
  <2>9. buffered = all
    <3> DEFINE from == Len(all) - RingSize + 1
    <3>1. from \in Int /\ from <= 1  BY <2>6, <2>8, Rs232Assumption
    <3> HIDE DEF from
    <3>2. Max({1, from}) = 1
      <4>1. {1, from} \in SUBSET Int /\ \A y \in {1, from} : y <= 1  BY <3>1
      <4> QED  BY <4>1, MaxIs
    <3>3. SubSeq(all, 1, Len(all)) = all  BY <1>3
    <3> QED  BY <3>2, <3>3 DEF buffered, from
  <2>10. seen = SubSeq(w, 1, m)
    <3>1. PeekSize \in Nat /\ m <= PeekSize  BY <2>6, Rs232Assumption
    <3>2. Min({PeekSize, m}) = m  BY <2>6, <3>1, MinIs
    <3>3. SubSeq(all, 1, m) = all  BY <1>3, <2>8
    <3> QED  BY <2>7, <2>8, <2>9, <3>2, <3>3 DEF seen
  <2>11. Len(seen) = m  BY <2>4, <2>6, <2>10
  <2>12. nak \in BOOLEAN  BY <1>2
  <2> HIDE DEF nak, rq
  <2>13. Passed(c0, k, m, rq, v)
    <3>1. 0 \in 0..k /\ 0 <= m  BY <2>4, <2>6
    <3> QED  BY <2>2, <3>1 DEF Passed
  <2> HIDE DEF c0, v
  <2> DEFINE c1 == Round(c0, nak, seen)
             c2 == Round(c1, nak, seen)
             c3 == Round(c2, nak, seen)
  <2>14. Passed(c1, k, m, rq, v)  BY <2>2, <2>3, <2>6, <2>10, <2>12, <2>13, RoundPasses DEF v
  <2> HIDE DEF c1
  <2>15. Passed(c2, k, m, rq, v)  BY <2>2, <2>3, <2>6, <2>10, <2>12, <2>14, RoundPasses DEF v
  <2> HIDE DEF c2
  <2>16. Passed(c3, k, m, rq, v) /\ (m = k + 6 => c3.n = m)
    BY <2>2, <2>3, <2>6, <2>10, <2>12, <2>15, RoundPasses DEF v
  <2>17. c = c3  BY DEF Rounds, c1, c2
  <2> HIDE DEF c, c3
  <2>18. CASE m = k + 6
    <3>1. c.n = m /\ m # 0  BY <2>4, <2>16, <2>17, <2>18
    <3>2. judged' = <<v>>
      <4>1. ~(c.n \in 0..k)  BY <2>4, <2>18, <3>1
      <4> QED  BY <1>1, <2>16, <2>17, <4>1 DEF Passed
    <3>3. line' = <<>>  BY <2>4, <2>7, <2>18
    <3> QED  BY <1>1, <1>2, <1>3, <1>7, <2>0, <2>2, <3>2, <3>3 DEF Rs232Inv, v, rq, nak
  <2>19. CASE m # k + 6
    <3>1. c.n \in 0..k /\ c.n <= m /\ c.judged = <<>> /\ c.rq = rq
      BY <2>16, <2>17, <2>19 DEF Passed
    <3>2. line' # <<>>
      <4>1. Len(line') = k + 6 - m  BY <2>4, <2>6, <2>7
      <4>2. Len(line') # 0  BY <2>4, <2>6, <2>19, <4>1
      <4> QED  BY <4>2
    <3> DEFINE a == c.n
               left == SubSeq(w, a + 1, Len(w))
    <3>3. a \in 0..m /\ m \in 0..Len(w) /\ a \in Nat  BY <2>4, <2>6, <3>1
    <3>4. kept' = SubSeq(SubSeq(w, 1, m), a + 1, m)
      BY <1>1, <2>7, <2>8, <2>9
    <3> HIDE DEF a
    <3>5. kept' \o line' = left  BY <2>4, <2>7, <3>3, <3>4, Rejoined
    <3>6. Len(left) <= PeekSize
      <4>1. Len(left) = Len(w) - a  BY <2>4, <3>3
      <4> QED  BY <2>2, <2>4, <3>3, <4>1, Rs232Assumption
    <3>7. NoiseAndAnswer(left, k - a)  BY <2>3, <3>1, RestOfAnswer DEF a
    <3> HIDE DEF left
    <3> QED  BY <1>1, <1>2, <1>3, <1>7, <2>0, <2>2, <3>1, <3>2, <3>5, <3>6, <3>7
             DEF Rs232Inv, rq
  <2> QED  BY <2>18, <2>19
<1>11. answer.clean \in BOOLEAN  BY <1>2
<1> QED  BY <1>8, <1>9, <1>10, <1>11

LEMMA Rs232GoesOn == PartsSpec => []Rs232Inv
<1>1. PartsInit => Rs232Inv  BY Rs232Initial DEF PartsInit
<1>2. Rs232Inv /\ [PartsNext]_partsVars => Rs232Inv'
  <2> SUFFICES ASSUME Rs232Inv, [PartsNext]_partsVars PROVE Rs232Inv'  OBVIOUS
  <2>1. CASE UNCHANGED partsVars  BY <2>1, Rs232Unchanged DEF partsVars
  <2>2. CASE Works("rs232") /\ Rs232Next
    <3>1. CASE \E rq \in Requests, nak \in BOOLEAN,
                 noise \in {<<>>, <<"x">>, <<"(">>, <<"r", "(">>},
                 crc \in {<<"x", "x">>, <<"(", "x">>, <<"x", "(">>, <<"r", "x">>, <<"x", "r">>} :
                 Ask(rq, nak, crc, noise)
      BY <3>1, AskingKeeps
    <3>2. CASE \E n \in 1..(PeekSize + 8) : ProcessData(n)
      <4>1. PICK n \in 1..(PeekSize + 8) : ProcessData(n)  BY <3>2
      <4>2. n \in Nat \ {0}  BY Rs232Assumption
      <4> QED  BY <4>1, <4>2, ProcessingKeeps
    <3>3. CASE LoseByte  BY <3>3, LosingKeeps
    <3> QED  BY <2>2, <3>1, <3>2, <3>3 DEF Rs232Next
  <2>3. CASE PartsNext /\ ~(Works("rs232") /\ Rs232Next)
    <3>1. UNCHANGED rs232Vars  BY <2>3 DEF PartsNext, Works
    <3> QED  BY <3>1, Rs232Unchanged
  <2> QED  BY <2>1, <2>2, <2>3
<1> QED  BY <1>1, <1>2, PTL DEF PartsSpec, partsVars

(***************************************************************************)
(* However an answer of the inverter is cut and whatever noise without a   *)
(* whole frame comes before it, process_data (rx.c:13-115) shows it to     *)
(* rs232_2400_rsp_parse (rs232_2400_protocol.c:622-815) so that it is      *)
(* judged exactly once, and accepted in the form its parser's comment      *)
(* gives, but for QGOV and QCHGS, for every number of bytes that           *)
(* process_data looks at and every larger ring buffer.  The answers to     *)
(* QPIGS and QPIHF, which have more bytes than that, are never judged: no  *)
(* '(' is looked at together with a '\r' behind it.                        *)
(***************************************************************************)
THEOREM AnswersAreUnderstood == PartsSpec => []AnswersUnderstood
<1>1. Rs232Inv => AnswersUnderstood  BY DEF Rs232Inv, AnswersUnderstood, Judgement, Overlong, TooLong
<1> QED  BY <1>1, Rs232GoesOn, PTL

-----------------------------------------------------------------------------
(* The layouts of the server's messages                                    *)

Widths == {1, 2, 4, 8}
LayoutsOf == Seq(Widths \X Nat)

LEMMA RunsAre ==
  ASSUME NEW layout \in LayoutsOf
  PROVE  /\ Len(layout) \in Nat /\ DOMAIN layout = 1..Len(layout)
         /\ \A n \in 1..Len(layout) : layout[n][1] \in Widths /\ layout[n][2] \in Nat
<1>1. Len(layout) \in Nat /\ DOMAIN layout = 1..Len(layout)  BY DEF LayoutsOf
<1>2. \A n \in 1..Len(layout) : layout[n] \in Widths \X Nat  BY DEF LayoutsOf
<1> QED  BY <1>1, <1>2

LEMMA Alignment ==
  ASSUME NEW n \in Nat, NEW w \in Nat \ {0}
  PROVE  Aligned(n, w) \in Nat /\ n <= Aligned(n, w) /\ Aligned(n, w) <= n + w - 1
<1> DEFINE a == n + w - 1
           d == a \div w
           e == a % w
<1>1. a \in Nat  OBVIOUS
<1> HIDE DEF a
<1>2. d \in Int /\ e \in Int /\ a = w * d + e /\ 0 <= e /\ e < w  BY <1>1
<1>3. Aligned(n, w) = d * w  BY DEF Aligned, a
<1> HIDE DEF d, e
<1>4. d * w = w * d /\ w * d \in Int  BY <1>2
<1>5. d * w = n + w - 1 - e  BY <1>2, <1>4 DEF a
<1> QED  BY <1>2, <1>3, <1>5

\* The bytes up to each run
Counted(u, layout) ==
  /\ u[0] = 0
  /\ \A n \in 1..Len(layout) : u[n] = u[n - 1] + layout[n][1] * layout[n][2]

LEMMA BytesCounted ==
  ASSUME NEW layout \in LayoutsOf
  PROVE  \E u \in [0..Len(layout) -> Nat] : Counted(u, layout) /\ ByteCount(layout) = u[Len(layout)]
<1> DEFINE m == Len(layout)
           next == [q \in (1..m) \X Nat |-> q[2] + layout[q[1]][1] * layout[q[1]][2]]
           upto == CHOOSE u : u = [n \in 0..m |-> IF n = 0 THEN 0
                                                  ELSE u[n - 1] + layout[n][1] * layout[n][2]]
<1>1. m \in Nat /\ 0 \in Nat /\ \A n \in 1..m : layout[n][1] \in Widths /\ layout[n][2] \in Nat
  BY RunsAre
<1>2. \A n \in 1..m, k \in Nat : k + layout[n][1] * layout[n][2] \in Nat
  <2> SUFFICES ASSUME NEW n \in 1..m, NEW k \in Nat  PROVE k + layout[n][1] * layout[n][2] \in Nat
    OBVIOUS
  <2> DEFINE w == layout[n][1]
             c == layout[n][2]
  <2>1. w \in Nat \ {0} /\ c \in Nat  BY <1>1 DEF Widths
  <2> HIDE DEF w, c
  <2>2. w * c \in Nat  BY <2>1
  <2> QED  BY <2>2 DEF w, c
<1>3. next \in [(1..m) \X Nat -> Nat]  BY <1>2
<1>4. \A n \in 1..m, k \in Nat : next[<<n, k>>] = k + layout[n][1] * layout[n][2]  OBVIOUS
<1>5. ByteCount(layout) = upto[m]  BY DEF ByteCount
<1> HIDE DEF next, m
<1>6. PICK u \in [0..m -> Nat] : GoesFrom(u, 0, next, m)  BY <1>1, <1>3, Recursion
<1>7. ASSUME NEW n \in 1..m  PROVE u[n] = u[n - 1] + layout[n][1] * layout[n][2]
  <2>1. u[n - 1] \in Nat  BY <1>1
  <2> QED  BY <1>4, <1>6, <2>1 DEF GoesFrom
<1>8. u = [n \in 0..m |-> IF n = 0 THEN 0 ELSE u[n - 1] + layout[n][1] * layout[n][2]]
  <2>1. \A n \in 0..m : u[n] = IF n = 0 THEN 0 ELSE u[n - 1] + layout[n][1] * layout[n][2]
    BY <1>1, <1>6, <1>7 DEF GoesFrom
  <2> QED  BY <1>6, <2>1
<1>9. upto = [n \in 0..m |-> IF n = 0 THEN 0 ELSE upto[n - 1] + layout[n][1] * layout[n][2]]
  BY <1>8
<1> HIDE DEF upto
<1>10. upto[0] = 0 /\ \A n \in 1..m : upto[n] = upto[n - 1] + layout[n][1] * layout[n][2]
  <2>1. upto[0] = 0  BY <1>1, <1>9
  <2>2. ASSUME NEW n \in 1..m  PROVE upto[n] = upto[n - 1] + layout[n][1] * layout[n][2]
    <3>1. n \in 0..m /\ n # 0  BY <1>1
    <3> QED  BY <1>9, <3>1
  <2> QED  BY <2>1, <2>2
<1>11. \A n \in 0..m : upto[n] \in Nat
  <2> DEFINE T == {n \in 0..m : upto[n] \in Nat}
  <2>1. 0 \in T  BY <1>1, <1>10
  <2>2. ASSUME NEW n \in 1..m, n - 1 \in T  PROVE n \in T
    <3>1. n \in 0..m /\ upto[n - 1] \in Nat  BY <1>1, <2>2
    <3>2. upto[n - 1] + layout[n][1] * layout[n][2] \in Nat  BY <1>2, <3>1
    <3> QED  BY <1>10, <3>1, <3>2
  <2> HIDE DEF T
  <2>3. \A n \in 0..m : n \in T  BY <1>1, <2>1, <2>2, Induction
  <2> QED  BY <2>3 DEF T
<1>12. upto \in [0..m -> Nat]  BY <1>9, <1>11
<1> QED  BY <1>5, <1>10, <1>12 DEF Counted, m

\* The ends of the members of a structure
Placed(u, layout) ==
  /\ u[0] = 0
  /\ \A n \in 1..Len(layout) : u[n] = Aligned(u[n - 1], layout[n][1]) +
                                      layout[n][1] * layout[n][2]

LEMMA MembersPlaced ==
  ASSUME NEW layout \in LayoutsOf
  PROVE  \E u \in [0..Len(layout) -> Nat] :
            Placed(u, layout) /\ SizeOf(layout) = Aligned(u[Len(layout)], Widest(layout))
<1> DEFINE m == Len(layout)
           next == [q \in (1..m) \X Nat |-> Aligned(q[2], layout[q[1]][1]) +
                  layout[q[1]][1] * layout[q[1]][2]]
           upto == CHOOSE u : u = [n \in 0..m |-> IF n = 0 THEN 0
                                                  ELSE Aligned(u[n - 1], layout[n][1]) +
                                                      layout[n][1] * layout[n][2]]
<1>1. m \in Nat /\ 0 \in Nat /\ \A n \in 1..m : layout[n][1] \in Widths /\ layout[n][2] \in Nat
  BY RunsAre
<1>2. \A n \in 1..m, k \in Nat : Aligned(k, layout[n][1]) + layout[n][1] * layout[n][2] \in Nat
  <2> SUFFICES ASSUME NEW n \in 1..m, NEW k \in Nat
    PROVE Aligned(k, layout[n][1]) + layout[n][1] * layout[n][2] \in Nat
    OBVIOUS
  <2> DEFINE w == layout[n][1]
             c == layout[n][2]
  <2>1. w \in Nat \ {0} /\ c \in Nat  BY <1>1 DEF Widths
  <2> HIDE DEF w, c
  <2>2. w * c \in Nat  BY <2>1
  <2>3. Aligned(k, w) \in Nat  BY <2>1, Alignment
  <2> QED  BY <2>2, <2>3 DEF w, c
<1>3. next \in [(1..m) \X Nat -> Nat]  BY <1>2
<1>4. \A n \in 1..m, k \in Nat : next[<<n, k>>] = Aligned(k, layout[n][1]) +
                                                  layout[n][1] * layout[n][2]
  OBVIOUS
<1>5. SizeOf(layout) = Aligned(upto[m], Widest(layout))  BY DEF SizeOf
<1> HIDE DEF next, m
<1>6. PICK u \in [0..m -> Nat] : GoesFrom(u, 0, next, m)  BY <1>1, <1>3, Recursion
<1>7. ASSUME NEW n \in 1..m  PROVE u[n] = Aligned(u[n - 1], layout[n][1]) +
                                          layout[n][1] * layout[n][2]
  <2>1. u[n - 1] \in Nat  BY <1>1
  <2> QED  BY <1>4, <1>6, <2>1 DEF GoesFrom
<1>8. u = [n \in 0..m |-> IF n = 0 THEN 0
                          ELSE Aligned(u[n - 1], layout[n][1]) + layout[n][1] * layout[n][2]]
  <2>1. \A n \in 0..m : u[n] = IF n = 0 THEN 0
                               ELSE Aligned(u[n - 1], layout[n][1]) + layout[n][1] * layout[n][2]
    BY <1>1, <1>6, <1>7 DEF GoesFrom
  <2> QED  BY <1>6, <2>1
<1>9. upto = [n \in 0..m |-> IF n = 0 THEN 0
                             ELSE Aligned(upto[n - 1], layout[n][1]) +
                                 layout[n][1] * layout[n][2]]
  BY <1>8
<1> HIDE DEF upto
<1>10. upto[0] = 0 /\ \A n \in 1..m : upto[n] = Aligned(upto[n - 1], layout[n][1]) +
                 layout[n][1] * layout[n][2]
  <2>1. upto[0] = 0  BY <1>1, <1>9
  <2>2. ASSUME NEW n \in 1..m  PROVE upto[n] = Aligned(upto[n - 1], layout[n][1]) +
                                               layout[n][1] * layout[n][2]
    <3>1. n \in 0..m /\ n # 0  BY <1>1
    <3> QED  BY <1>9, <3>1
  <2> QED  BY <2>1, <2>2
<1>11. \A n \in 0..m : upto[n] \in Nat
  <2> DEFINE T == {n \in 0..m : upto[n] \in Nat}
  <2>1. 0 \in T  BY <1>1, <1>10
  <2>2. ASSUME NEW n \in 1..m, n - 1 \in T  PROVE n \in T
    <3>1. n \in 0..m /\ upto[n - 1] \in Nat  BY <1>1, <2>2
    <3>2. Aligned(upto[n - 1], layout[n][1]) + layout[n][1] * layout[n][2] \in Nat
      BY <1>2, <3>1
    <3> QED  BY <1>10, <3>1, <3>2
  <2> HIDE DEF T
  <2>3. \A n \in 0..m : n \in T  BY <1>1, <2>1, <2>2, Induction
  <2> QED  BY <2>3 DEF T
<1>12. upto \in [0..m -> Nat]  BY <1>9, <1>11
<1> QED  BY <1>5, <1>10, <1>12 DEF Placed, m

LEMMA LayoutsJoined ==
  ASSUME NEW s \in LayoutsOf, NEW t \in LayoutsOf
  PROVE  /\ s \o t \in LayoutsOf /\ Len(s \o t) = Len(s) + Len(t)
         /\ \A i \in 1..Len(s) : (s \o t)[i] = s[i]
         /\ \A i \in 1..Len(t) : (s \o t)[Len(s) + i] = t[i]
  BY Joined DEF LayoutsOf

\* The bytes of two layouts, one after the other
LEMMA BytesJoined ==
  ASSUME NEW s \in LayoutsOf, NEW t \in LayoutsOf
  PROVE  ByteCount(s \o t) = ByteCount(s) + ByteCount(t)
<1> DEFINE r == s \o t
           l == Len(s)
           m == Len(t)
<1>1. /\ r \in LayoutsOf /\ Len(r) = l + m /\ l \in Nat /\ m \in Nat
      /\ \A i \in 1..l : r[i] = s[i]
      /\ \A i \in 1..m : r[l + i] = t[i]
  BY LayoutsJoined, RunsAre
<1> HIDE DEF r
<1>2. PICK u \in [0..Len(r) -> Nat] : Counted(u, r) /\ ByteCount(r) = u[Len(r)]
  BY <1>1, BytesCounted
<1>3. PICK a \in [0..l -> Nat] : Counted(a, s) /\ ByteCount(s) = a[l]  BY BytesCounted
<1>4. PICK b \in [0..m -> Nat] : Counted(b, t) /\ ByteCount(t) = b[m]  BY BytesCounted
<1> HIDE DEF l, m
<1>5. a[0] = 0 /\ \A n \in 1..l : a[n] = a[n - 1] + s[n][1] * s[n][2]  BY <1>3 DEF Counted, l
<1>6. b[0] = 0 /\ \A n \in 1..m : b[n] = b[n - 1] + t[n][1] * t[n][2]  BY <1>4 DEF Counted, m
<1>7. u[0] = 0 /\ \A n \in 1..(l + m) : u[n] = u[n - 1] + r[n][1] * r[n][2]
  BY <1>1, <1>2 DEF Counted
<1>8. \A n \in 0..l : u[n] = a[n]
  <2> DEFINE T == {n \in 0..l : u[n] = a[n]}
  <2>1. 0 \in T  BY <1>1, <1>5, <1>7
  <2>2. ASSUME NEW n \in 1..l, n - 1 \in T  PROVE n \in T
    <3>1. n \in 0..l /\ n \in 1..(l + m) /\ u[n - 1] = a[n - 1] /\ r[n] = s[n]  BY <1>1, <2>2
    <3>2. u[n] = u[n - 1] + r[n][1] * r[n][2]  BY <1>7, <3>1
    <3>3. a[n] = a[n - 1] + s[n][1] * s[n][2]  BY <1>5
    <3> QED  BY <3>1, <3>2, <3>3
  <2> HIDE DEF T
  <2>3. \A n \in 0..l : n \in T  BY <1>1, <2>1, <2>2, Induction
  <2> QED  BY <2>3 DEF T
<1>9. \A n \in 0..m : u[l + n] = a[l] + b[n]
  <2> DEFINE T == {n \in 0..m : u[l + n] = a[l] + b[n]}
  <2>0. a[l] \in Nat  BY <1>1, <1>3
  <2>1. 0 \in T
    <3>1. u[l] = a[l] /\ l + 0 = l /\ a[l] + 0 = a[l] /\ 0 \in 0..m  BY <1>1, <1>8, <2>0
    <3> QED  BY <1>6, <3>1
  <2>2. ASSUME NEW n \in 1..m, n - 1 \in T  PROVE n \in T
    <3>1. n \in 0..m /\ l + n \in 1..(l + m) /\ (l + n) - 1 = l + (n - 1) /\ n - 1 \in 0..m
      BY <1>1
    <3>2. u[l + (n - 1)] = a[l] + b[n - 1] /\ r[l + n] = t[n]  BY <1>1, <2>2
    <3> DEFINE x == t[n][1] * t[n][2]
    <3>3. u[l + n] = u[l + (n - 1)] + x
      <4>1. u[l + n] = u[(l + n) - 1] + r[l + n][1] * r[l + n][2]  BY <1>7, <3>1
      <4> QED  BY <3>1, <3>2, <4>1
    <3>4. b[n] = b[n - 1] + x  BY <1>6
    <3>5. x \in Int
      <4>1. t[n][1] \in Widths /\ t[n][2] \in Nat  BY RunsAre DEF m
      <4>2. t[n][1] \in Nat  BY <4>1 DEF Widths
      <4> QED  BY <4>1, <4>2
    <3>6. b[n - 1] \in Nat  BY <1>4, <3>1 DEF m
    <3> HIDE DEF x
    <3> QED  BY <2>0, <3>1, <3>2, <3>3, <3>4, <3>5, <3>6
  <2> HIDE DEF T
  <2>3. \A n \in 0..m : n \in T  BY <1>1, <2>1, <2>2, Induction
  <2> QED  BY <2>3 DEF T
<1>10. u[l + m] = a[l] + b[m]  BY <1>1, <1>9
<1> QED  BY <1>1, <1>2, <1>3, <1>4, <1>10 DEF r

LEMMA BytesOfArray ==
  ASSUME NEW n \in Nat, NEW w \in Widths
  PROVE  Array(n, w) \in LayoutsOf /\ Len(Array(n, w)) = 1 /\ ByteCount(Array(n, w)) = w * n
         /\ Array(n, w)[1] = <<w, n>>
<1> DEFINE a == Array(n, w)
<1>1. a \in LayoutsOf /\ Len(a) = 1 /\ a[1] = <<w, n>>  BY DEF Array, LayoutsOf
<1> HIDE DEF a
<1>2. PICK u \in [0..Len(a) -> Nat] : Counted(u, a) /\ ByteCount(a) = u[Len(a)]
  BY <1>1, BytesCounted
<1>3. u[0] = 0 /\ u[1] = u[1 - 1] + w * n  BY <1>1, <1>2 DEF Counted
<1>4. w * n \in Nat  BY DEF Widths
<1>5. u[1] = w * n  BY <1>3, <1>4
<1> QED  BY <1>1, <1>2, <1>5 DEF a

LEMMA MembersOfF ==
  ASSUME NEW widths \in Seq(Widths)
  PROVE  /\ F(widths) \in LayoutsOf /\ Len(F(widths)) = Len(widths)
         /\ \A i \in 1..Len(widths) : F(widths)[i] = <<widths[i], 1>>
<1>1. Len(widths) \in Nat /\ DOMAIN widths = 1..Len(widths)
      /\ \A i \in 1..Len(widths) : widths[i] \in Widths
  OBVIOUS
<1>2. F(widths) = [i \in 1..Len(widths) |-> <<widths[i], 1>>]  BY <1>1 DEF F
<1>3. F(widths) \in [1..Len(widths) -> Widths \X Nat]  BY <1>1, <1>2
<1> HIDE DEF F
<1>4. F(widths) \in LayoutsOf /\ Len(F(widths)) = Len(widths)  BY <1>1, <1>3 DEF LayoutsOf
<1> QED  BY <1>2, <1>4

\* The bytes of fields: the sum of their widths, step by step
FieldsCounted(u, widths) ==
  u[0] = 0 /\ \A i \in 1..Len(widths) : u[i] = u[i - 1] + widths[i]

LEMMA BytesOfFields ==
  ASSUME NEW widths \in Seq(Widths)
  PROVE  \E u : FieldsCounted(u, widths) /\ ByteCount(F(widths)) = u[Len(widths)]
<1> DEFINE f == F(widths)
           m == Len(widths)
<1>1. f \in LayoutsOf /\ Len(f) = m /\ \A i \in 1..m : f[i] = <<widths[i], 1>>  BY MembersOfF
<1> HIDE DEF f
<1>2. PICK u \in [0..Len(f) -> Nat] : Counted(u, f) /\ ByteCount(f) = u[Len(f)]
  BY <1>1, BytesCounted
<1>3. u[0] = 0  BY <1>2 DEF Counted
<1>4. ASSUME NEW i \in 1..m  PROVE u[i] = u[i - 1] + widths[i]
  <2>1. u[i] = u[i - 1] + f[i][1] * f[i][2]  BY <1>1, <1>2 DEF Counted
  <2>2. f[i][1] = widths[i] /\ f[i][2] = 1  BY <1>1
  <2>3. widths[i] * 1 = widths[i]
    <3>1. widths[i] \in Widths  OBVIOUS
    <3>2. widths[i] \in Int  BY <3>1 DEF Widths
    <3> QED  BY <3>2
  <2> QED  BY <2>1, <2>2, <2>3
<1> QED  BY <1>1, <1>2, <1>3, <1>4 DEF FieldsCounted, f

LEMMA BytesOf1 ==
  ASSUME NEW w1 \in Widths
  PROVE  F(<<w1>>) \in LayoutsOf /\ Len(F(<<w1>>)) = 1
         /\ ByteCount(F(<<w1>>)) = w1
<1> DEFINE ws == <<w1>>
<1>1. w1 \in Int  BY DEF Widths
<1>2. ws \in Seq(Widths) /\ Len(ws) = 1  OBVIOUS
<1>3. ws[1] = w1  OBVIOUS
<1> HIDE DEF ws
<1>4. PICK u : FieldsCounted(u, ws) /\ ByteCount(F(ws)) = u[Len(ws)]  BY <1>2, BytesOfFields
<1>5. u[0] = 0 /\ u[1] = u[1 - 1] + w1
  BY <1>2, <1>3, <1>4 DEF FieldsCounted
<1>6. u[1] = w1  BY <1>1, <1>5
<1>7. F(ws) \in LayoutsOf /\ Len(F(ws)) = 1  BY <1>2, MembersOfF
<1> QED  BY <1>2, <1>4, <1>6, <1>7 DEF ws

LEMMA BytesOf2 ==
  ASSUME NEW w1 \in Widths, NEW w2 \in Widths
  PROVE  F(<<w1, w2>>) \in LayoutsOf /\ Len(F(<<w1, w2>>)) = 2
         /\ ByteCount(F(<<w1, w2>>)) = w1 + w2
<1> DEFINE ws == <<w1, w2>>
<1>1. w1 \in Int /\ w2 \in Int  BY DEF Widths
<1>2. ws \in Seq(Widths) /\ Len(ws) = 2  OBVIOUS
<1>3. ws[1] = w1 /\ ws[2] = w2  OBVIOUS
<1> HIDE DEF ws
<1>4. PICK u : FieldsCounted(u, ws) /\ ByteCount(F(ws)) = u[Len(ws)]  BY <1>2, BytesOfFields
<1>5. u[0] = 0 /\ u[1] = u[1 - 1] + w1 /\ u[2] = u[2 - 1] + w2
  BY <1>2, <1>3, <1>4 DEF FieldsCounted
<1>6. u[2] = w1 + w2  BY <1>1, <1>5
<1>7. F(ws) \in LayoutsOf /\ Len(F(ws)) = 2  BY <1>2, MembersOfF
<1> QED  BY <1>2, <1>4, <1>6, <1>7 DEF ws

LEMMA BytesOf3 ==
  ASSUME NEW w1 \in Widths, NEW w2 \in Widths, NEW w3 \in Widths
  PROVE  F(<<w1, w2, w3>>) \in LayoutsOf /\ Len(F(<<w1, w2, w3>>)) = 3
         /\ ByteCount(F(<<w1, w2, w3>>)) = w1 + w2 + w3
<1> DEFINE ws == <<w1, w2, w3>>
<1>1. w1 \in Int /\ w2 \in Int /\ w3 \in Int  BY DEF Widths
<1>2. ws \in Seq(Widths) /\ Len(ws) = 3  OBVIOUS
<1>3. ws[1] = w1 /\ ws[2] = w2 /\ ws[3] = w3  OBVIOUS
<1> HIDE DEF ws
<1>4. PICK u : FieldsCounted(u, ws) /\ ByteCount(F(ws)) = u[Len(ws)]  BY <1>2, BytesOfFields
<1>5. u[0] = 0 /\ u[1] = u[1 - 1] + w1 /\ u[2] = u[2 - 1] + w2 /\ u[3] = u[3 - 1] + w3
  BY <1>2, <1>3, <1>4 DEF FieldsCounted
<1>6. u[3] = w1 + w2 + w3  BY <1>1, <1>5
<1>7. F(ws) \in LayoutsOf /\ Len(F(ws)) = 3  BY <1>2, MembersOfF
<1> QED  BY <1>2, <1>4, <1>6, <1>7 DEF ws

LEMMA BytesOf4 ==
  ASSUME NEW w1 \in Widths, NEW w2 \in Widths, NEW w3 \in Widths,
         NEW w4 \in Widths
  PROVE  F(<<w1, w2, w3, w4>>) \in LayoutsOf /\ Len(F(<<w1, w2, w3, w4>>)) = 4
         /\ ByteCount(F(<<w1, w2, w3, w4>>)) = w1 + w2 + w3 + w4
<1> DEFINE ws == <<w1, w2, w3, w4>>
<1>1. w1 \in Int /\ w2 \in Int /\ w3 \in Int /\ w4 \in Int  BY DEF Widths
<1>2. ws \in Seq(Widths) /\ Len(ws) = 4  OBVIOUS
<1>3. ws[1] = w1 /\ ws[2] = w2 /\ ws[3] = w3 /\ ws[4] = w4  OBVIOUS
<1> HIDE DEF ws
<1>4. PICK u : FieldsCounted(u, ws) /\ ByteCount(F(ws)) = u[Len(ws)]  BY <1>2, BytesOfFields
<1>5. u[0] = 0 /\ u[1] = u[1 - 1] + w1 /\ u[2] = u[2 - 1] + w2 /\ u[3] = u[3 - 1] + w3
      /\ u[4] = u[4 - 1] + w4
  BY <1>2, <1>3, <1>4 DEF FieldsCounted
<1>6. u[4] = w1 + w2 + w3 + w4  BY <1>1, <1>5
<1>7. F(ws) \in LayoutsOf /\ Len(F(ws)) = 4  BY <1>2, MembersOfF
<1> QED  BY <1>2, <1>4, <1>6, <1>7 DEF ws

LEMMA BytesOf5 ==
  ASSUME NEW w1 \in Widths, NEW w2 \in Widths, NEW w3 \in Widths,
         NEW w4 \in Widths, NEW w5 \in Widths
  PROVE  F(<<w1, w2, w3, w4, w5>>) \in LayoutsOf /\ Len(F(<<w1, w2, w3, w4, w5>>)) = 5
         /\ ByteCount(F(<<w1, w2, w3, w4, w5>>)) = w1 + w2 + w3 + w4 + w5
<1> DEFINE ws == <<w1, w2, w3, w4, w5>>
<1>1. w1 \in Int /\ w2 \in Int /\ w3 \in Int /\ w4 \in Int /\ w5 \in Int  BY DEF Widths
<1>2. ws \in Seq(Widths) /\ Len(ws) = 5  OBVIOUS
<1>3. ws[1] = w1 /\ ws[2] = w2 /\ ws[3] = w3 /\ ws[4] = w4 /\ ws[5] = w5  OBVIOUS
<1> HIDE DEF ws
<1>4. PICK u : FieldsCounted(u, ws) /\ ByteCount(F(ws)) = u[Len(ws)]  BY <1>2, BytesOfFields
<1>5. u[0] = 0 /\ u[1] = u[1 - 1] + w1 /\ u[2] = u[2 - 1] + w2 /\ u[3] = u[3 - 1] + w3
      /\ u[4] = u[4 - 1] + w4 /\ u[5] = u[5 - 1] + w5
  BY <1>2, <1>3, <1>4 DEF FieldsCounted
<1>6. u[5] = w1 + w2 + w3 + w4 + w5  BY <1>1, <1>5
<1>7. F(ws) \in LayoutsOf /\ Len(F(ws)) = 5  BY <1>2, MembersOfF
<1> QED  BY <1>2, <1>4, <1>6, <1>7 DEF ws

LEMMA BytesOf6 ==
  ASSUME NEW w1 \in Widths, NEW w2 \in Widths, NEW w3 \in Widths,
         NEW w4 \in Widths, NEW w5 \in Widths, NEW w6 \in Widths
  PROVE  F(<<w1, w2, w3, w4, w5, w6>>) \in LayoutsOf /\ Len(F(<<w1, w2, w3, w4, w5, w6>>)) = 6
         /\ ByteCount(F(<<w1, w2, w3, w4, w5, w6>>)) = w1 + w2 + w3 + w4 + w5 + w6
<1> DEFINE ws == <<w1, w2, w3, w4, w5, w6>>
<1>1. w1 \in Int /\ w2 \in Int /\ w3 \in Int /\ w4 \in Int /\ w5 \in Int
      /\ w6 \in Int  BY DEF Widths
<1>2. ws \in Seq(Widths) /\ Len(ws) = 6  OBVIOUS
<1>3. ws[1] = w1 /\ ws[2] = w2 /\ ws[3] = w3 /\ ws[4] = w4 /\ ws[5] = w5 /\ ws[6] = w6  OBVIOUS
<1> HIDE DEF ws
<1>4. PICK u : FieldsCounted(u, ws) /\ ByteCount(F(ws)) = u[Len(ws)]  BY <1>2, BytesOfFields
<1>5. u[0] = 0 /\ u[1] = u[1 - 1] + w1 /\ u[2] = u[2 - 1] + w2 /\ u[3] = u[3 - 1] + w3
      /\ u[4] = u[4 - 1] + w4 /\ u[5] = u[5 - 1] + w5 /\ u[6] = u[6 - 1] + w6
  BY <1>2, <1>3, <1>4 DEF FieldsCounted
<1>6. u[6] = w1 + w2 + w3 + w4 + w5 + w6  BY <1>1, <1>5
<1>7. F(ws) \in LayoutsOf /\ Len(F(ws)) = 6  BY <1>2, MembersOfF
<1> QED  BY <1>2, <1>4, <1>6, <1>7 DEF ws

LEMMA BytesOf8 ==
  ASSUME NEW w1 \in Widths, NEW w2 \in Widths, NEW w3 \in Widths,
         NEW w4 \in Widths, NEW w5 \in Widths, NEW w6 \in Widths,
         NEW w7 \in Widths, NEW w8 \in Widths
  PROVE  F(<<w1, w2, w3, w4, w5, w6, w7, w8>>) \in LayoutsOf
      /\ Len(F(<<w1, w2, w3, w4, w5, w6, w7, w8>>)) = 8
         /\ ByteCount(F(<<w1, w2, w3, w4, w5, w6, w7, w8>>)) = w1 + w2 + w3 + w4 + w5 + w6 + w7 +
         w8
<1> DEFINE ws == <<w1, w2, w3, w4, w5, w6, w7, w8>>
<1>1. w1 \in Int /\ w2 \in Int /\ w3 \in Int /\ w4 \in Int /\ w5 \in Int /\ w6 \in Int
      /\ w7 \in Int /\ w8 \in Int  BY DEF Widths
<1>2. ws \in Seq(Widths) /\ Len(ws) = 8  OBVIOUS
<1>3. ws[1] = w1 /\ ws[2] = w2 /\ ws[3] = w3 /\ ws[4] = w4 /\ ws[5] = w5 /\ ws[6] = w6
      /\ ws[7] = w7 /\ ws[8] = w8  OBVIOUS
<1> HIDE DEF ws
<1>4. PICK u : FieldsCounted(u, ws) /\ ByteCount(F(ws)) = u[Len(ws)]  BY <1>2, BytesOfFields
<1>5. u[0] = 0 /\ u[1] = u[1 - 1] + w1 /\ u[2] = u[2 - 1] + w2 /\ u[3] = u[3 - 1] + w3
      /\ u[4] = u[4 - 1] + w4 /\ u[5] = u[5 - 1] + w5 /\ u[6] = u[6 - 1] + w6
      /\ u[7] = u[7 - 1] + w7 /\ u[8] = u[8 - 1] + w8
  BY <1>2, <1>3, <1>4 DEF FieldsCounted
<1>6. u[8] = w1 + w2 + w3 + w4 + w5 + w6 + w7 + w8  BY <1>1, <1>5
<1>7. F(ws) \in LayoutsOf /\ Len(F(ws)) = 8  BY <1>2, MembersOfF
<1> QED  BY <1>2, <1>4, <1>6, <1>7 DEF ws

LEMMA WidestIs ==
  ASSUME NEW layout \in LayoutsOf
  PROVE  Widest(layout) \in 1..8
<1> DEFINE S == {layout[i][1] : i \in DOMAIN layout} \cup {1}
<1>1. S \in SUBSET (1..8) /\ S # {}
  <2>1. \A i \in DOMAIN layout : layout[i][1] \in Widths  BY RunsAre
  <2>2. \A w \in Widths : w \in 1..8  BY DEF Widths
  <2>3. 1 \in 1..8 /\ 1 \in S  OBVIOUS
  <2> QED  BY <2>1, <2>2, <2>3
<1> HIDE DEF S
<1>2. Max(S) \in S  BY <1>1, Greatest
<1> QED  BY <1>1, <1>2 DEF Widest, S

\* What sizeof adds to the bytes of the fields
LEMMA SizeBetween ==
  ASSUME NEW layout \in LayoutsOf
  PROVE  /\ SizeOf(layout) \in Nat /\ ByteCount(layout) \in Nat
         /\ ByteCount(layout) <= SizeOf(layout)
         /\ SizeOf(layout) <= ByteCount(layout) + 7 * (Len(layout) + 1)
<1> DEFINE m == Len(layout)
<1>1. m \in Nat /\ \A n \in 1..m : layout[n][1] \in Widths /\ layout[n][2] \in Nat  BY RunsAre
<1>2. PICK u \in [0..m -> Nat] : Counted(u, layout) /\ ByteCount(layout) = u[m]  BY BytesCounted
<1>3. PICK v \in [0..m -> Nat] :
        Placed(v, layout) /\ SizeOf(layout) = Aligned(v[m], Widest(layout))
  BY MembersPlaced
<1> HIDE DEF m
<1>4. u[0] = 0 /\ \A n \in 1..m : u[n] = u[n - 1] + layout[n][1] * layout[n][2]
  BY <1>2 DEF Counted, m
<1>5. v[0] = 0
      /\ \A n \in 1..m : v[n] = Aligned(v[n - 1], layout[n][1]) + layout[n][1] * layout[n][2]
  BY <1>3 DEF Placed, m
<1> DEFINE T == {n \in 0..m : u[n] <= v[n] /\ v[n] <= u[n] + 7 * n}
<1>6. 0 \in T  BY <1>1, <1>4, <1>5
<1>7. ASSUME NEW n \in 1..m, n - 1 \in T  PROVE n \in T
  <2> DEFINE w == layout[n][1]
             b == w * layout[n][2]
             a == Aligned(v[n - 1], w)
  <2>1. w \in 1..8 /\ b \in Nat
    <3>1. w \in Widths /\ layout[n][2] \in Nat  BY <1>1
    <3> HIDE DEF w
    <3>2. w \in 1..8 /\ w \in Nat  BY <3>1 DEF Widths
    <3> QED  BY <3>1, <3>2
  <2>2. n - 1 \in 0..m /\ n \in 0..m /\ n \in Int  BY <1>1
  <2>3. u[n - 1] \in Nat /\ v[n - 1] \in Nat  BY <1>2, <1>3, <2>2
  <2>4. u[n - 1] <= v[n - 1] /\ v[n - 1] <= u[n - 1] + 7 * (n - 1)  BY <1>7
  <2>5. u[n] = u[n - 1] + b /\ v[n] = a + b  BY <1>4, <1>5
  <2> HIDE DEF w, b
  <2>6. a \in Nat /\ v[n - 1] <= a /\ a <= v[n - 1] + w - 1
    <3>1. w \in Nat \ {0}  BY <2>1
    <3> QED  BY <2>3, <3>1, Alignment
  <2> HIDE DEF a
  <2>7. u[n] <= v[n]  BY <2>1, <2>3, <2>4, <2>5, <2>6
  <2>8. v[n] <= u[n] + 7 * n  BY <2>1, <2>2, <2>3, <2>4, <2>5, <2>6
  <2> QED  BY <2>2, <2>7, <2>8
<1> HIDE DEF T
<1>8. \A n \in 0..m : n \in T  BY <1>1, <1>6, <1>7, Induction
<1>9. u[m] <= v[m] /\ v[m] <= u[m] + 7 * m
  <2>1. m \in T  BY <1>1, <1>8
  <2> QED  BY <2>1 DEF T
<1> DEFINE w == Widest(layout)
           z == Aligned(v[m], w)
<1>10. u[m] \in Nat /\ v[m] \in Nat  BY <1>1, <1>2, <1>3
<1>11. w \in 1..8 /\ w \in Nat \ {0}  BY WidestIs
<1> HIDE DEF w
<1>12. z \in Nat /\ v[m] <= z /\ z <= v[m] + w - 1  BY <1>10, <1>11, Alignment
<1> HIDE DEF z
<1>13. u[m] <= z /\ z <= u[m] + 7 * (m + 1)
  <2> DEFINE x == u[m]
             y == v[m]
  <2>1. x \in Nat /\ y \in Nat /\ x <= y /\ y <= x + 7 * m /\ y <= z /\ z <= y + w - 1
    BY <1>9, <1>10, <1>12
  <2> HIDE DEF x, y
  <2>2. x <= z  BY <1>12, <2>1
  <2>3. z <= x + 7 * m + 7  BY <1>1, <1>11, <1>12, <2>1
  <2>4. x + 7 * m + 7 = x + 7 * (m + 1)  BY <1>1, <2>1
  <2> QED  BY <2>2, <2>3, <2>4 DEF x
<1>14. SizeOf(layout) = z  BY <1>3 DEF z, w
<1>15. ByteCount(layout) = u[m]  BY <1>2
<1> QED  BY <1>10, <1>12, <1>13, <1>14, <1>15 DEF m

-----------------------------------------------------------------------------
(* The tables of the protocol                                              *)

LEMMA Overlaid ==
  ASSUME NEW f, NEW g, DOMAIN f \cap DOMAIN g = {}
  PROVE  /\ DOMAIN (f ++ g) = DOMAIN f \cup DOMAIN g
         /\ \A x \in DOMAIN f : (f ++ g)[x] = f[x]
         /\ \A x \in DOMAIN g : (f ++ g)[x] = g[x]
  BY DEF ++

\* The structures
LEMMA StructsOverlaid ==
  /\ DOMAIN Structs = DOMAIN SystemStructs \cup DOMAIN MeterStructs
                      \cup DOMAIN WirelessStructs \cup
                    DOMAIN RelayStructs \cup DOMAIN OtherStructs
  /\ \A t \in DOMAIN SystemStructs : Structs[t] = SystemStructs[t]
  /\ \A t \in DOMAIN MeterStructs : Structs[t] = MeterStructs[t]
  /\ \A t \in DOMAIN WirelessStructs : Structs[t] = WirelessStructs[t]
  /\ \A t \in DOMAIN RelayStructs : Structs[t] = RelayStructs[t]
  /\ \A t \in DOMAIN OtherStructs : Structs[t] = OtherStructs[t]
<1>1. DOMAIN SystemStructs = 
          {"client_info", "connection_status", "identify", "update_installedfw", "update_start",
          "update_status", "update_install"}
  BY DEF SystemStructs
<1>2. DOMAIN MeterStructs = 
          {"meter_current_limit", "meter_alarms", "energyprice_day", "energyprice_day_get",
          "energyprice_price_threshold", "energyprice_cheap_period",
          "energyprice_active_price_limit", "energyprice_tariff"}
  BY DEF MeterStructs
<1>3. DOMAIN WirelessStructs = 
          {"wireless_enable", "wireless_credentials", "wireless_tx_power", "wireless_channel"}
  BY DEF WirelessStructs
<1>4. DOMAIN RelayStructs = 
          {"relay_mode", "relay_state", "relay_default_state", "relay_pwm",
          "relay_inverted_output", "relay_one_shot", "relay_button_config", "relay_schedule"}
  BY DEF RelayStructs
<1>5. DOMAIN OtherStructs = 
          {"environment_sunny_time", "environment_cloud_cover", "environment_position",
          "diag_coredump_start", "diag_coredump_body", "diag_coredump_end", "status", "get"}
  BY DEF OtherStructs
<1> DEFINE upto2 == SystemStructs ++ MeterStructs
           upto3 == upto2 ++ WirelessStructs
           upto4 == upto3 ++ RelayStructs
           upto5 == upto4 ++ OtherStructs
<1>6. DOMAIN SystemStructs \cap DOMAIN MeterStructs = {}
  BY <1>1, <1>2
<1>7. /\ DOMAIN upto2 = DOMAIN SystemStructs \cup DOMAIN MeterStructs
      /\ \A t \in DOMAIN SystemStructs : upto2[t] = SystemStructs[t]
      /\ \A t \in DOMAIN MeterStructs : upto2[t] = MeterStructs[t]
  BY <1>6, Overlaid
<1> HIDE DEF upto2
<1>8. DOMAIN upto2 \cap DOMAIN WirelessStructs = {}
  BY <1>1, <1>2, <1>3, <1>7
<1>9. /\ DOMAIN upto3 = DOMAIN SystemStructs \cup DOMAIN MeterStructs \cup DOMAIN WirelessStructs
      /\ \A t \in DOMAIN SystemStructs : upto3[t] = SystemStructs[t]
      /\ \A t \in DOMAIN MeterStructs : upto3[t] = MeterStructs[t]
      /\ \A t \in DOMAIN WirelessStructs : upto3[t] = WirelessStructs[t]
  <2>1. /\ DOMAIN upto3 = DOMAIN upto2 \cup DOMAIN WirelessStructs
        /\ \A t \in DOMAIN upto2 : upto3[t] = upto2[t]
        /\ \A t \in DOMAIN WirelessStructs : upto3[t] = WirelessStructs[t]
    BY <1>8, Overlaid
  <2> QED  BY <1>7, <2>1
<1> HIDE DEF upto3
<1>10. DOMAIN upto3 \cap DOMAIN RelayStructs = {}
  BY <1>1, <1>2, <1>3, <1>4, <1>9
<1>11. /\ DOMAIN upto4 = DOMAIN SystemStructs \cup DOMAIN MeterStructs
                         \cup DOMAIN WirelessStructs \cup
              DOMAIN RelayStructs
       /\ \A t \in DOMAIN SystemStructs : upto4[t] = SystemStructs[t]
       /\ \A t \in DOMAIN MeterStructs : upto4[t] = MeterStructs[t]
       /\ \A t \in DOMAIN WirelessStructs : upto4[t] = WirelessStructs[t]
       /\ \A t \in DOMAIN RelayStructs : upto4[t] = RelayStructs[t]
  <2>1. /\ DOMAIN upto4 = DOMAIN upto3 \cup DOMAIN RelayStructs
        /\ \A t \in DOMAIN upto3 : upto4[t] = upto3[t]
        /\ \A t \in DOMAIN RelayStructs : upto4[t] = RelayStructs[t]
    BY <1>10, Overlaid
  <2> QED  BY <1>9, <2>1
<1> HIDE DEF upto4
<1>12. DOMAIN upto4 \cap DOMAIN OtherStructs = {}
  BY <1>1, <1>2, <1>3, <1>4, <1>5, <1>11
<1>13. /\ DOMAIN upto5 = DOMAIN SystemStructs \cup DOMAIN MeterStructs
                         \cup DOMAIN WirelessStructs \cup
              DOMAIN RelayStructs \cup DOMAIN OtherStructs
       /\ \A t \in DOMAIN SystemStructs : upto5[t] = SystemStructs[t]
       /\ \A t \in DOMAIN MeterStructs : upto5[t] = MeterStructs[t]
       /\ \A t \in DOMAIN WirelessStructs : upto5[t] = WirelessStructs[t]
       /\ \A t \in DOMAIN RelayStructs : upto5[t] = RelayStructs[t]
       /\ \A t \in DOMAIN OtherStructs : upto5[t] = OtherStructs[t]
  <2>1. /\ DOMAIN upto5 = DOMAIN upto4 \cup DOMAIN OtherStructs
        /\ \A t \in DOMAIN upto4 : upto5[t] = upto4[t]
        /\ \A t \in DOMAIN OtherStructs : upto5[t] = OtherStructs[t]
    BY <1>12, Overlaid
  <2> QED  BY <1>11, <2>1
<1> HIDE DEF upto5
<1>14. Structs = upto5  BY DEF Structs, upto2, upto3, upto4, upto5
<1> QED  BY <1>13, <1>14

\* What the serializers write
LEMMA SerializeOverlaid ==
  ASSUME NEW n
  PROVE  /\ DOMAIN Serialize(n) = DOMAIN SerializeSystem \cup DOMAIN SerializePrices \cup
                    DOMAIN SerializeWireless(n) \cup DOMAIN SerializeRelay(n) \cup
                    DOMAIN SerializeEnvironment(n) \cup DOMAIN SerializeMeter(n) \cup
                    DOMAIN SerializeDiag(n)
         /\ \A t \in DOMAIN SerializeSystem : Serialize(n)[t] = SerializeSystem[t]
         /\ \A t \in DOMAIN SerializePrices : Serialize(n)[t] = SerializePrices[t]
         /\ \A t \in DOMAIN SerializeWireless(n) : Serialize(n)[t] = SerializeWireless(n)[t]
         /\ \A t \in DOMAIN SerializeRelay(n) : Serialize(n)[t] = SerializeRelay(n)[t]
         /\ \A t \in DOMAIN SerializeEnvironment(n) : Serialize(n)[t] = SerializeEnvironment(n)[t]
         /\ \A t \in DOMAIN SerializeMeter(n) : Serialize(n)[t] = SerializeMeter(n)[t]
         /\ \A t \in DOMAIN SerializeDiag(n) : Serialize(n)[t] = SerializeDiag(n)[t]
<1>1. DOMAIN SerializeSystem = 
          {"client_info", "update_installedfw", "update_status"}
  BY DEF SerializeSystem
<1>2. DOMAIN SerializePrices = 
          {"energyprice_day_get", "energyprice_cheap_period", "energyprice_active_price_limit",
          "energyprice_tariff"}
  BY DEF SerializePrices
<1>3. DOMAIN SerializeWireless(n) = 
          {"wireless_status", "wireless_credentials", "wireless_tx_power", "wireless_channel"}
  BY DEF SerializeWireless
<1>4. DOMAIN SerializeRelay(n) = 
          {"relay_mode", "relay_default_state", "relay_state", "relay_pwm",
          "relay_inverted_output", "relay_one_shot", "relay_button_config", "relay_schedule",
          "relay_snapshots"}
  BY DEF SerializeRelay
<1>5. DOMAIN SerializeEnvironment(n) = 
          {"energyprice_price_threshold", "environment_sunny_time", "environment_cloud_cover",
          "environment_position"}
  BY DEF SerializeEnvironment
<1>6. DOMAIN SerializeMeter(n) = 
          {"meter_measurement", "meter_measurement_history", "meter_current_limit",
          "meter_alarms", "energy_accumulated", "energy_history"}
  BY DEF SerializeMeter
<1>7. DOMAIN SerializeDiag(n) = 
          {"diag_coredump_start", "diag_coredump_body", "diag_coredump_end", "diag_debug_info",
          "diag_logs_settings", "status"}
  BY DEF SerializeDiag
<1> DEFINE upto2 == SerializeSystem ++ SerializePrices
           upto3 == upto2 ++ SerializeWireless(n)
           upto4 == upto3 ++ SerializeRelay(n)
           upto5 == upto4 ++ SerializeEnvironment(n)
           upto6 == upto5 ++ SerializeMeter(n)
           upto7 == upto6 ++ SerializeDiag(n)
<1>8. DOMAIN SerializeSystem \cap DOMAIN SerializePrices = {}
  BY <1>1, <1>2
<1>9. /\ DOMAIN upto2 = DOMAIN SerializeSystem \cup DOMAIN SerializePrices
      /\ \A t \in DOMAIN SerializeSystem : upto2[t] = SerializeSystem[t]
      /\ \A t \in DOMAIN SerializePrices : upto2[t] = SerializePrices[t]
  BY <1>8, Overlaid
<1> HIDE DEF upto2
<1>10. DOMAIN upto2 \cap DOMAIN SerializeWireless(n) = {}
  BY <1>1, <1>2, <1>3, <1>9
<1>11. /\ DOMAIN upto3 = DOMAIN SerializeSystem \cup DOMAIN SerializePrices
                         \cup DOMAIN SerializeWireless(n)
       /\ \A t \in DOMAIN SerializeSystem : upto3[t] = SerializeSystem[t]
       /\ \A t \in DOMAIN SerializePrices : upto3[t] = SerializePrices[t]
       /\ \A t \in DOMAIN SerializeWireless(n) : upto3[t] = SerializeWireless(n)[t]
  <2>1. /\ DOMAIN upto3 = DOMAIN upto2 \cup DOMAIN SerializeWireless(n)
        /\ \A t \in DOMAIN upto2 : upto3[t] = upto2[t]
        /\ \A t \in DOMAIN SerializeWireless(n) : upto3[t] = SerializeWireless(n)[t]
    BY <1>10, Overlaid
  <2> QED  BY <1>9, <2>1
<1> HIDE DEF upto3
<1>12. DOMAIN upto3 \cap DOMAIN SerializeRelay(n) = {}
  BY <1>1, <1>2, <1>3, <1>4, <1>11
<1>13. /\ DOMAIN upto4 = DOMAIN SerializeSystem \cup DOMAIN SerializePrices
                         \cup DOMAIN SerializeWireless(n)
              \cup DOMAIN SerializeRelay(n)
       /\ \A t \in DOMAIN SerializeSystem : upto4[t] = SerializeSystem[t]
       /\ \A t \in DOMAIN SerializePrices : upto4[t] = SerializePrices[t]
       /\ \A t \in DOMAIN SerializeWireless(n) : upto4[t] = SerializeWireless(n)[t]
       /\ \A t \in DOMAIN SerializeRelay(n) : upto4[t] = SerializeRelay(n)[t]
  <2>1. /\ DOMAIN upto4 = DOMAIN upto3 \cup DOMAIN SerializeRelay(n)
        /\ \A t \in DOMAIN upto3 : upto4[t] = upto3[t]
        /\ \A t \in DOMAIN SerializeRelay(n) : upto4[t] = SerializeRelay(n)[t]
    BY <1>12, Overlaid
  <2> QED  BY <1>11, <2>1
<1> HIDE DEF upto4
<1>14. DOMAIN upto4 \cap DOMAIN SerializeEnvironment(n) = {}
  BY <1>1, <1>2, <1>3, <1>4, <1>5, <1>13
<1>15. /\ DOMAIN upto5 = DOMAIN SerializeSystem \cup DOMAIN SerializePrices
                         \cup DOMAIN SerializeWireless(n)
              \cup DOMAIN SerializeRelay(n) \cup DOMAIN SerializeEnvironment(n)
       /\ \A t \in DOMAIN SerializeSystem : upto5[t] = SerializeSystem[t]
       /\ \A t \in DOMAIN SerializePrices : upto5[t] = SerializePrices[t]
       /\ \A t \in DOMAIN SerializeWireless(n) : upto5[t] = SerializeWireless(n)[t]
       /\ \A t \in DOMAIN SerializeRelay(n) : upto5[t] = SerializeRelay(n)[t]
       /\ \A t \in DOMAIN SerializeEnvironment(n) : upto5[t] = SerializeEnvironment(n)[t]
  <2>1. /\ DOMAIN upto5 = DOMAIN upto4 \cup DOMAIN SerializeEnvironment(n)
        /\ \A t \in DOMAIN upto4 : upto5[t] = upto4[t]
        /\ \A t \in DOMAIN SerializeEnvironment(n) : upto5[t] = SerializeEnvironment(n)[t]
    BY <1>14, Overlaid
  <2> QED  BY <1>13, <2>1
<1> HIDE DEF upto5
<1>16. DOMAIN upto5 \cap DOMAIN SerializeMeter(n) = {}
  BY <1>1, <1>2, <1>3, <1>4, <1>5, <1>6, <1>15
<1>17. /\ DOMAIN upto6 = DOMAIN SerializeSystem \cup DOMAIN SerializePrices
                         \cup DOMAIN SerializeWireless(n)
              \cup DOMAIN SerializeRelay(n) \cup DOMAIN SerializeEnvironment(n) \cup DOMAIN
              SerializeMeter(n)
       /\ \A t \in DOMAIN SerializeSystem : upto6[t] = SerializeSystem[t]
       /\ \A t \in DOMAIN SerializePrices : upto6[t] = SerializePrices[t]
       /\ \A t \in DOMAIN SerializeWireless(n) : upto6[t] = SerializeWireless(n)[t]
       /\ \A t \in DOMAIN SerializeRelay(n) : upto6[t] = SerializeRelay(n)[t]
       /\ \A t \in DOMAIN SerializeEnvironment(n) : upto6[t] = SerializeEnvironment(n)[t]
       /\ \A t \in DOMAIN SerializeMeter(n) : upto6[t] = SerializeMeter(n)[t]
  <2>1. /\ DOMAIN upto6 = DOMAIN upto5 \cup DOMAIN SerializeMeter(n)
        /\ \A t \in DOMAIN upto5 : upto6[t] = upto5[t]
        /\ \A t \in DOMAIN SerializeMeter(n) : upto6[t] = SerializeMeter(n)[t]
    BY <1>16, Overlaid
  <2> QED  BY <1>15, <2>1
<1> HIDE DEF upto6
<1>18. DOMAIN upto6 \cap DOMAIN SerializeDiag(n) = {}
  BY <1>1, <1>2, <1>3, <1>4, <1>5, <1>6, <1>7, <1>17
<1>19. /\ DOMAIN upto7 = DOMAIN SerializeSystem \cup DOMAIN SerializePrices
                         \cup DOMAIN SerializeWireless(n)
              \cup DOMAIN SerializeRelay(n) \cup DOMAIN SerializeEnvironment(n) \cup DOMAIN
              SerializeMeter(n) \cup DOMAIN SerializeDiag(n)
       /\ \A t \in DOMAIN SerializeSystem : upto7[t] = SerializeSystem[t]
       /\ \A t \in DOMAIN SerializePrices : upto7[t] = SerializePrices[t]
       /\ \A t \in DOMAIN SerializeWireless(n) : upto7[t] = SerializeWireless(n)[t]
       /\ \A t \in DOMAIN SerializeRelay(n) : upto7[t] = SerializeRelay(n)[t]
       /\ \A t \in DOMAIN SerializeEnvironment(n) : upto7[t] = SerializeEnvironment(n)[t]
       /\ \A t \in DOMAIN SerializeMeter(n) : upto7[t] = SerializeMeter(n)[t]
       /\ \A t \in DOMAIN SerializeDiag(n) : upto7[t] = SerializeDiag(n)[t]
  <2>1. /\ DOMAIN upto7 = DOMAIN upto6 \cup DOMAIN SerializeDiag(n)
        /\ \A t \in DOMAIN upto6 : upto7[t] = upto6[t]
        /\ \A t \in DOMAIN SerializeDiag(n) : upto7[t] = SerializeDiag(n)[t]
    BY <1>18, Overlaid
  <2> QED  BY <1>17, <2>1
<1> HIDE DEF upto7
<1>20. Serialize(n) = upto7  BY DEF Serialize, upto2, upto3, upto4, upto5, upto6, upto7
<1> QED  BY <1>19, <1>20

\* The buffers of the senders
LEMMA BuffersOverlaid ==
  ASSUME NEW n
  PROVE  /\ DOMAIN Buffers(n) = DOMAIN SystemBuffers \cup DOMAIN WirelessBuffers(n)
                                \cup DOMAIN PriceBuffers
                    \cup DOMAIN RelayBuffers(n) \cup DOMAIN MeterBuffers(n) \cup
                    DOMAIN DiagBuffers(n)
         /\ \A t \in DOMAIN SystemBuffers : Buffers(n)[t] = SystemBuffers[t]
         /\ \A t \in DOMAIN WirelessBuffers(n) : Buffers(n)[t] = WirelessBuffers(n)[t]
         /\ \A t \in DOMAIN PriceBuffers : Buffers(n)[t] = PriceBuffers[t]
         /\ \A t \in DOMAIN RelayBuffers(n) : Buffers(n)[t] = RelayBuffers(n)[t]
         /\ \A t \in DOMAIN MeterBuffers(n) : Buffers(n)[t] = MeterBuffers(n)[t]
         /\ \A t \in DOMAIN DiagBuffers(n) : Buffers(n)[t] = DiagBuffers(n)[t]
<1>1. DOMAIN SystemBuffers = 
          {"update_installedfw", "update_status", "client_info"}
  BY DEF SystemBuffers, StructBuffers, ++
<1>2. DOMAIN WirelessBuffers(n) = 
          {"wireless_status", "wireless_credentials", "wireless_tx_power", "wireless_channel"}
  BY DEF WirelessBuffers
<1>3. DOMAIN PriceBuffers = 
          {"energyprice_day_get", "energyprice_price_threshold", "energyprice_cheap_period",
          "energyprice_active_price_limit", "environment_sunny_time", "energyprice_tariff"}
  BY DEF PriceBuffers, StructBuffers
<1>4. DOMAIN RelayBuffers(n) = 
          {"relay_mode", "relay_state", "relay_default_state", "relay_pwm", "relay_button_config",
          "relay_schedule", "relay_one_shot", "relay_inverted_output", "relay_snapshots"}
  BY DEF RelayBuffers, StructBuffers, ++
<1>5. DOMAIN MeterBuffers(n) = 
          {"environment_position", "meter_measurement", "meter_measurement_history",
          "meter_current_limit", "meter_alarms", "energy_accumulated", "energy_history"}
  BY DEF MeterBuffers, StructBuffers, ++
<1>6. DOMAIN DiagBuffers(n) = 
          {"diag_coredump_start", "diag_coredump_body", "diag_coredump_end", "status",
          "diag_debug_info", "diag_logs_settings"}
  BY DEF DiagBuffers, StructBuffers, ++
<1> DEFINE upto2 == SystemBuffers ++ WirelessBuffers(n)
           upto3 == upto2 ++ PriceBuffers
           upto4 == upto3 ++ RelayBuffers(n)
           upto5 == upto4 ++ MeterBuffers(n)
           upto6 == upto5 ++ DiagBuffers(n)
<1>7. DOMAIN SystemBuffers \cap DOMAIN WirelessBuffers(n) = {}
  BY <1>1, <1>2
<1>8. /\ DOMAIN upto2 = DOMAIN SystemBuffers \cup DOMAIN WirelessBuffers(n)
      /\ \A t \in DOMAIN SystemBuffers : upto2[t] = SystemBuffers[t]
      /\ \A t \in DOMAIN WirelessBuffers(n) : upto2[t] = WirelessBuffers(n)[t]
  BY <1>7, Overlaid
<1> HIDE DEF upto2
<1>9. DOMAIN upto2 \cap DOMAIN PriceBuffers = {}
  BY <1>1, <1>2, <1>3, <1>8
<1>10. /\ DOMAIN upto3 = DOMAIN SystemBuffers \cup DOMAIN WirelessBuffers(n)
                         \cup DOMAIN PriceBuffers
       /\ \A t \in DOMAIN SystemBuffers : upto3[t] = SystemBuffers[t]
       /\ \A t \in DOMAIN WirelessBuffers(n) : upto3[t] = WirelessBuffers(n)[t]
       /\ \A t \in DOMAIN PriceBuffers : upto3[t] = PriceBuffers[t]
  <2>1. /\ DOMAIN upto3 = DOMAIN upto2 \cup DOMAIN PriceBuffers
        /\ \A t \in DOMAIN upto2 : upto3[t] = upto2[t]
        /\ \A t \in DOMAIN PriceBuffers : upto3[t] = PriceBuffers[t]
    BY <1>9, Overlaid
  <2> QED  BY <1>8, <2>1
<1> HIDE DEF upto3
<1>11. DOMAIN upto3 \cap DOMAIN RelayBuffers(n) = {}
  BY <1>1, <1>2, <1>3, <1>4, <1>10
<1>12. /\ DOMAIN upto4 = DOMAIN SystemBuffers \cup DOMAIN WirelessBuffers(n)
                         \cup DOMAIN PriceBuffers \cup
              DOMAIN RelayBuffers(n)
       /\ \A t \in DOMAIN SystemBuffers : upto4[t] = SystemBuffers[t]
       /\ \A t \in DOMAIN WirelessBuffers(n) : upto4[t] = WirelessBuffers(n)[t]
       /\ \A t \in DOMAIN PriceBuffers : upto4[t] = PriceBuffers[t]
       /\ \A t \in DOMAIN RelayBuffers(n) : upto4[t] = RelayBuffers(n)[t]
  <2>1. /\ DOMAIN upto4 = DOMAIN upto3 \cup DOMAIN RelayBuffers(n)
        /\ \A t \in DOMAIN upto3 : upto4[t] = upto3[t]
        /\ \A t \in DOMAIN RelayBuffers(n) : upto4[t] = RelayBuffers(n)[t]
    BY <1>11, Overlaid
  <2> QED  BY <1>10, <2>1
<1> HIDE DEF upto4
<1>13. DOMAIN upto4 \cap DOMAIN MeterBuffers(n) = {}
  BY <1>1, <1>2, <1>3, <1>4, <1>5, <1>12
<1>14. /\ DOMAIN upto5 = DOMAIN SystemBuffers \cup DOMAIN WirelessBuffers(n)
                         \cup DOMAIN PriceBuffers \cup
              DOMAIN RelayBuffers(n) \cup DOMAIN MeterBuffers(n)
       /\ \A t \in DOMAIN SystemBuffers : upto5[t] = SystemBuffers[t]
       /\ \A t \in DOMAIN WirelessBuffers(n) : upto5[t] = WirelessBuffers(n)[t]
       /\ \A t \in DOMAIN PriceBuffers : upto5[t] = PriceBuffers[t]
       /\ \A t \in DOMAIN RelayBuffers(n) : upto5[t] = RelayBuffers(n)[t]
       /\ \A t \in DOMAIN MeterBuffers(n) : upto5[t] = MeterBuffers(n)[t]
  <2>1. /\ DOMAIN upto5 = DOMAIN upto4 \cup DOMAIN MeterBuffers(n)
        /\ \A t \in DOMAIN upto4 : upto5[t] = upto4[t]
        /\ \A t \in DOMAIN MeterBuffers(n) : upto5[t] = MeterBuffers(n)[t]
    BY <1>13, Overlaid
  <2> QED  BY <1>12, <2>1
<1> HIDE DEF upto5
<1>15. DOMAIN upto5 \cap DOMAIN DiagBuffers(n) = {}
  BY <1>1, <1>2, <1>3, <1>4, <1>5, <1>6, <1>14
<1>16. /\ DOMAIN upto6 = DOMAIN SystemBuffers \cup DOMAIN WirelessBuffers(n)
                         \cup DOMAIN PriceBuffers \cup
              DOMAIN RelayBuffers(n) \cup DOMAIN MeterBuffers(n) \cup DOMAIN DiagBuffers(n)
       /\ \A t \in DOMAIN SystemBuffers : upto6[t] = SystemBuffers[t]
       /\ \A t \in DOMAIN WirelessBuffers(n) : upto6[t] = WirelessBuffers(n)[t]
       /\ \A t \in DOMAIN PriceBuffers : upto6[t] = PriceBuffers[t]
       /\ \A t \in DOMAIN RelayBuffers(n) : upto6[t] = RelayBuffers(n)[t]
       /\ \A t \in DOMAIN MeterBuffers(n) : upto6[t] = MeterBuffers(n)[t]
       /\ \A t \in DOMAIN DiagBuffers(n) : upto6[t] = DiagBuffers(n)[t]
  <2>1. /\ DOMAIN upto6 = DOMAIN upto5 \cup DOMAIN DiagBuffers(n)
        /\ \A t \in DOMAIN upto5 : upto6[t] = upto5[t]
        /\ \A t \in DOMAIN DiagBuffers(n) : upto6[t] = DiagBuffers(n)[t]
    BY <1>15, Overlaid
  <2> QED  BY <1>14, <2>1
<1> HIDE DEF upto6
<1>17. Buffers(n) = upto6  BY DEF Buffers, upto2, upto3, upto4, upto5, upto6
<1> QED  BY <1>16, <1>17

\* What the parsers ask for
LEMMA ParseOverlaid ==
  ASSUME NEW n
  PROVE  /\ DOMAIN Parse(n) = DOMAIN ParseSystem(n) \cup DOMAIN ParseMeter
                              \cup DOMAIN ParseWireless \cup
                    DOMAIN ParseRelay(n) \cup DOMAIN ParseOther
         /\ \A t \in DOMAIN ParseSystem(n) : Parse(n)[t] = ParseSystem(n)[t]
         /\ \A t \in DOMAIN ParseMeter : Parse(n)[t] = ParseMeter[t]
         /\ \A t \in DOMAIN ParseWireless : Parse(n)[t] = ParseWireless[t]
         /\ \A t \in DOMAIN ParseRelay(n) : Parse(n)[t] = ParseRelay(n)[t]
         /\ \A t \in DOMAIN ParseOther : Parse(n)[t] = ParseOther[t]
<1>1. DOMAIN ParseSystem(n) = 
          {"connection_status", "identify", "update_start", "update_install"}
  BY DEF ParseSystem
<1>2. DOMAIN ParseMeter = 
          {"meter_current_limit", "meter_alarms", "energyprice_day",
          "energyprice_price_threshold", "energyprice_cheap_period", "energyprice_tariff"}
  BY DEF ParseMeter
<1>3. DOMAIN ParseWireless = 
          {"wireless_enable", "wireless_credentials", "wireless_tx_power", "wireless_channel"}
  BY DEF ParseWireless
<1>4. DOMAIN ParseRelay(n) = 
          {"relay_mode", "relay_state", "relay_default_state", "relay_pwm",
          "relay_inverted_output", "relay_one_shot", "relay_button_config", "relay_schedule"}
  BY DEF ParseRelay
<1>5. DOMAIN ParseOther = 
          {"environment_sunny_time", "environment_cloud_cover", "environment_position", "status",
          "get"}
  BY DEF ParseOther
<1> DEFINE upto2 == ParseSystem(n) ++ ParseMeter
           upto3 == upto2 ++ ParseWireless
           upto4 == upto3 ++ ParseRelay(n)
           upto5 == upto4 ++ ParseOther
<1>6. DOMAIN ParseSystem(n) \cap DOMAIN ParseMeter = {}
  BY <1>1, <1>2
<1>7. /\ DOMAIN upto2 = DOMAIN ParseSystem(n) \cup DOMAIN ParseMeter
      /\ \A t \in DOMAIN ParseSystem(n) : upto2[t] = ParseSystem(n)[t]
      /\ \A t \in DOMAIN ParseMeter : upto2[t] = ParseMeter[t]
  BY <1>6, Overlaid
<1> HIDE DEF upto2
<1>8. DOMAIN upto2 \cap DOMAIN ParseWireless = {}
  BY <1>1, <1>2, <1>3, <1>7
<1>9. /\ DOMAIN upto3 = DOMAIN ParseSystem(n) \cup DOMAIN ParseMeter \cup DOMAIN ParseWireless
      /\ \A t \in DOMAIN ParseSystem(n) : upto3[t] = ParseSystem(n)[t]
      /\ \A t \in DOMAIN ParseMeter : upto3[t] = ParseMeter[t]
      /\ \A t \in DOMAIN ParseWireless : upto3[t] = ParseWireless[t]
  <2>1. /\ DOMAIN upto3 = DOMAIN upto2 \cup DOMAIN ParseWireless
        /\ \A t \in DOMAIN upto2 : upto3[t] = upto2[t]
        /\ \A t \in DOMAIN ParseWireless : upto3[t] = ParseWireless[t]
    BY <1>8, Overlaid
  <2> QED  BY <1>7, <2>1
<1> HIDE DEF upto3
<1>10. DOMAIN upto3 \cap DOMAIN ParseRelay(n) = {}
  BY <1>1, <1>2, <1>3, <1>4, <1>9
<1>11. /\ DOMAIN upto4 = DOMAIN ParseSystem(n) \cup DOMAIN ParseMeter
                         \cup DOMAIN ParseWireless \cup DOMAIN
              ParseRelay(n)
       /\ \A t \in DOMAIN ParseSystem(n) : upto4[t] = ParseSystem(n)[t]
       /\ \A t \in DOMAIN ParseMeter : upto4[t] = ParseMeter[t]
       /\ \A t \in DOMAIN ParseWireless : upto4[t] = ParseWireless[t]
       /\ \A t \in DOMAIN ParseRelay(n) : upto4[t] = ParseRelay(n)[t]
  <2>1. /\ DOMAIN upto4 = DOMAIN upto3 \cup DOMAIN ParseRelay(n)
        /\ \A t \in DOMAIN upto3 : upto4[t] = upto3[t]
        /\ \A t \in DOMAIN ParseRelay(n) : upto4[t] = ParseRelay(n)[t]
    BY <1>10, Overlaid
  <2> QED  BY <1>9, <2>1
<1> HIDE DEF upto4
<1>12. DOMAIN upto4 \cap DOMAIN ParseOther = {}
  BY <1>1, <1>2, <1>3, <1>4, <1>5, <1>11
<1>13. /\ DOMAIN upto5 = DOMAIN ParseSystem(n) \cup DOMAIN ParseMeter
                         \cup DOMAIN ParseWireless \cup DOMAIN
              ParseRelay(n) \cup DOMAIN ParseOther
       /\ \A t \in DOMAIN ParseSystem(n) : upto5[t] = ParseSystem(n)[t]
       /\ \A t \in DOMAIN ParseMeter : upto5[t] = ParseMeter[t]
       /\ \A t \in DOMAIN ParseWireless : upto5[t] = ParseWireless[t]
       /\ \A t \in DOMAIN ParseRelay(n) : upto5[t] = ParseRelay(n)[t]
       /\ \A t \in DOMAIN ParseOther : upto5[t] = ParseOther[t]
  <2>1. /\ DOMAIN upto5 = DOMAIN upto4 \cup DOMAIN ParseOther
        /\ \A t \in DOMAIN upto4 : upto5[t] = upto4[t]
        /\ \A t \in DOMAIN ParseOther : upto5[t] = ParseOther[t]
    BY <1>12, Overlaid
  <2> QED  BY <1>11, <2>1
<1> HIDE DEF upto5
<1>14. Parse(n) = upto5  BY DEF Parse, upto2, upto3, upto4, upto5
<1> QED  BY <1>13, <1>14

\* The structures that the received types are parsed into
LEMMA ReceivedOverlaid ==
  /\ DOMAIN Received = DOMAIN ReceivedSystem \cup DOMAIN ReceivedWireless
                       \cup DOMAIN ReceivedPrices
                    \cup DOMAIN ReceivedRelay \cup DOMAIN ReceivedOther
  /\ \A t \in DOMAIN ReceivedSystem : Received[t] = ReceivedSystem[t]
  /\ \A t \in DOMAIN ReceivedWireless : Received[t] = ReceivedWireless[t]
  /\ \A t \in DOMAIN ReceivedPrices : Received[t] = ReceivedPrices[t]
  /\ \A t \in DOMAIN ReceivedRelay : Received[t] = ReceivedRelay[t]
  /\ \A t \in DOMAIN ReceivedOther : Received[t] = ReceivedOther[t]
<1>1. DOMAIN ReceivedSystem = 
          {"connection_status", "identify", "update_start", "update_install"}
  BY DEF ReceivedSystem, Own
<1>2. DOMAIN ReceivedWireless = 
          {"wireless_enable", "wireless_set_credentials", "wireless_set_tx_power",
          "wireless_set_channel"}
  BY DEF ReceivedWireless
<1>3. DOMAIN ReceivedPrices = 
          {"energyprice_day", "energyprice_set_price_threshold", "energyprice_set_cheap_period",
          "energyprice_set_tariff"}
  BY DEF ReceivedPrices
<1>4. DOMAIN ReceivedRelay = 
          {"relay_set_mode", "relay_set_state", "relay_set_default_state", "relay_set_pwm",
          "relay_set_inverted_output", "relay_set_button_config", "relay_set_schedule",
          "relay_set_one_shot"}
  BY DEF ReceivedRelay
<1>5. DOMAIN ReceivedOther = 
          {"environment_set_sunny_time", "environment_cloud_cover", "environment_set_position",
          "meter_set_current_limit", "meter_clear_alarms", "status", "get"}
  BY DEF ReceivedOther
<1> DEFINE upto2 == ReceivedSystem ++ ReceivedWireless
           upto3 == upto2 ++ ReceivedPrices
           upto4 == upto3 ++ ReceivedRelay
           upto5 == upto4 ++ ReceivedOther
<1>6. DOMAIN ReceivedSystem \cap DOMAIN ReceivedWireless = {}
  BY <1>1, <1>2
<1>7. /\ DOMAIN upto2 = DOMAIN ReceivedSystem \cup DOMAIN ReceivedWireless
      /\ \A t \in DOMAIN ReceivedSystem : upto2[t] = ReceivedSystem[t]
      /\ \A t \in DOMAIN ReceivedWireless : upto2[t] = ReceivedWireless[t]
  BY <1>6, Overlaid
<1> HIDE DEF upto2
<1>8. DOMAIN upto2 \cap DOMAIN ReceivedPrices = {}
  BY <1>1, <1>2, <1>3, <1>7
<1>9. /\ DOMAIN upto3 = DOMAIN ReceivedSystem \cup DOMAIN ReceivedWireless
                        \cup DOMAIN ReceivedPrices
      /\ \A t \in DOMAIN ReceivedSystem : upto3[t] = ReceivedSystem[t]
      /\ \A t \in DOMAIN ReceivedWireless : upto3[t] = ReceivedWireless[t]
      /\ \A t \in DOMAIN ReceivedPrices : upto3[t] = ReceivedPrices[t]
  <2>1. /\ DOMAIN upto3 = DOMAIN upto2 \cup DOMAIN ReceivedPrices
        /\ \A t \in DOMAIN upto2 : upto3[t] = upto2[t]
        /\ \A t \in DOMAIN ReceivedPrices : upto3[t] = ReceivedPrices[t]
    BY <1>8, Overlaid
  <2> QED  BY <1>7, <2>1
<1> HIDE DEF upto3
<1>10. DOMAIN upto3 \cap DOMAIN ReceivedRelay = {}
  BY <1>1, <1>2, <1>3, <1>4, <1>9
<1>11. /\ DOMAIN upto4 = DOMAIN ReceivedSystem \cup DOMAIN ReceivedWireless
                         \cup DOMAIN ReceivedPrices \cup
              DOMAIN ReceivedRelay
       /\ \A t \in DOMAIN ReceivedSystem : upto4[t] = ReceivedSystem[t]
       /\ \A t \in DOMAIN ReceivedWireless : upto4[t] = ReceivedWireless[t]
       /\ \A t \in DOMAIN ReceivedPrices : upto4[t] = ReceivedPrices[t]
       /\ \A t \in DOMAIN ReceivedRelay : upto4[t] = ReceivedRelay[t]
  <2>1. /\ DOMAIN upto4 = DOMAIN upto3 \cup DOMAIN ReceivedRelay
        /\ \A t \in DOMAIN upto3 : upto4[t] = upto3[t]
        /\ \A t \in DOMAIN ReceivedRelay : upto4[t] = ReceivedRelay[t]
    BY <1>10, Overlaid
  <2> QED  BY <1>9, <2>1
<1> HIDE DEF upto4
<1>12. DOMAIN upto4 \cap DOMAIN ReceivedOther = {}
  BY <1>1, <1>2, <1>3, <1>4, <1>5, <1>11
<1>13. /\ DOMAIN upto5 = DOMAIN ReceivedSystem \cup DOMAIN ReceivedWireless
                         \cup DOMAIN ReceivedPrices \cup
              DOMAIN ReceivedRelay \cup DOMAIN ReceivedOther
       /\ \A t \in DOMAIN ReceivedSystem : upto5[t] = ReceivedSystem[t]
       /\ \A t \in DOMAIN ReceivedWireless : upto5[t] = ReceivedWireless[t]
       /\ \A t \in DOMAIN ReceivedPrices : upto5[t] = ReceivedPrices[t]
       /\ \A t \in DOMAIN ReceivedRelay : upto5[t] = ReceivedRelay[t]
       /\ \A t \in DOMAIN ReceivedOther : upto5[t] = ReceivedOther[t]
  <2>1. /\ DOMAIN upto5 = DOMAIN upto4 \cup DOMAIN ReceivedOther
        /\ \A t \in DOMAIN upto4 : upto5[t] = upto4[t]
        /\ \A t \in DOMAIN ReceivedOther : upto5[t] = ReceivedOther[t]
    BY <1>12, Overlaid
  <2> QED  BY <1>11, <2>1
<1> HIDE DEF upto5
<1>14. Received = upto5  BY DEF Received, upto2, upto3, upto4, upto5
<1> QED  BY <1>13, <1>14

\* What the handlers return
LEMMA HandlersOverlaid ==
  /\ DOMAIN Handlers = DOMAIN SystemHandlers \cup DOMAIN WirelessHandlers
                       \cup DOMAIN OtherHandlers
  /\ \A t \in DOMAIN SystemHandlers : Handlers[t] = SystemHandlers[t]
  /\ \A t \in DOMAIN WirelessHandlers : Handlers[t] = WirelessHandlers[t]
  /\ \A t \in DOMAIN OtherHandlers : Handlers[t] = OtherHandlers[t]
<1>1. DOMAIN SystemHandlers = 
          {"connection_status", "reboot", "factory_reset", "identify", "update_start",
          "update_install"}
  BY DEF SystemHandlers
<1>2. DOMAIN WirelessHandlers = 
          {"wireless_enable", "wireless_set_credentials", "wireless_set_tx_power",
          "wireless_set_channel"}
  BY DEF WirelessHandlers
<1>3. DOMAIN OtherHandlers = 
          {"environment_cloud_cover", "environment_set_position", "diag_coredump_confirmed",
          "status"}
  BY DEF OtherHandlers
<1> DEFINE upto2 == SystemHandlers ++ WirelessHandlers
           upto3 == upto2 ++ OtherHandlers
<1>4. DOMAIN SystemHandlers \cap DOMAIN WirelessHandlers = {}
  BY <1>1, <1>2
<1>5. /\ DOMAIN upto2 = DOMAIN SystemHandlers \cup DOMAIN WirelessHandlers
      /\ \A t \in DOMAIN SystemHandlers : upto2[t] = SystemHandlers[t]
      /\ \A t \in DOMAIN WirelessHandlers : upto2[t] = WirelessHandlers[t]
  BY <1>4, Overlaid
<1> HIDE DEF upto2
<1>6. DOMAIN upto2 \cap DOMAIN OtherHandlers = {}
  BY <1>1, <1>2, <1>3, <1>5
<1>7. /\ DOMAIN upto3 = DOMAIN SystemHandlers \cup DOMAIN WirelessHandlers
                        \cup DOMAIN OtherHandlers
      /\ \A t \in DOMAIN SystemHandlers : upto3[t] = SystemHandlers[t]
      /\ \A t \in DOMAIN WirelessHandlers : upto3[t] = WirelessHandlers[t]
      /\ \A t \in DOMAIN OtherHandlers : upto3[t] = OtherHandlers[t]
  <2>1. /\ DOMAIN upto3 = DOMAIN upto2 \cup DOMAIN OtherHandlers
        /\ \A t \in DOMAIN upto2 : upto3[t] = upto2[t]
        /\ \A t \in DOMAIN OtherHandlers : upto3[t] = OtherHandlers[t]
    BY <1>6, Overlaid
  <2> QED  BY <1>5, <2>1
<1> HIDE DEF upto3
<1>8. Handlers = upto3  BY DEF Handlers, upto2, upto3
<1> QED  BY <1>7, <1>8

\* A layout and its bytes
HasBytes(layout, b) == layout \in LayoutsOf /\ ByteCount(layout) = b

LEMMA ThenArray ==
  ASSUME NEW layout, NEW b \in Nat, HasBytes(layout, b), NEW n \in Nat, NEW w \in Widths
  PROVE  HasBytes(layout \o Array(n, w), b + w * n)
<1>1. Array(n, w) \in LayoutsOf /\ ByteCount(Array(n, w)) = w * n  BY BytesOfArray
<1>2. layout \in LayoutsOf /\ ByteCount(layout) = b  BY DEF HasBytes
<1>3. layout \o Array(n, w) \in LayoutsOf  BY <1>1, <1>2, LayoutsJoined
<1>4. ByteCount(layout \o Array(n, w)) = ByteCount(layout) + ByteCount(Array(n, w))
  BY <1>1, <1>2, BytesJoined
<1> QED  BY <1>1, <1>2, <1>3, <1>4 DEF HasBytes

LEMMA ThenShort ==
  ASSUME NEW layout, NEW b \in Nat, HasBytes(layout, b)
  PROVE  HasBytes(layout \o F(<<2>>), b + 2)
<1>1. 2 \in Widths  BY DEF Widths
<1>2. F(<<2>>) \in LayoutsOf /\ ByteCount(F(<<2>>)) = 2  BY <1>1, BytesOf1
<1>3. layout \in LayoutsOf /\ ByteCount(layout) = b  BY DEF HasBytes
<1>4. layout \o F(<<2>>) \in LayoutsOf  BY <1>2, <1>3, LayoutsJoined
<1>5. ByteCount(layout \o F(<<2>>)) = ByteCount(layout) + ByteCount(F(<<2>>))
  BY <1>2, <1>3, BytesJoined
<1> QED  BY <1>2, <1>3, <1>4, <1>5 DEF HasBytes

LEMMA ClientInfoBytes == HasBytes(F(<<2, 2, 8, 4, 4, 1, 4, 1, 1, 1, 2, 4>>), 34)
<1> DEFINE ws == <<2, 2, 8, 4, 4, 1, 4, 1, 1, 1, 2, 4>>
<1>1. ws \in Seq(Widths) /\ Len(ws) = 12
  <2>1. ws \in Seq({1, 2, 4, 8}) /\ Len(ws) = 12  OBVIOUS
  <2> QED  BY <2>1 DEF Widths
<1>2. /\ ws[1] = 2 /\ ws[2] = 2 /\ ws[3] = 8 /\ ws[4] = 4 /\ ws[5] = 4 /\ ws[6] = 1
      /\ ws[7] = 4 /\ ws[8] = 1 /\ ws[9] = 1 /\ ws[10] = 1 /\ ws[11] = 2 /\ ws[12] = 4
  OBVIOUS
<1> HIDE DEF ws
<1>3. PICK u : FieldsCounted(u, ws) /\ ByteCount(F(ws)) = u[Len(ws)]  BY <1>1, BytesOfFields
<1>4. /\ u[0] = 0 /\ u[1] = u[1 - 1] + 2 /\ u[2] = u[2 - 1] + 2 /\ u[3] = u[3 - 1] + 8
      /\ u[4] = u[4 - 1] + 4 /\ u[5] = u[5 - 1] + 4 /\ u[6] = u[6 - 1] + 1
      /\ u[7] = u[7 - 1] + 4 /\ u[8] = u[8 - 1] + 1 /\ u[9] = u[9 - 1] + 1
      /\ u[10] = u[10 - 1] + 1 /\ u[11] = u[11 - 1] + 2 /\ u[12] = u[12 - 1] + 4
  BY <1>1, <1>2, <1>3 DEF FieldsCounted
<1>5. u[12] = 34  BY <1>4
<1>6. F(ws) \in LayoutsOf  BY <1>1, MembersOfF
<1> QED  BY <1>1, <1>3, <1>5, <1>6 DEF HasBytes, ws

LEMMA SizesOfArrays ==
  /\ QuartersInDay = 96 /\ MaxDefinedModes = 6 /\ ScheduleLen = 84 /\ ImageUrlMaxLen + 1 = 129
  /\ BlockMaxSize \in Nat
  BY ProtocolAssumption DEF QuartersInDay, MaxDefinedModes, ScheduleLen, ImageUrlMaxLen

\* The bytes of the structures
LEMMA SystemStructBytes ==
  /\ HasBytes(Structs.client_info, 34)
  /\ HasBytes(Structs.connection_status, 22)
  /\ HasBytes(Structs.identify, 4)
  /\ HasBytes(Structs.update_installedfw, 19)
  /\ HasBytes(Structs.update_start, 149)
  /\ HasBytes(Structs.update_status, 9)
  /\ HasBytes(Structs.update_install, 10)
<1>1. 1 \in Widths /\ 2 \in Widths /\ 4 \in Widths /\ 8 \in Widths  BY DEF Widths
<1>2. \A t \in DOMAIN SystemStructs : Structs[t] = SystemStructs[t]  BY StructsOverlaid
<1>3. HasBytes(Structs.client_info, 34)
  <2>1. Structs.client_info = F(<<2, 2, 8, 4, 4, 1, 4, 1, 1, 1, 2, 4>>)
    BY <1>2 DEF SystemStructs
  <2>2. HasBytes(F(<<2, 2, 8, 4, 4, 1, 4, 1, 1, 1, 2, 4>>), 34)  BY ClientInfoBytes
  <2> QED  BY <2>1, <2>2
<1>4. HasBytes(Structs.connection_status, 22)
  <2>1. Structs.connection_status = F(<<2, 8, 4, 2, 2, 4>>)  BY <1>2 DEF SystemStructs
  <2>2. HasBytes(F(<<2, 8, 4, 2, 2, 4>>), 22)  BY <1>1, BytesOf6 DEF HasBytes
  <2> QED  BY <2>1, <2>2
<1>5. HasBytes(Structs.identify, 4)
  <2>1. Structs.identify = F(<<2, 1, 1>>)  BY <1>2 DEF SystemStructs
  <2>2. HasBytes(F(<<2, 1, 1>>), 4)  BY <1>1, BytesOf3 DEF HasBytes
  <2> QED  BY <2>1, <2>2
<1>6. HasBytes(Structs.update_installedfw, 19)
  <2>1. Structs.update_installedfw = F(<<2, 4, 4, 1, 8>>)  BY <1>2 DEF SystemStructs
  <2>2. HasBytes(F(<<2, 4, 4, 1, 8>>), 19)  BY <1>1, BytesOf5 DEF HasBytes
  <2> QED  BY <2>1, <2>2
<1>7. HasBytes(Structs.update_start, 149)
  <2>1. Structs.update_start =
          F(<<2, 2, 1, 4, 4, 4, 1, 2>>) \o Array(ImageUrlMaxLen + 1, 1)
            BY <1>2 DEF SystemStructs
  <2>2. HasBytes(F(<<2, 2, 1, 4, 4, 4, 1, 2>>), 20)  BY <1>1, BytesOf8 DEF HasBytes
  <2> DEFINE part0 == F(<<2, 2, 1, 4, 4, 4, 1, 2>>)
             part1 == part0 \o Array(ImageUrlMaxLen + 1, 1)
  <2> HIDE DEF part0
  <2>3. 20 \in Nat /\ ImageUrlMaxLen + 1 \in Nat  BY SizesOfArrays
  <2>4. HasBytes(part1, (20) + 1 * (ImageUrlMaxLen + 1))
    BY <1>1, <2>2, <2>3, ThenArray DEF part0
  <2>5. (20) + 1 * (ImageUrlMaxLen + 1) = 149  BY <2>3, SizesOfArrays
  <2>6. HasBytes(part1, 149)  BY <2>4, <2>5
  <2> HIDE DEF part1
  <2> QED  BY <2>1, <2>6 DEF part0, part1
<1>8. HasBytes(Structs.update_status, 9)
  <2>1. Structs.update_status = F(<<2, 4, 1, 1, 1>>)  BY <1>2 DEF SystemStructs
  <2>2. HasBytes(F(<<2, 4, 1, 1, 1>>), 9)  BY <1>1, BytesOf5 DEF HasBytes
  <2> QED  BY <2>1, <2>2
<1>9. HasBytes(Structs.update_install, 10)
  <2>1. Structs.update_install = F(<<2, 4, 4>>)  BY <1>2 DEF SystemStructs
  <2>2. HasBytes(F(<<2, 4, 4>>), 10)  BY <1>1, BytesOf3 DEF HasBytes
  <2> QED  BY <2>1, <2>2
<1> QED  BY <1>3, <1>4, <1>5, <1>6, <1>7, <1>8, <1>9

\* ... of the meter and the prices
LEMMA MeterStructBytes ==
  /\ HasBytes(Structs.meter_current_limit, 6)
  /\ HasBytes(Structs.meter_alarms, 10)
  /\ HasBytes(Structs.energyprice_day, 207)
  /\ HasBytes(Structs.energyprice_day_get, 12)
  /\ HasBytes(Structs.energyprice_price_threshold, 6)
  /\ HasBytes(Structs.energyprice_cheap_period, 3)
  /\ HasBytes(Structs.energyprice_active_price_limit, 6)
  /\ HasBytes(Structs.energyprice_tariff, 4)
<1>1. 1 \in Widths /\ 2 \in Widths /\ 4 \in Widths /\ 8 \in Widths  BY DEF Widths
<1>2. \A t \in DOMAIN MeterStructs : Structs[t] = MeterStructs[t]  BY StructsOverlaid
<1>3. HasBytes(Structs.meter_current_limit, 6)
  <2>1. Structs.meter_current_limit = F(<<2, 4>>)  BY <1>2 DEF MeterStructs
  <2>2. HasBytes(F(<<2, 4>>), 6)  BY <1>1, BytesOf2 DEF HasBytes
  <2> QED  BY <2>1, <2>2
<1>4. HasBytes(Structs.meter_alarms, 10)
  <2>1. Structs.meter_alarms = F(<<2, 8>>)  BY <1>2 DEF MeterStructs
  <2>2. HasBytes(F(<<2, 8>>), 10)  BY <1>1, BytesOf2 DEF HasBytes
  <2> QED  BY <2>1, <2>2
<1>5. HasBytes(Structs.energyprice_day, 207)
  <2>1. Structs.energyprice_day = F(<<2, 2, 8, 1, 2>>) \o Array(QuartersInDay, 2)
    BY <1>2 DEF MeterStructs
  <2>2. HasBytes(F(<<2, 2, 8, 1, 2>>), 15)  BY <1>1, BytesOf5 DEF HasBytes
  <2> DEFINE part0 == F(<<2, 2, 8, 1, 2>>)
             part1 == part0 \o Array(QuartersInDay, 2)
  <2> HIDE DEF part0
  <2>3. 15 \in Nat /\ QuartersInDay \in Nat  BY SizesOfArrays
  <2>4. HasBytes(part1, (15) + 2 * (QuartersInDay))
    BY <1>1, <2>2, <2>3, ThenArray DEF part0
  <2>5. (15) + 2 * (QuartersInDay) = 207  BY <2>3, SizesOfArrays
  <2>6. HasBytes(part1, 207)  BY <2>4, <2>5
  <2> HIDE DEF part1
  <2> QED  BY <2>1, <2>6 DEF part0, part1
<1>6. HasBytes(Structs.energyprice_day_get, 12)
  <2>1. Structs.energyprice_day_get = F(<<2, 2, 8>>)  BY <1>2 DEF MeterStructs
  <2>2. HasBytes(F(<<2, 2, 8>>), 12)  BY <1>1, BytesOf3 DEF HasBytes
  <2> QED  BY <2>1, <2>2
<1>7. HasBytes(Structs.energyprice_price_threshold, 6)
  <2>1. Structs.energyprice_price_threshold = F(<<2, 4>>)  BY <1>2 DEF MeterStructs
  <2>2. HasBytes(F(<<2, 4>>), 6)  BY <1>1, BytesOf2 DEF HasBytes
  <2> QED  BY <2>1, <2>2
<1>8. HasBytes(Structs.energyprice_cheap_period, 3)
  <2>1. Structs.energyprice_cheap_period = F(<<2, 1>>)  BY <1>2 DEF MeterStructs
  <2>2. HasBytes(F(<<2, 1>>), 3)  BY <1>1, BytesOf2 DEF HasBytes
  <2> QED  BY <2>1, <2>2
<1>9. HasBytes(Structs.energyprice_active_price_limit, 6)
  <2>1. Structs.energyprice_active_price_limit = F(<<2, 4>>)  BY <1>2 DEF MeterStructs
  <2>2. HasBytes(F(<<2, 4>>), 6)  BY <1>1, BytesOf2 DEF HasBytes
  <2> QED  BY <2>1, <2>2
<1>10. HasBytes(Structs.energyprice_tariff, 4)
  <2>1. Structs.energyprice_tariff = F(<<2, 2>>)  BY <1>2 DEF MeterStructs
  <2>2. HasBytes(F(<<2, 2>>), 4)  BY <1>1, BytesOf2 DEF HasBytes
  <2> QED  BY <2>1, <2>2
<1> QED  BY <1>3, <1>4, <1>5, <1>6, <1>7, <1>8, <1>9, <1>10

\* ... of the wireless modules
LEMMA WirelessStructBytes ==
  /\ HasBytes(Structs.wireless_enable, 4)
  /\ HasBytes(Structs.wireless_credentials, 103)
  /\ HasBytes(Structs.wireless_tx_power, 5)
  /\ HasBytes(Structs.wireless_channel, 4)
<1>1. 1 \in Widths /\ 2 \in Widths /\ 4 \in Widths /\ 8 \in Widths  BY DEF Widths
<1>2. \A t \in DOMAIN WirelessStructs : Structs[t] = WirelessStructs[t]  BY StructsOverlaid
<1>3. HasBytes(Structs.wireless_enable, 4)
  <2>1. Structs.wireless_enable = F(<<2, 1, 1>>)  BY <1>2 DEF WirelessStructs
  <2>2. HasBytes(F(<<2, 1, 1>>), 4)  BY <1>1, BytesOf3 DEF HasBytes
  <2> QED  BY <2>1, <2>2
<1>4. HasBytes(Structs.wireless_credentials, 103)
  <2>1. Structs.wireless_credentials = F(<<2, 1, 2>>) \o Array(32, 1) \o F(<<2>>) \o Array(64, 1)
    BY <1>2 DEF WirelessStructs
  <2>2. HasBytes(F(<<2, 1, 2>>), 5)  BY <1>1, BytesOf3 DEF HasBytes
  <2> DEFINE part0 == F(<<2, 1, 2>>)
             part1 == part0 \o Array(32, 1)
             part2 == part1 \o F(<<2>>)
             part3 == part2 \o Array(64, 1)
  <2> HIDE DEF part0
  <2>3. 5 \in Nat /\ 32 \in Nat  BY SizesOfArrays
  <2>4. HasBytes(part1, (5) + 1 * (32))
    BY <1>1, <2>2, <2>3, ThenArray DEF part0
  <2>5. (5) + 1 * (32) = 37  BY <2>3, SizesOfArrays
  <2>6. HasBytes(part1, 37)  BY <2>4, <2>5
  <2> HIDE DEF part1
  <2>7. 37 \in Nat  OBVIOUS
  <2>8. HasBytes(part2, (37) + 2)
    BY <2>6, <2>7, ThenShort
  <2>9. (37) + 2 = 39  BY <2>7, SizesOfArrays
  <2>10. HasBytes(part2, 39)  BY <2>8, <2>9
  <2> HIDE DEF part2
  <2>11. 39 \in Nat /\ 64 \in Nat  BY SizesOfArrays
  <2>12. HasBytes(part3, (39) + 1 * (64))
    BY <1>1, <2>10, <2>11, ThenArray
  <2>13. (39) + 1 * (64) = 103  BY <2>11, SizesOfArrays
  <2>14. HasBytes(part3, 103)  BY <2>12, <2>13
  <2> HIDE DEF part3
  <2> QED  BY <2>1, <2>14 DEF part0, part1, part2, part3
<1>5. HasBytes(Structs.wireless_tx_power, 5)
  <2>1. Structs.wireless_tx_power = F(<<2, 1, 2>>)  BY <1>2 DEF WirelessStructs
  <2>2. HasBytes(F(<<2, 1, 2>>), 5)  BY <1>1, BytesOf3 DEF HasBytes
  <2> QED  BY <2>1, <2>2
<1>6. HasBytes(Structs.wireless_channel, 4)
  <2>1. Structs.wireless_channel = F(<<2, 1, 1>>)  BY <1>2 DEF WirelessStructs
  <2>2. HasBytes(F(<<2, 1, 1>>), 4)  BY <1>1, BytesOf3 DEF HasBytes
  <2> QED  BY <2>1, <2>2
<1> QED  BY <1>3, <1>4, <1>5, <1>6

\* ... of the relay
LEMMA RelayStructBytes ==
  /\ HasBytes(Structs.relay_mode, 3)
  /\ HasBytes(Structs.relay_state, 3)
  /\ HasBytes(Structs.relay_default_state, 3)
  /\ HasBytes(Structs.relay_pwm, 6)
  /\ HasBytes(Structs.relay_inverted_output, 3)
  /\ HasBytes(Structs.relay_one_shot, 20)
  /\ HasBytes(Structs.relay_button_config, 10)
  /\ HasBytes(Structs.relay_schedule, 88)
<1>1. 1 \in Widths /\ 2 \in Widths /\ 4 \in Widths /\ 8 \in Widths  BY DEF Widths
<1>2. \A t \in DOMAIN RelayStructs : Structs[t] = RelayStructs[t]  BY StructsOverlaid
<1>3. HasBytes(Structs.relay_mode, 3)
  <2>1. Structs.relay_mode = F(<<2, 1>>)  BY <1>2 DEF RelayStructs
  <2>2. HasBytes(F(<<2, 1>>), 3)  BY <1>1, BytesOf2 DEF HasBytes
  <2> QED  BY <2>1, <2>2
<1>4. HasBytes(Structs.relay_state, 3)
  <2>1. Structs.relay_state = F(<<2, 1>>)  BY <1>2 DEF RelayStructs
  <2>2. HasBytes(F(<<2, 1>>), 3)  BY <1>1, BytesOf2 DEF HasBytes
  <2> QED  BY <2>1, <2>2
<1>5. HasBytes(Structs.relay_default_state, 3)
  <2>1. Structs.relay_default_state = F(<<2, 1>>)  BY <1>2 DEF RelayStructs
  <2>2. HasBytes(F(<<2, 1>>), 3)  BY <1>1, BytesOf2 DEF HasBytes
  <2> QED  BY <2>1, <2>2
<1>6. HasBytes(Structs.relay_pwm, 6)
  <2>1. Structs.relay_pwm = F(<<2, 1, 2, 1>>)  BY <1>2 DEF RelayStructs
  <2>2. HasBytes(F(<<2, 1, 2, 1>>), 6)  BY <1>1, BytesOf4 DEF HasBytes
  <2> QED  BY <2>1, <2>2
<1>7. HasBytes(Structs.relay_inverted_output, 3)
  <2>1. Structs.relay_inverted_output = F(<<2, 1>>)  BY <1>2 DEF RelayStructs
  <2>2. HasBytes(F(<<2, 1>>), 3)  BY <1>1, BytesOf2 DEF HasBytes
  <2> QED  BY <2>1, <2>2
<1>8. HasBytes(Structs.relay_one_shot, 20)
  <2>1. Structs.relay_one_shot = F(<<2, 1, 8, 8, 1>>)  BY <1>2 DEF RelayStructs
  <2>2. HasBytes(F(<<2, 1, 8, 8, 1>>), 20)  BY <1>1, BytesOf5 DEF HasBytes
  <2> QED  BY <2>1, <2>2
<1>9. HasBytes(Structs.relay_button_config, 10)
  <2>1. Structs.relay_button_config = F(<<2, 2>>) \o Array(MaxDefinedModes, 1)
    BY <1>2 DEF RelayStructs
  <2>2. HasBytes(F(<<2, 2>>), 4)  BY <1>1, BytesOf2 DEF HasBytes
  <2> DEFINE part0 == F(<<2, 2>>)
             part1 == part0 \o Array(MaxDefinedModes, 1)
  <2> HIDE DEF part0
  <2>3. 4 \in Nat /\ MaxDefinedModes \in Nat  BY SizesOfArrays
  <2>4. HasBytes(part1, (4) + 1 * (MaxDefinedModes))
    BY <1>1, <2>2, <2>3, ThenArray DEF part0
  <2>5. (4) + 1 * (MaxDefinedModes) = 10  BY <2>3, SizesOfArrays
  <2>6. HasBytes(part1, 10)  BY <2>4, <2>5
  <2> HIDE DEF part1
  <2> QED  BY <2>1, <2>6 DEF part0, part1
<1>10. HasBytes(Structs.relay_schedule, 88)
  <2>1. Structs.relay_schedule = F(<<2, 2>>) \o Array(ScheduleLen, 1)  BY <1>2 DEF RelayStructs
  <2>2. HasBytes(F(<<2, 2>>), 4)  BY <1>1, BytesOf2 DEF HasBytes
  <2> DEFINE part0 == F(<<2, 2>>)
             part1 == part0 \o Array(ScheduleLen, 1)
  <2> HIDE DEF part0
  <2>3. 4 \in Nat /\ ScheduleLen \in Nat  BY SizesOfArrays
  <2>4. HasBytes(part1, (4) + 1 * (ScheduleLen))
    BY <1>1, <2>2, <2>3, ThenArray DEF part0
  <2>5. (4) + 1 * (ScheduleLen) = 88  BY <2>3, SizesOfArrays
  <2>6. HasBytes(part1, 88)  BY <2>4, <2>5
  <2> HIDE DEF part1
  <2> QED  BY <2>1, <2>6 DEF part0, part1
<1> QED  BY <1>3, <1>4, <1>5, <1>6, <1>7, <1>8, <1>9, <1>10

\* ... and of the rest
LEMMA OtherStructBytes ==
  /\ HasBytes(Structs.environment_sunny_time, 3)
  /\ HasBytes(Structs.environment_cloud_cover, 206)
  /\ HasBytes(Structs.environment_position, 18)
  /\ HasBytes(Structs.diag_coredump_start, 10)
  /\ HasBytes(Structs.diag_coredump_body, 8 + BlockMaxSize)
  /\ HasBytes(Structs.diag_coredump_end, 6)
  /\ HasBytes(Structs.status, 5)
  /\ HasBytes(Structs.get, 8)
<1>1. 1 \in Widths /\ 2 \in Widths /\ 4 \in Widths /\ 8 \in Widths  BY DEF Widths
<1>2. \A t \in DOMAIN OtherStructs : Structs[t] = OtherStructs[t]  BY StructsOverlaid
<1>3. HasBytes(Structs.environment_sunny_time, 3)
  <2>1. Structs.environment_sunny_time = F(<<2, 1>>)  BY <1>2 DEF OtherStructs
  <2>2. HasBytes(F(<<2, 1>>), 3)  BY <1>1, BytesOf2 DEF HasBytes
  <2> QED  BY <2>1, <2>2
<1>4. HasBytes(Structs.environment_cloud_cover, 206)
  <2>1. Structs.environment_cloud_cover = F(<<2, 8, 2, 2>>) \o Array(QuartersInDay, 2)
    BY <1>2 DEF OtherStructs
  <2>2. HasBytes(F(<<2, 8, 2, 2>>), 14)  BY <1>1, BytesOf4 DEF HasBytes
  <2> DEFINE part0 == F(<<2, 8, 2, 2>>)
             part1 == part0 \o Array(QuartersInDay, 2)
  <2> HIDE DEF part0
  <2>3. 14 \in Nat /\ QuartersInDay \in Nat  BY SizesOfArrays
  <2>4. HasBytes(part1, (14) + 2 * (QuartersInDay))
    BY <1>1, <2>2, <2>3, ThenArray DEF part0
  <2>5. (14) + 2 * (QuartersInDay) = 206  BY <2>3, SizesOfArrays
  <2>6. HasBytes(part1, 206)  BY <2>4, <2>5
  <2> HIDE DEF part1
  <2> QED  BY <2>1, <2>6 DEF part0, part1
<1>5. HasBytes(Structs.environment_position, 18)
  <2>1. Structs.environment_position = F(<<2, 8, 8>>)  BY <1>2 DEF OtherStructs
  <2>2. HasBytes(F(<<2, 8, 8>>), 18)  BY <1>1, BytesOf3 DEF HasBytes
  <2> QED  BY <2>1, <2>2
<1>6. HasBytes(Structs.diag_coredump_start, 10)
  <2>1. Structs.diag_coredump_start = F(<<2, 4, 4>>)  BY <1>2 DEF OtherStructs
  <2>2. HasBytes(F(<<2, 4, 4>>), 10)  BY <1>1, BytesOf3 DEF HasBytes
  <2> QED  BY <2>1, <2>2
<1>7. HasBytes(Structs.diag_coredump_body, 8 + BlockMaxSize)
  <2>1. Structs.diag_coredump_body = F(<<2, 4, 2>>) \o Array(BlockMaxSize, 1)
    BY <1>2 DEF OtherStructs
  <2>2. HasBytes(F(<<2, 4, 2>>), 8)  BY <1>1, BytesOf3 DEF HasBytes
  <2> DEFINE part0 == F(<<2, 4, 2>>)
             part1 == part0 \o Array(BlockMaxSize, 1)
  <2> HIDE DEF part0
  <2>3. 8 \in Nat /\ BlockMaxSize \in Nat  BY SizesOfArrays
  <2>4. HasBytes(part1, (8) + 1 * (BlockMaxSize))
    BY <1>1, <2>2, <2>3, ThenArray DEF part0
  <2>5. (8) + 1 * (BlockMaxSize) = 8 + BlockMaxSize  BY <2>3, SizesOfArrays
  <2>6. HasBytes(part1, 8 + BlockMaxSize)  BY <2>4, <2>5
  <2> HIDE DEF part1
  <2> QED  BY <2>1, <2>6 DEF part0, part1
<1>8. HasBytes(Structs.diag_coredump_end, 6)
  <2>1. Structs.diag_coredump_end = F(<<2, 4>>)  BY <1>2 DEF OtherStructs
  <2>2. HasBytes(F(<<2, 4>>), 6)  BY <1>1, BytesOf2 DEF HasBytes
  <2> QED  BY <2>1, <2>2
<1>9. HasBytes(Structs.status, 5)
  <2>1. Structs.status = F(<<2, 1, 2>>)  BY <1>2 DEF OtherStructs
  <2>2. HasBytes(F(<<2, 1, 2>>), 5)  BY <1>1, BytesOf3 DEF HasBytes
  <2> QED  BY <2>1, <2>2
<1>10. HasBytes(Structs.get, 8)
  <2>1. Structs.get = F(<<2, 2, 4>>)  BY <1>2 DEF OtherStructs
  <2>2. HasBytes(F(<<2, 2, 4>>), 8)  BY <1>1, BytesOf3 DEF HasBytes
  <2> QED  BY <2>1, <2>2
<1> QED  BY <1>3, <1>4, <1>5, <1>6, <1>7, <1>8, <1>9, <1>10

\* The bytes that the serializers write
LEMMA SystemBytes ==
  ASSUME NEW n \in Nat
  PROVE  /\ HasBytes(Serialize(n).client_info, 34)
         /\ HasBytes(Serialize(n).update_installedfw, 22)
         /\ HasBytes(Serialize(n).update_status, 9)
<1>1. 1 \in Widths /\ 2 \in Widths /\ 4 \in Widths /\ 8 \in Widths  BY DEF Widths
<1>2. \A t \in DOMAIN SerializeSystem : Serialize(n)[t] = SerializeSystem[t]
  BY SerializeOverlaid
<1>3. HasBytes(Serialize(n).client_info, 34)
  <2>1. Serialize(n).client_info = F(<<2, 2, 8, 4, 4, 1, 4, 1, 1, 1, 2, 4>>)
    BY <1>2 DEF SerializeSystem
  <2>2. HasBytes(F(<<2, 2, 8, 4, 4, 1, 4, 1, 1, 1, 2, 4>>), 34)  BY ClientInfoBytes
  <2> QED  BY <2>1, <2>2
<1>4. HasBytes(Serialize(n).update_installedfw, 22)
  <2>1. Serialize(n).update_installedfw = F(<<2, 4, 4, 4, 8>>)  BY <1>2 DEF SerializeSystem
  <2>2. HasBytes(F(<<2, 4, 4, 4, 8>>), 22)  BY <1>1, BytesOf5 DEF HasBytes
  <2> QED  BY <2>1, <2>2
<1>5. HasBytes(Serialize(n).update_status, 9)
  <2>1. Serialize(n).update_status = F(<<2, 4, 1, 1, 1>>)  BY <1>2 DEF SerializeSystem
  <2>2. HasBytes(F(<<2, 4, 1, 1, 1>>), 9)  BY <1>1, BytesOf5 DEF HasBytes
  <2> QED  BY <2>1, <2>2
<1> QED  BY <1>3, <1>4, <1>5

\* ... of the prices
LEMMA PriceBytes ==
  ASSUME NEW n \in Nat
  PROVE  /\ HasBytes(Serialize(n).energyprice_day_get, 12)
         /\ HasBytes(Serialize(n).energyprice_cheap_period, 3)
         /\ HasBytes(Serialize(n).energyprice_active_price_limit, 6)
         /\ HasBytes(Serialize(n).energyprice_tariff, 4)
<1>1. 1 \in Widths /\ 2 \in Widths /\ 4 \in Widths /\ 8 \in Widths  BY DEF Widths
<1>2. \A t \in DOMAIN SerializePrices : Serialize(n)[t] = SerializePrices[t]
  BY SerializeOverlaid
<1>3. HasBytes(Serialize(n).energyprice_day_get, 12)
  <2>1. Serialize(n).energyprice_day_get = F(<<2, 2, 8>>)  BY <1>2 DEF SerializePrices
  <2>2. HasBytes(F(<<2, 2, 8>>), 12)  BY <1>1, BytesOf3 DEF HasBytes
  <2> QED  BY <2>1, <2>2
<1>4. HasBytes(Serialize(n).energyprice_cheap_period, 3)
  <2>1. Serialize(n).energyprice_cheap_period = F(<<2, 1>>)  BY <1>2 DEF SerializePrices
  <2>2. HasBytes(F(<<2, 1>>), 3)  BY <1>1, BytesOf2 DEF HasBytes
  <2> QED  BY <2>1, <2>2
<1>5. HasBytes(Serialize(n).energyprice_active_price_limit, 6)
  <2>1. Serialize(n).energyprice_active_price_limit = F(<<2, 4>>)  BY <1>2 DEF SerializePrices
  <2>2. HasBytes(F(<<2, 4>>), 6)  BY <1>1, BytesOf2 DEF HasBytes
  <2> QED  BY <2>1, <2>2
<1>6. HasBytes(Serialize(n).energyprice_tariff, 4)
  <2>1. Serialize(n).energyprice_tariff = F(<<2, 2>>)  BY <1>2 DEF SerializePrices
  <2>2. HasBytes(F(<<2, 2>>), 4)  BY <1>1, BytesOf2 DEF HasBytes
  <2> QED  BY <2>1, <2>2
<1> QED  BY <1>3, <1>4, <1>5, <1>6

\* ... of the wireless modules
LEMMA WirelessBytes ==
  ASSUME NEW n \in Nat
  PROVE  /\ HasBytes(Serialize(n).wireless_status, 10)
         /\ HasBytes(Serialize(n).wireless_credentials, 7 + 2 * n)
         /\ HasBytes(Serialize(n).wireless_tx_power, 5)
         /\ HasBytes(Serialize(n).wireless_channel, 4)
<1>1. 1 \in Widths /\ 2 \in Widths /\ 4 \in Widths /\ 8 \in Widths  BY DEF Widths
<1>2. \A t \in DOMAIN SerializeWireless(n) : Serialize(n)[t] = SerializeWireless(n)[t]
  BY SerializeOverlaid
<1>3. HasBytes(Serialize(n).wireless_status, 10)
  <2>1. Serialize(n).wireless_status = F(<<2, 1, 1, 4, 1, 1>>)  BY <1>2 DEF SerializeWireless
  <2>2. HasBytes(F(<<2, 1, 1, 4, 1, 1>>), 10)  BY <1>1, BytesOf6 DEF HasBytes
  <2> QED  BY <2>1, <2>2
<1>4. HasBytes(Serialize(n).wireless_credentials, 7 + 2 * n)
  <2>1. Serialize(n).wireless_credentials = F(<<2, 1, 2>>) \o Array(n, 1) \o F(<<2>>) \o Array(n, 1)
    BY <1>2 DEF SerializeWireless
  <2>2. HasBytes(F(<<2, 1, 2>>), 5)  BY <1>1, BytesOf3 DEF HasBytes
  <2> DEFINE part0 == F(<<2, 1, 2>>)
             part1 == part0 \o Array(n, 1)
             part2 == part1 \o F(<<2>>)
             part3 == part2 \o Array(n, 1)
  <2> HIDE DEF part0
  <2>3. 5 \in Nat /\ n \in Nat  BY SizesOfArrays
  <2>4. HasBytes(part1, (5) + 1 * (n))
    BY <1>1, <2>2, <2>3, ThenArray DEF part0
  <2>5. (5) + 1 * (n) = 5 + n  BY <2>3, SizesOfArrays
  <2>6. HasBytes(part1, 5 + n)  BY <2>4, <2>5
  <2> HIDE DEF part1
  <2>7. 5 + n \in Nat  OBVIOUS
  <2>8. HasBytes(part2, (5 + n) + 2)
    BY <2>6, <2>7, ThenShort
  <2>9. (5 + n) + 2 = 7 + n  BY <2>7, SizesOfArrays
  <2>10. HasBytes(part2, 7 + n)  BY <2>8, <2>9
  <2> HIDE DEF part2
  <2>11. 7 + n \in Nat /\ n \in Nat  BY SizesOfArrays
  <2>12. HasBytes(part3, (7 + n) + 1 * (n))
    BY <1>1, <2>10, <2>11, ThenArray
  <2>13. (7 + n) + 1 * (n) = 7 + 2 * n  BY <2>11, SizesOfArrays
  <2>14. HasBytes(part3, 7 + 2 * n)  BY <2>12, <2>13
  <2> HIDE DEF part3
  <2> QED  BY <2>1, <2>14 DEF part0, part1, part2, part3
<1>5. HasBytes(Serialize(n).wireless_tx_power, 5)
  <2>1. Serialize(n).wireless_tx_power = F(<<2, 1, 2>>)  BY <1>2 DEF SerializeWireless
  <2>2. HasBytes(F(<<2, 1, 2>>), 5)  BY <1>1, BytesOf3 DEF HasBytes
  <2> QED  BY <2>1, <2>2
<1>6. HasBytes(Serialize(n).wireless_channel, 4)
  <2>1. Serialize(n).wireless_channel = F(<<2, 1, 1>>)  BY <1>2 DEF SerializeWireless
  <2>2. HasBytes(F(<<2, 1, 1>>), 4)  BY <1>1, BytesOf3 DEF HasBytes
  <2> QED  BY <2>1, <2>2
<1> QED  BY <1>3, <1>4, <1>5, <1>6

\* ... of the relay
LEMMA RelayBytes ==
  ASSUME NEW n \in Nat
  PROVE  /\ HasBytes(Serialize(n).relay_mode, 3)
         /\ HasBytes(Serialize(n).relay_default_state, 3)
         /\ HasBytes(Serialize(n).relay_state, 3)
         /\ HasBytes(Serialize(n).relay_pwm, 6)
         /\ HasBytes(Serialize(n).relay_inverted_output, 3)
         /\ HasBytes(Serialize(n).relay_one_shot, 20)
         /\ HasBytes(Serialize(n).relay_button_config, 4 + n)
         /\ HasBytes(Serialize(n).relay_schedule, 88)
         /\ HasBytes(Serialize(n).relay_snapshots, 17 + 7 * n)
<1>1. 1 \in Widths /\ 2 \in Widths /\ 4 \in Widths /\ 8 \in Widths  BY DEF Widths
<1>2. \A t \in DOMAIN SerializeRelay(n) : Serialize(n)[t] = SerializeRelay(n)[t]
  BY SerializeOverlaid
<1>3. HasBytes(Serialize(n).relay_mode, 3)
  <2>1. Serialize(n).relay_mode = F(<<2, 1>>)  BY <1>2 DEF SerializeRelay
  <2>2. HasBytes(F(<<2, 1>>), 3)  BY <1>1, BytesOf2 DEF HasBytes
  <2> QED  BY <2>1, <2>2
<1>4. HasBytes(Serialize(n).relay_default_state, 3)
  <2>1. Serialize(n).relay_default_state = F(<<2, 1>>)  BY <1>2 DEF SerializeRelay
  <2>2. HasBytes(F(<<2, 1>>), 3)  BY <1>1, BytesOf2 DEF HasBytes
  <2> QED  BY <2>1, <2>2
<1>5. HasBytes(Serialize(n).relay_state, 3)
  <2>1. Serialize(n).relay_state = F(<<2, 1>>)  BY <1>2 DEF SerializeRelay
  <2>2. HasBytes(F(<<2, 1>>), 3)  BY <1>1, BytesOf2 DEF HasBytes
  <2> QED  BY <2>1, <2>2
<1>6. HasBytes(Serialize(n).relay_pwm, 6)
  <2>1. Serialize(n).relay_pwm = F(<<2, 1, 2, 1>>)  BY <1>2 DEF SerializeRelay
  <2>2. HasBytes(F(<<2, 1, 2, 1>>), 6)  BY <1>1, BytesOf4 DEF HasBytes
  <2> QED  BY <2>1, <2>2
<1>7. HasBytes(Serialize(n).relay_inverted_output, 3)
  <2>1. Serialize(n).relay_inverted_output = F(<<2, 1>>)  BY <1>2 DEF SerializeRelay
  <2>2. HasBytes(F(<<2, 1>>), 3)  BY <1>1, BytesOf2 DEF HasBytes
  <2> QED  BY <2>1, <2>2
<1>8. HasBytes(Serialize(n).relay_one_shot, 20)
  <2>1. Serialize(n).relay_one_shot = F(<<2, 1, 8, 8, 1>>)  BY <1>2 DEF SerializeRelay
  <2>2. HasBytes(F(<<2, 1, 8, 8, 1>>), 20)  BY <1>1, BytesOf5 DEF HasBytes
  <2> QED  BY <2>1, <2>2
<1>9. HasBytes(Serialize(n).relay_button_config, 4 + n)
  <2>1. Serialize(n).relay_button_config = F(<<2, 2>>) \o Array(n, 1)
    BY <1>2 DEF SerializeRelay
  <2>2. HasBytes(F(<<2, 2>>), 4)  BY <1>1, BytesOf2 DEF HasBytes
  <2> DEFINE part0 == F(<<2, 2>>)
             part1 == part0 \o Array(n, 1)
  <2> HIDE DEF part0
  <2>3. 4 \in Nat /\ n \in Nat  BY SizesOfArrays
  <2>4. HasBytes(part1, (4) + 1 * (n))
    BY <1>1, <2>2, <2>3, ThenArray DEF part0
  <2>5. (4) + 1 * (n) = 4 + n  BY <2>3, SizesOfArrays
  <2>6. HasBytes(part1, 4 + n)  BY <2>4, <2>5
  <2> HIDE DEF part1
  <2> QED  BY <2>1, <2>6 DEF part0, part1
<1>10. HasBytes(Serialize(n).relay_schedule, 88)
  <2>1. Serialize(n).relay_schedule = F(<<2, 2>>) \o Array(ScheduleLen, 1)
    BY <1>2 DEF SerializeRelay
  <2>2. HasBytes(F(<<2, 2>>), 4)  BY <1>1, BytesOf2 DEF HasBytes
  <2> DEFINE part0 == F(<<2, 2>>)
             part1 == part0 \o Array(ScheduleLen, 1)
  <2> HIDE DEF part0
  <2>3. 4 \in Nat /\ ScheduleLen \in Nat  BY SizesOfArrays
  <2>4. HasBytes(part1, (4) + 1 * (ScheduleLen))
    BY <1>1, <2>2, <2>3, ThenArray DEF part0
  <2>5. (4) + 1 * (ScheduleLen) = 88  BY <2>3, SizesOfArrays
  <2>6. HasBytes(part1, 88)  BY <2>4, <2>5
  <2> HIDE DEF part1
  <2> QED  BY <2>1, <2>6 DEF part0, part1
<1>11. HasBytes(Serialize(n).relay_snapshots, 17 + 7 * n)
  <2>1. Serialize(n).relay_snapshots =
          F(<<2, 8, 1, 2>>) \o Array(n, 4) \o F(<<2>>) \o Array(n, 1) \o F(<<2>>) \o
          Array(n, 2)  BY <1>2 DEF SerializeRelay
  <2>2. HasBytes(F(<<2, 8, 1, 2>>), 13)  BY <1>1, BytesOf4 DEF HasBytes
  <2> DEFINE part0 == F(<<2, 8, 1, 2>>)
             part1 == part0 \o Array(n, 4)
             part2 == part1 \o F(<<2>>)
             part3 == part2 \o Array(n, 1)
             part4 == part3 \o F(<<2>>)
             part5 == part4 \o Array(n, 2)
  <2> HIDE DEF part0
  <2>3. 13 \in Nat /\ n \in Nat  BY SizesOfArrays
  <2>4. HasBytes(part1, (13) + 4 * (n))
    BY <1>1, <2>2, <2>3, ThenArray DEF part0
  <2>5. (13) + 4 * (n) = 13 + 4 * n  BY <2>3, SizesOfArrays
  <2>6. HasBytes(part1, 13 + 4 * n)  BY <2>4, <2>5
  <2> HIDE DEF part1
  <2>7. 13 + 4 * n \in Nat  OBVIOUS
  <2>8. HasBytes(part2, (13 + 4 * n) + 2)
    BY <2>6, <2>7, ThenShort
  <2>9. (13 + 4 * n) + 2 = 15 + 4 * n  BY <2>7, SizesOfArrays
  <2>10. HasBytes(part2, 15 + 4 * n)  BY <2>8, <2>9
  <2> HIDE DEF part2
  <2>11. 15 + 4 * n \in Nat /\ n \in Nat  BY SizesOfArrays
  <2>12. HasBytes(part3, (15 + 4 * n) + 1 * (n))
    BY <1>1, <2>10, <2>11, ThenArray
  <2>13. (15 + 4 * n) + 1 * (n) = 15 + 5 * n  BY <2>11, SizesOfArrays
  <2>14. HasBytes(part3, 15 + 5 * n)  BY <2>12, <2>13
  <2> HIDE DEF part3
  <2>15. 15 + 5 * n \in Nat  OBVIOUS
  <2>16. HasBytes(part4, (15 + 5 * n) + 2)
    BY <2>14, <2>15, ThenShort
  <2>17. (15 + 5 * n) + 2 = 17 + 5 * n  BY <2>15, SizesOfArrays
  <2>18. HasBytes(part4, 17 + 5 * n)  BY <2>16, <2>17
  <2> HIDE DEF part4
  <2>19. 17 + 5 * n \in Nat /\ n \in Nat  BY SizesOfArrays
  <2>20. HasBytes(part5, (17 + 5 * n) + 2 * (n))
    BY <1>1, <2>18, <2>19, ThenArray
  <2>21. (17 + 5 * n) + 2 * (n) = 17 + 7 * n  BY <2>19, SizesOfArrays
  <2>22. HasBytes(part5, 17 + 7 * n)  BY <2>20, <2>21
  <2> HIDE DEF part5
  <2> QED  BY <2>1, <2>22 DEF part0, part1, part2, part3, part4, part5
<1> QED  BY <1>3, <1>4, <1>5, <1>6, <1>7, <1>8, <1>9, <1>10, <1>11

\* ... of the environment
LEMMA EnvironmentBytes ==
  ASSUME NEW n \in Nat
  PROVE  /\ HasBytes(Serialize(n).energyprice_price_threshold, 6)
         /\ HasBytes(Serialize(n).environment_sunny_time, 3)
         /\ HasBytes(Serialize(n).environment_cloud_cover, 14 + 2 * n)
         /\ HasBytes(Serialize(n).environment_position, 18)
<1>1. 1 \in Widths /\ 2 \in Widths /\ 4 \in Widths /\ 8 \in Widths  BY DEF Widths
<1>2. \A t \in DOMAIN SerializeEnvironment(n) : Serialize(n)[t] = SerializeEnvironment(n)[t]
  BY SerializeOverlaid
<1>3. HasBytes(Serialize(n).energyprice_price_threshold, 6)
  <2>1. Serialize(n).energyprice_price_threshold = F(<<2, 4>>)  BY <1>2 DEF SerializeEnvironment
  <2>2. HasBytes(F(<<2, 4>>), 6)  BY <1>1, BytesOf2 DEF HasBytes
  <2> QED  BY <2>1, <2>2
<1>4. HasBytes(Serialize(n).environment_sunny_time, 3)
  <2>1. Serialize(n).environment_sunny_time = F(<<2, 1>>)  BY <1>2 DEF SerializeEnvironment
  <2>2. HasBytes(F(<<2, 1>>), 3)  BY <1>1, BytesOf2 DEF HasBytes
  <2> QED  BY <2>1, <2>2
<1>5. HasBytes(Serialize(n).environment_cloud_cover, 14 + 2 * n)
  <2>1. Serialize(n).environment_cloud_cover = F(<<2, 8, 2, 2>>) \o Array(n, 2)
    BY <1>2 DEF SerializeEnvironment
  <2>2. HasBytes(F(<<2, 8, 2, 2>>), 14)  BY <1>1, BytesOf4 DEF HasBytes
  <2> DEFINE part0 == F(<<2, 8, 2, 2>>)
             part1 == part0 \o Array(n, 2)
  <2> HIDE DEF part0
  <2>3. 14 \in Nat /\ n \in Nat  BY SizesOfArrays
  <2>4. HasBytes(part1, (14) + 2 * (n))
    BY <1>1, <2>2, <2>3, ThenArray DEF part0
  <2>5. (14) + 2 * (n) = 14 + 2 * n  BY <2>3, SizesOfArrays
  <2>6. HasBytes(part1, 14 + 2 * n)  BY <2>4, <2>5
  <2> HIDE DEF part1
  <2> QED  BY <2>1, <2>6 DEF part0, part1
<1>6. HasBytes(Serialize(n).environment_position, 18)
  <2>1. Serialize(n).environment_position = F(<<2, 8, 8>>)  BY <1>2 DEF SerializeEnvironment
  <2>2. HasBytes(F(<<2, 8, 8>>), 18)  BY <1>1, BytesOf3 DEF HasBytes
  <2> QED  BY <2>1, <2>2
<1> QED  BY <1>3, <1>4, <1>5, <1>6

\* ... of the meter
LEMMA MeterBytes ==
  ASSUME NEW n \in Nat
  PROVE  /\ HasBytes(Serialize(n).meter_measurement, 14 + 5 * n)
         /\ HasBytes(Serialize(n).meter_measurement_history, 15 + 8 * n)
         /\ HasBytes(Serialize(n).meter_current_limit, 6)
         /\ HasBytes(Serialize(n).meter_alarms, 10)
         /\ HasBytes(Serialize(n).energy_accumulated, 19)
         /\ HasBytes(Serialize(n).energy_history, 17 + 4 * n)
<1>1. 1 \in Widths /\ 2 \in Widths /\ 4 \in Widths /\ 8 \in Widths  BY DEF Widths
<1>2. \A t \in DOMAIN SerializeMeter(n) : Serialize(n)[t] = SerializeMeter(n)[t]
  BY SerializeOverlaid
<1>3. HasBytes(Serialize(n).meter_measurement, 14 + 5 * n)
  <2>1. Serialize(n).meter_measurement = F(<<2, 8, 2>>) \o Array(n, 1) \o F(<<2>>) \o Array(n, 4)
    BY <1>2 DEF SerializeMeter
  <2>2. HasBytes(F(<<2, 8, 2>>), 12)  BY <1>1, BytesOf3 DEF HasBytes
  <2> DEFINE part0 == F(<<2, 8, 2>>)
             part1 == part0 \o Array(n, 1)
             part2 == part1 \o F(<<2>>)
             part3 == part2 \o Array(n, 4)
  <2> HIDE DEF part0
  <2>3. 12 \in Nat /\ n \in Nat  BY SizesOfArrays
  <2>4. HasBytes(part1, (12) + 1 * (n))
    BY <1>1, <2>2, <2>3, ThenArray DEF part0
  <2>5. (12) + 1 * (n) = 12 + n  BY <2>3, SizesOfArrays
  <2>6. HasBytes(part1, 12 + n)  BY <2>4, <2>5
  <2> HIDE DEF part1
  <2>7. 12 + n \in Nat  OBVIOUS
  <2>8. HasBytes(part2, (12 + n) + 2)
    BY <2>6, <2>7, ThenShort
  <2>9. (12 + n) + 2 = 14 + n  BY <2>7, SizesOfArrays
  <2>10. HasBytes(part2, 14 + n)  BY <2>8, <2>9
  <2> HIDE DEF part2
  <2>11. 14 + n \in Nat /\ n \in Nat  BY SizesOfArrays
  <2>12. HasBytes(part3, (14 + n) + 4 * (n))
    BY <1>1, <2>10, <2>11, ThenArray
  <2>13. (14 + n) + 4 * (n) = 14 + 5 * n  BY <2>11, SizesOfArrays
  <2>14. HasBytes(part3, 14 + 5 * n)  BY <2>12, <2>13
  <2> HIDE DEF part3
  <2> QED  BY <2>1, <2>14 DEF part0, part1, part2, part3
<1>4. HasBytes(Serialize(n).meter_measurement_history, 15 + 8 * n)
  <2>1. Serialize(n).meter_measurement_history = F(<<2, 8, 1, 2>>) \o Array(n, 4) \o F(<<2>>) \o Array(n, 4)
    BY <1>2 DEF SerializeMeter
  <2>2. HasBytes(F(<<2, 8, 1, 2>>), 13)  BY <1>1, BytesOf4 DEF HasBytes
  <2> DEFINE part0 == F(<<2, 8, 1, 2>>)
             part1 == part0 \o Array(n, 4)
             part2 == part1 \o F(<<2>>)
             part3 == part2 \o Array(n, 4)
  <2> HIDE DEF part0
  <2>3. 13 \in Nat /\ n \in Nat  BY SizesOfArrays
  <2>4. HasBytes(part1, (13) + 4 * (n))
    BY <1>1, <2>2, <2>3, ThenArray DEF part0
  <2>5. (13) + 4 * (n) = 13 + 4 * n  BY <2>3, SizesOfArrays
  <2>6. HasBytes(part1, 13 + 4 * n)  BY <2>4, <2>5
  <2> HIDE DEF part1
  <2>7. 13 + 4 * n \in Nat  OBVIOUS
  <2>8. HasBytes(part2, (13 + 4 * n) + 2)
    BY <2>6, <2>7, ThenShort
  <2>9. (13 + 4 * n) + 2 = 15 + 4 * n  BY <2>7, SizesOfArrays
  <2>10. HasBytes(part2, 15 + 4 * n)  BY <2>8, <2>9
  <2> HIDE DEF part2
  <2>11. 15 + 4 * n \in Nat /\ n \in Nat  BY SizesOfArrays
  <2>12. HasBytes(part3, (15 + 4 * n) + 4 * (n))
    BY <1>1, <2>10, <2>11, ThenArray
  <2>13. (15 + 4 * n) + 4 * (n) = 15 + 8 * n  BY <2>11, SizesOfArrays
  <2>14. HasBytes(part3, 15 + 8 * n)  BY <2>12, <2>13
  <2> HIDE DEF part3
  <2> QED  BY <2>1, <2>14 DEF part0, part1, part2, part3
<1>5. HasBytes(Serialize(n).meter_current_limit, 6)
  <2>1. Serialize(n).meter_current_limit = F(<<2, 4>>)  BY <1>2 DEF SerializeMeter
  <2>2. HasBytes(F(<<2, 4>>), 6)  BY <1>1, BytesOf2 DEF HasBytes
  <2> QED  BY <2>1, <2>2
<1>6. HasBytes(Serialize(n).meter_alarms, 10)
  <2>1. Serialize(n).meter_alarms = F(<<2, 8>>)  BY <1>2 DEF SerializeMeter
  <2>2. HasBytes(F(<<2, 8>>), 10)  BY <1>1, BytesOf2 DEF HasBytes
  <2> QED  BY <2>1, <2>2
<1>7. HasBytes(Serialize(n).energy_accumulated, 19)
  <2>1. Serialize(n).energy_accumulated = F(<<2, 8, 1, 8>>)  BY <1>2 DEF SerializeMeter
  <2>2. HasBytes(F(<<2, 8, 1, 8>>), 19)  BY <1>1, BytesOf4 DEF HasBytes
  <2> QED  BY <2>1, <2>2
<1>8. HasBytes(Serialize(n).energy_history, 17 + 4 * n)
  <2>1. Serialize(n).energy_history = F(<<2, 8, 1, 4, 2>>) \o Array(n, 4)
    BY <1>2 DEF SerializeMeter
  <2>2. HasBytes(F(<<2, 8, 1, 4, 2>>), 17)  BY <1>1, BytesOf5 DEF HasBytes
  <2> DEFINE part0 == F(<<2, 8, 1, 4, 2>>)
             part1 == part0 \o Array(n, 4)
  <2> HIDE DEF part0
  <2>3. 17 \in Nat /\ n \in Nat  BY SizesOfArrays
  <2>4. HasBytes(part1, (17) + 4 * (n))
    BY <1>1, <2>2, <2>3, ThenArray DEF part0
  <2>5. (17) + 4 * (n) = 17 + 4 * n  BY <2>3, SizesOfArrays
  <2>6. HasBytes(part1, 17 + 4 * n)  BY <2>4, <2>5
  <2> HIDE DEF part1
  <2> QED  BY <2>1, <2>6 DEF part0, part1
<1> QED  BY <1>3, <1>4, <1>5, <1>6, <1>7, <1>8

\* ... and of the diagnostics
LEMMA DiagBytes ==
  ASSUME NEW n \in Nat
  PROVE  /\ HasBytes(Serialize(n).diag_coredump_start, 10)
         /\ HasBytes(Serialize(n).diag_coredump_body, 8 + n)
         /\ HasBytes(Serialize(n).diag_coredump_end, 6)
         /\ HasBytes(Serialize(n).diag_debug_info, 4 + n)
         /\ HasBytes(Serialize(n).diag_logs_settings, 51)
         /\ HasBytes(Serialize(n).status, 5)
<1>1. 1 \in Widths /\ 2 \in Widths /\ 4 \in Widths /\ 8 \in Widths  BY DEF Widths
<1>2. \A t \in DOMAIN SerializeDiag(n) : Serialize(n)[t] = SerializeDiag(n)[t]
  BY SerializeOverlaid
<1>3. HasBytes(Serialize(n).diag_coredump_start, 10)
  <2>1. Serialize(n).diag_coredump_start = F(<<2, 4, 4>>)  BY <1>2 DEF SerializeDiag
  <2>2. HasBytes(F(<<2, 4, 4>>), 10)  BY <1>1, BytesOf3 DEF HasBytes
  <2> QED  BY <2>1, <2>2
<1>4. HasBytes(Serialize(n).diag_coredump_body, 8 + n)
  <2>1. Serialize(n).diag_coredump_body = F(<<2, 4, 2>>) \o Array(n, 1)
    BY <1>2 DEF SerializeDiag
  <2>2. HasBytes(F(<<2, 4, 2>>), 8)  BY <1>1, BytesOf3 DEF HasBytes
  <2> DEFINE part0 == F(<<2, 4, 2>>)
             part1 == part0 \o Array(n, 1)
  <2> HIDE DEF part0
  <2>3. 8 \in Nat /\ n \in Nat  BY SizesOfArrays
  <2>4. HasBytes(part1, (8) + 1 * (n))
    BY <1>1, <2>2, <2>3, ThenArray DEF part0
  <2>5. (8) + 1 * (n) = 8 + n  BY <2>3, SizesOfArrays
  <2>6. HasBytes(part1, 8 + n)  BY <2>4, <2>5
  <2> HIDE DEF part1
  <2> QED  BY <2>1, <2>6 DEF part0, part1
<1>5. HasBytes(Serialize(n).diag_coredump_end, 6)
  <2>1. Serialize(n).diag_coredump_end = F(<<2, 4>>)  BY <1>2 DEF SerializeDiag
  <2>2. HasBytes(F(<<2, 4>>), 6)  BY <1>1, BytesOf2 DEF HasBytes
  <2> QED  BY <2>1, <2>2
<1>6. HasBytes(Serialize(n).diag_debug_info, 4 + n)
  <2>1. Serialize(n).diag_debug_info = F(<<2, 2>>) \o Array(n, 1)  BY <1>2 DEF SerializeDiag
  <2>2. HasBytes(F(<<2, 2>>), 4)  BY <1>1, BytesOf2 DEF HasBytes
  <2> DEFINE part0 == F(<<2, 2>>)
             part1 == part0 \o Array(n, 1)
  <2> HIDE DEF part0
  <2>3. 4 \in Nat /\ n \in Nat  BY SizesOfArrays
  <2>4. HasBytes(part1, (4) + 1 * (n))
    BY <1>1, <2>2, <2>3, ThenArray DEF part0
  <2>5. (4) + 1 * (n) = 4 + n  BY <2>3, SizesOfArrays
  <2>6. HasBytes(part1, 4 + n)  BY <2>4, <2>5
  <2> HIDE DEF part1
  <2> QED  BY <2>1, <2>6 DEF part0, part1
<1>7. HasBytes(Serialize(n).diag_logs_settings, 51)
  <2>1. Serialize(n).diag_logs_settings = F(<<2, 1>>) \o Array(6, 8)  BY <1>2 DEF SerializeDiag
  <2>2. HasBytes(F(<<2, 1>>), 3)  BY <1>1, BytesOf2 DEF HasBytes
  <2> DEFINE part0 == F(<<2, 1>>)
             part1 == part0 \o Array(6, 8)
  <2> HIDE DEF part0
  <2>3. 3 \in Nat /\ 6 \in Nat  BY SizesOfArrays
  <2>4. HasBytes(part1, (3) + 8 * (6))
    BY <1>1, <2>2, <2>3, ThenArray DEF part0
  <2>5. (3) + 8 * (6) = 51  BY <2>3, SizesOfArrays
  <2>6. HasBytes(part1, 51)  BY <2>4, <2>5
  <2> HIDE DEF part1
  <2> QED  BY <2>1, <2>6 DEF part0, part1
<1>8. HasBytes(Serialize(n).status, 5)
  <2>1. Serialize(n).status = F(<<2, 1, 2>>)  BY <1>2 DEF SerializeDiag
  <2>2. HasBytes(F(<<2, 1, 2>>), 5)  BY <1>1, BytesOf3 DEF HasBytes
  <2> QED  BY <2>1, <2>2
<1> QED  BY <1>3, <1>4, <1>5, <1>6, <1>7, <1>8

\* The message of type t with n entries has room in its buffer.
Roomy(t, n) == ByteCount(Serialize(n)[t]) <= Buffers(n)[t]

\* The structure of an update that is installed: it ends in a number of eight bytes.
LEMMA InstalledSize == 22 <= SizeOf(Structs.update_installedfw)
<1> DEFINE l == Structs.update_installedfw
<1>1. HasBytes(l, 19)  BY SystemStructBytes
<1>2. l = F(<<2, 4, 4, 1, 8>>)  BY StructsOverlaid DEF SystemStructs
<1> DEFINE ws == <<2, 4, 4, 1, 8>>
<1>3. ws \in Seq(Widths) /\ Len(ws) = 5
  <2>1. ws \in Seq({1, 2, 4, 8}) /\ Len(ws) = 5  OBVIOUS
  <2> QED  BY <2>1 DEF Widths
<1>4. /\ l \in LayoutsOf /\ Len(l) = 5
      /\ l[1] = <<2, 1>> /\ l[2] = <<4, 1>> /\ l[3] = <<4, 1>> /\ l[4] = <<1, 1>> /\ l[5] = <<8, 1>>
  <2>1. ws[1] = 2 /\ ws[2] = 4 /\ ws[3] = 4 /\ ws[4] = 1 /\ ws[5] = 8  OBVIOUS
  <2>2. l = F(ws)  BY <1>2
  <2> HIDE DEF l, ws
  <2>3. /\ F(ws) \in LayoutsOf /\ Len(F(ws)) = 5
        /\ \A i \in 1..5 : F(ws)[i] = <<ws[i], 1>>
    BY <1>3, MembersOfF
  <2> QED  BY <2>1, <2>2, <2>3
<1> HIDE DEF l
<1>5. PICK v \in [0..Len(l) -> Nat] :
        Placed(v, l) /\ SizeOf(l) = Aligned(v[Len(l)], Widest(l))
  BY <1>4, MembersPlaced
<1>6. /\ v[0] = 0 /\ v[1] = Aligned(v[1 - 1], 2) + 2 * 1 /\ v[2] = Aligned(v[2 - 1], 4) + 4 * 1
      /\ v[3] = Aligned(v[3 - 1], 4) + 4 * 1 /\ v[4] = Aligned(v[4 - 1], 1) + 1 * 1
      /\ v[5] = Aligned(v[5 - 1], 8) + 8 * 1
  BY <1>4, <1>5 DEF Placed
<1>7. /\ Aligned(0, 2) = 0 /\ Aligned(2, 4) = 4 /\ Aligned(8, 4) = 8 /\ Aligned(12, 1) = 12
      /\ Aligned(13, 8) = 16
  BY DEF Aligned
<1>8. v[5] = 24  BY <1>6, <1>7
<1>9. Widest(l) \in Nat \ {0}  BY <1>4, WidestIs
<1>10. 24 <= Aligned(24, Widest(l)) /\ Aligned(24, Widest(l)) \in Nat
  <2> DEFINE w == Widest(l)
  <2>1. w \in Nat \ {0}  BY <1>9
  <2> HIDE DEF w
  <2>2. 24 <= Aligned(24, w) /\ Aligned(24, w) \in Nat  BY <2>1, Alignment
  <2> QED  BY <2>2 DEF w
<1>11. SizeOf(l) = Aligned(24, Widest(l))  BY <1>4, <1>5, <1>8
<1> QED  BY <1>10, <1>11 DEF l

\* There is room for the messages of the system
LEMMA SystemRoom ==
  ASSUME NEW n \in Nat
  PROVE  /\ Roomy("update_installedfw", n)
         /\ Roomy("update_status", n)
         /\ Roomy("client_info", n)
<1>1. \A t \in DOMAIN SystemBuffers : Buffers(n)[t] = SystemBuffers[t]  BY BuffersOverlaid
<1>2. Roomy("update_installedfw", n)
  <2>1. ByteCount(Serialize(n).update_installedfw) = 22  BY SystemBytes DEF HasBytes
  <2>2. Buffers(n).update_installedfw = SizeOf(Structs.update_installedfw)
    BY <1>1 DEF SystemBuffers, StructBuffers, ++
  <2> QED  BY <2>1, <2>2, InstalledSize DEF Roomy
<1>3. Roomy("update_status", n)
  <2>1. ByteCount(Serialize(n).update_status) = 9  BY SystemBytes DEF HasBytes
  <2>2. Buffers(n).update_status = SizeOf(Structs.update_status)
    BY <1>1 DEF SystemBuffers, StructBuffers, ++
  <2>3. HasBytes(Structs.update_status, 9)  BY SystemStructBytes
  <2>4. 9 <= SizeOf(Structs.update_status) /\ SizeOf(Structs.update_status) \in Nat
    BY <2>3, SizeBetween DEF HasBytes
  <2> QED  BY <2>1, <2>2, <2>4, SizesOfArrays DEF Roomy, Sendable
<1>4. Roomy("client_info", n)
  <2>1. ByteCount(Serialize(n).client_info) = 34  BY SystemBytes DEF HasBytes
  <2>2. Buffers(n).client_info = ByteCount(Structs.client_info)
    BY <1>1 DEF SystemBuffers, StructBuffers, ++
  <2>3. HasBytes(Structs.client_info, 34)  BY SystemStructBytes
  <2> QED  BY <2>1, <2>2, <2>3 DEF Roomy, HasBytes
<1> QED  BY <1>2, <1>3, <1>4

\* ... of the wireless modules, but for the channel
LEMMA WirelessRoom ==
  ASSUME NEW n \in Nat
  PROVE  /\ Roomy("wireless_status", n)
         /\ Roomy("wireless_credentials", n)
         /\ Roomy("wireless_tx_power", n)
<1>1. \A t \in DOMAIN WirelessBuffers(n) : Buffers(n)[t] = WirelessBuffers(n)[t]
  BY BuffersOverlaid
<1>2. Roomy("wireless_status", n)
  <2>1. ByteCount(Serialize(n).wireless_status) = 10  BY WirelessBytes DEF HasBytes
  <2>2. Buffers(n).wireless_status = 2 + 1 + 1 + 4 + 1 + 1
    BY <1>1 DEF WirelessBuffers
  <2> QED  BY <2>1, <2>2 DEF Roomy
<1>3. Roomy("wireless_credentials", n)
  <2>1. ByteCount(Serialize(n).wireless_credentials) = 7 + 2 * n  BY WirelessBytes DEF HasBytes
  <2>2. Buffers(n).wireless_credentials = 2 + 1 + 2 + n + 2 + n
    BY <1>1 DEF WirelessBuffers
  <2> QED  BY <2>1, <2>2 DEF Roomy
<1>4. Roomy("wireless_tx_power", n)
  <2>1. ByteCount(Serialize(n).wireless_tx_power) = 5  BY WirelessBytes DEF HasBytes
  <2>2. Buffers(n).wireless_tx_power = 2 + 1 + 2
    BY <1>1 DEF WirelessBuffers
  <2> QED  BY <2>1, <2>2 DEF Roomy
<1> QED  BY <1>2, <1>3, <1>4

\* ... of the prices
LEMMA PriceRoom ==
  ASSUME NEW n \in Nat
  PROVE  /\ Roomy("energyprice_day_get", n)
         /\ Roomy("energyprice_price_threshold", n)
         /\ Roomy("energyprice_cheap_period", n)
         /\ Roomy("energyprice_active_price_limit", n)
         /\ Roomy("environment_sunny_time", n)
         /\ Roomy("energyprice_tariff", n)
<1>1. \A t \in DOMAIN PriceBuffers : Buffers(n)[t] = PriceBuffers[t]  BY BuffersOverlaid
<1>2. Roomy("energyprice_day_get", n)
  <2>1. ByteCount(Serialize(n).energyprice_day_get) = 12  BY PriceBytes DEF HasBytes
  <2>2. Buffers(n).energyprice_day_get = SizeOf(Structs.energyprice_day_get)
    BY <1>1 DEF PriceBuffers, StructBuffers
  <2>3. HasBytes(Structs.energyprice_day_get, 12)  BY MeterStructBytes
  <2>4. 12 <= SizeOf(Structs.energyprice_day_get) /\ SizeOf(Structs.energyprice_day_get) \in Nat
    BY <2>3, SizeBetween DEF HasBytes
  <2> QED  BY <2>1, <2>2, <2>4, SizesOfArrays DEF Roomy, Sendable
<1>3. Roomy("energyprice_price_threshold", n)
  <2>1. ByteCount(Serialize(n).energyprice_price_threshold) = 6
    BY EnvironmentBytes DEF HasBytes
  <2>2. Buffers(n).energyprice_price_threshold = SizeOf(Structs.energyprice_price_threshold)
    BY <1>1 DEF PriceBuffers, StructBuffers
  <2>3. HasBytes(Structs.energyprice_price_threshold, 6)  BY MeterStructBytes
  <2>4. /\ 6 <= SizeOf(Structs.energyprice_price_threshold)
       /\ SizeOf(Structs.energyprice_price_threshold) \in Nat
    BY <2>3, SizeBetween DEF HasBytes
  <2> QED  BY <2>1, <2>2, <2>4, SizesOfArrays DEF Roomy, Sendable
<1>4. Roomy("energyprice_cheap_period", n)
  <2>1. ByteCount(Serialize(n).energyprice_cheap_period) = 3  BY PriceBytes DEF HasBytes
  <2>2. Buffers(n).energyprice_cheap_period = SizeOf(Structs.energyprice_cheap_period)
    BY <1>1 DEF PriceBuffers, StructBuffers
  <2>3. HasBytes(Structs.energyprice_cheap_period, 3)  BY MeterStructBytes
  <2>4. /\ 3 <= SizeOf(Structs.energyprice_cheap_period)
       /\ SizeOf(Structs.energyprice_cheap_period) \in Nat
    BY <2>3, SizeBetween DEF HasBytes
  <2> QED  BY <2>1, <2>2, <2>4, SizesOfArrays DEF Roomy, Sendable
<1>5. Roomy("energyprice_active_price_limit", n)
  <2>1. ByteCount(Serialize(n).energyprice_active_price_limit) = 6  BY PriceBytes DEF HasBytes
  <2>2. Buffers(n).energyprice_active_price_limit = SizeOf(Structs.energyprice_active_price_limit)
    BY <1>1 DEF PriceBuffers, StructBuffers
  <2>3. HasBytes(Structs.energyprice_active_price_limit, 6)  BY MeterStructBytes
  <2>4. /\ 6 <= SizeOf(Structs.energyprice_active_price_limit)
       /\ SizeOf(Structs.energyprice_active_price_limit) \in Nat
    BY <2>3, SizeBetween DEF HasBytes
  <2> QED  BY <2>1, <2>2, <2>4, SizesOfArrays DEF Roomy, Sendable
<1>6. Roomy("environment_sunny_time", n)
  <2>1. ByteCount(Serialize(n).environment_sunny_time) = 3  BY EnvironmentBytes DEF HasBytes
  <2>2. Buffers(n).environment_sunny_time = SizeOf(Structs.environment_sunny_time)
    BY <1>1 DEF PriceBuffers, StructBuffers
  <2>3. HasBytes(Structs.environment_sunny_time, 3)  BY OtherStructBytes
  <2>4. /\ 3 <= SizeOf(Structs.environment_sunny_time)
       /\ SizeOf(Structs.environment_sunny_time) \in Nat
    BY <2>3, SizeBetween DEF HasBytes
  <2> QED  BY <2>1, <2>2, <2>4, SizesOfArrays DEF Roomy, Sendable
<1>7. Roomy("energyprice_tariff", n)
  <2>1. ByteCount(Serialize(n).energyprice_tariff) = 4  BY PriceBytes DEF HasBytes
  <2>2. Buffers(n).energyprice_tariff = SizeOf(Structs.energyprice_tariff)
    BY <1>1 DEF PriceBuffers, StructBuffers
  <2>3. HasBytes(Structs.energyprice_tariff, 4)  BY MeterStructBytes
  <2>4. 4 <= SizeOf(Structs.energyprice_tariff) /\ SizeOf(Structs.energyprice_tariff) \in Nat
    BY <2>3, SizeBetween DEF HasBytes
  <2> QED  BY <2>1, <2>2, <2>4, SizesOfArrays DEF Roomy, Sendable
<1> QED  BY <1>2, <1>3, <1>4, <1>5, <1>6, <1>7

\* ... of the relay
LEMMA RelayRoom ==
  ASSUME NEW n \in Nat
  PROVE  /\ Roomy("relay_mode", n)
         /\ Roomy("relay_state", n)
         /\ Roomy("relay_default_state", n)
         /\ Roomy("relay_pwm", n)
         /\ Sendable("relay_button_config", n) => Roomy("relay_button_config", n)
         /\ Roomy("relay_schedule", n)
         /\ Roomy("relay_one_shot", n)
         /\ Roomy("relay_inverted_output", n)
         /\ Roomy("relay_snapshots", n)
<1>1. \A t \in DOMAIN RelayBuffers(n) : Buffers(n)[t] = RelayBuffers(n)[t]  BY BuffersOverlaid
<1>2. Roomy("relay_mode", n)
  <2>1. ByteCount(Serialize(n).relay_mode) = 3  BY RelayBytes DEF HasBytes
  <2>2. Buffers(n).relay_mode = SizeOf(Structs.relay_mode)
    BY <1>1 DEF RelayBuffers, StructBuffers, ++
  <2>3. HasBytes(Structs.relay_mode, 3)  BY RelayStructBytes
  <2>4. 3 <= SizeOf(Structs.relay_mode) /\ SizeOf(Structs.relay_mode) \in Nat
    BY <2>3, SizeBetween DEF HasBytes
  <2> QED  BY <2>1, <2>2, <2>4, SizesOfArrays DEF Roomy, Sendable
<1>3. Roomy("relay_state", n)
  <2>1. ByteCount(Serialize(n).relay_state) = 3  BY RelayBytes DEF HasBytes
  <2>2. Buffers(n).relay_state = SizeOf(Structs.relay_state)
    BY <1>1 DEF RelayBuffers, StructBuffers, ++
  <2>3. HasBytes(Structs.relay_state, 3)  BY RelayStructBytes
  <2>4. 3 <= SizeOf(Structs.relay_state) /\ SizeOf(Structs.relay_state) \in Nat
    BY <2>3, SizeBetween DEF HasBytes
  <2> QED  BY <2>1, <2>2, <2>4, SizesOfArrays DEF Roomy, Sendable
<1>4. Roomy("relay_default_state", n)
  <2>1. ByteCount(Serialize(n).relay_default_state) = 3  BY RelayBytes DEF HasBytes
  <2>2. Buffers(n).relay_default_state = SizeOf(Structs.relay_default_state)
    BY <1>1 DEF RelayBuffers, StructBuffers, ++
  <2>3. HasBytes(Structs.relay_default_state, 3)  BY RelayStructBytes
  <2>4. 3 <= SizeOf(Structs.relay_default_state) /\ SizeOf(Structs.relay_default_state) \in Nat
    BY <2>3, SizeBetween DEF HasBytes
  <2> QED  BY <2>1, <2>2, <2>4, SizesOfArrays DEF Roomy, Sendable
<1>5. Roomy("relay_pwm", n)
  <2>1. ByteCount(Serialize(n).relay_pwm) = 6  BY RelayBytes DEF HasBytes
  <2>2. Buffers(n).relay_pwm = SizeOf(Structs.relay_pwm)
    BY <1>1 DEF RelayBuffers, StructBuffers, ++
  <2>3. HasBytes(Structs.relay_pwm, 6)  BY RelayStructBytes
  <2>4. 6 <= SizeOf(Structs.relay_pwm) /\ SizeOf(Structs.relay_pwm) \in Nat
    BY <2>3, SizeBetween DEF HasBytes
  <2> QED  BY <2>1, <2>2, <2>4, SizesOfArrays DEF Roomy, Sendable
<1>6. Sendable("relay_button_config", n) => Roomy("relay_button_config", n)
  <2>1. ByteCount(Serialize(n).relay_button_config) = 4 + n  BY RelayBytes DEF HasBytes
  <2>2. Buffers(n).relay_button_config = SizeOf(Structs.relay_button_config)
    BY <1>1 DEF RelayBuffers, StructBuffers, ++
  <2>3. HasBytes(Structs.relay_button_config, 10)  BY RelayStructBytes
  <2>4. 10 <= SizeOf(Structs.relay_button_config) /\ SizeOf(Structs.relay_button_config) \in Nat
    BY <2>3, SizeBetween DEF HasBytes
  <2> QED  BY <2>1, <2>2, <2>4, SizesOfArrays DEF Roomy, Sendable
<1>7. Roomy("relay_schedule", n)
  <2>1. ByteCount(Serialize(n).relay_schedule) = 88  BY RelayBytes DEF HasBytes
  <2>2. Buffers(n).relay_schedule = SizeOf(Structs.relay_schedule)
    BY <1>1 DEF RelayBuffers, StructBuffers, ++
  <2>3. HasBytes(Structs.relay_schedule, 88)  BY RelayStructBytes
  <2>4. 88 <= SizeOf(Structs.relay_schedule) /\ SizeOf(Structs.relay_schedule) \in Nat
    BY <2>3, SizeBetween DEF HasBytes
  <2> QED  BY <2>1, <2>2, <2>4, SizesOfArrays DEF Roomy, Sendable
<1>8. Roomy("relay_one_shot", n)
  <2>1. ByteCount(Serialize(n).relay_one_shot) = 20  BY RelayBytes DEF HasBytes
  <2>2. Buffers(n).relay_one_shot = SizeOf(Structs.relay_one_shot)
    BY <1>1 DEF RelayBuffers, StructBuffers, ++
  <2>3. HasBytes(Structs.relay_one_shot, 20)  BY RelayStructBytes
  <2>4. 20 <= SizeOf(Structs.relay_one_shot) /\ SizeOf(Structs.relay_one_shot) \in Nat
    BY <2>3, SizeBetween DEF HasBytes
  <2> QED  BY <2>1, <2>2, <2>4, SizesOfArrays DEF Roomy, Sendable
<1>9. Roomy("relay_inverted_output", n)
  <2>1. ByteCount(Serialize(n).relay_inverted_output) = 3  BY RelayBytes DEF HasBytes
  <2>2. Buffers(n).relay_inverted_output = 2 + 1
    BY <1>1 DEF RelayBuffers, StructBuffers, ++
  <2> QED  BY <2>1, <2>2 DEF Roomy
<1>10. Roomy("relay_snapshots", n)
  <2>1. ByteCount(Serialize(n).relay_snapshots) = 17 + 7 * n  BY RelayBytes DEF HasBytes
  <2>2. Buffers(n).relay_snapshots = 2 + 8 + 1 + n * (4 + 1 + 2) + 3 * 2
    BY <1>1 DEF RelayBuffers, StructBuffers, ++
  <2> QED  BY <2>1, <2>2 DEF Roomy
<1> QED  BY <1>2, <1>3, <1>4, <1>5, <1>6, <1>7, <1>8, <1>9, <1>10

\* ... of the meter
LEMMA MeterRoom ==
  ASSUME NEW n \in Nat
  PROVE  /\ Roomy("environment_position", n)
         /\ Roomy("meter_measurement", n)
         /\ Roomy("meter_measurement_history", n)
         /\ Roomy("meter_current_limit", n)
         /\ Roomy("meter_alarms", n)
         /\ Roomy("energy_accumulated", n)
         /\ Roomy("energy_history", n)
<1>1. \A t \in DOMAIN MeterBuffers(n) : Buffers(n)[t] = MeterBuffers(n)[t]  BY BuffersOverlaid
<1>2. Roomy("environment_position", n)
  <2>1. ByteCount(Serialize(n).environment_position) = 18  BY EnvironmentBytes DEF HasBytes
  <2>2. Buffers(n).environment_position = SizeOf(Structs.environment_position)
    BY <1>1 DEF MeterBuffers, StructBuffers, ++
  <2>3. HasBytes(Structs.environment_position, 18)  BY OtherStructBytes
  <2>4. 18 <= SizeOf(Structs.environment_position) /\ SizeOf(Structs.environment_position) \in Nat
    BY <2>3, SizeBetween DEF HasBytes
  <2> QED  BY <2>1, <2>2, <2>4, SizesOfArrays DEF Roomy, Sendable
<1>3. Roomy("meter_measurement", n)
  <2>1. ByteCount(Serialize(n).meter_measurement) = 14 + 5 * n  BY MeterBytes DEF HasBytes
  <2>2. Buffers(n).meter_measurement = 2 + 8 + n * (1 + 4) + 2 * 2
    BY <1>1 DEF MeterBuffers, StructBuffers, ++
  <2> QED  BY <2>1, <2>2 DEF Roomy
<1>4. Roomy("meter_measurement_history", n)
  <2>1. ByteCount(Serialize(n).meter_measurement_history) = 15 + 8 * n
    BY MeterBytes DEF HasBytes
  <2>2. Buffers(n).meter_measurement_history = 2 + 8 + 1 + n * (4 + 4) + 2 * 2
    BY <1>1 DEF MeterBuffers, StructBuffers, ++
  <2> QED  BY <2>1, <2>2 DEF Roomy
<1>5. Roomy("meter_current_limit", n)
  <2>1. ByteCount(Serialize(n).meter_current_limit) = 6  BY MeterBytes DEF HasBytes
  <2>2. Buffers(n).meter_current_limit = 2 + 4
    BY <1>1 DEF MeterBuffers, StructBuffers, ++
  <2> QED  BY <2>1, <2>2 DEF Roomy
<1>6. Roomy("meter_alarms", n)
  <2>1. ByteCount(Serialize(n).meter_alarms) = 10  BY MeterBytes DEF HasBytes
  <2>2. Buffers(n).meter_alarms = 2 + 8
    BY <1>1 DEF MeterBuffers, StructBuffers, ++
  <2> QED  BY <2>1, <2>2 DEF Roomy
<1>7. Roomy("energy_accumulated", n)
  <2>1. ByteCount(Serialize(n).energy_accumulated) = 19  BY MeterBytes DEF HasBytes
  <2>2. Buffers(n).energy_accumulated = 2 + 8 + 1 + 8
    BY <1>1 DEF MeterBuffers, StructBuffers, ++
  <2> QED  BY <2>1, <2>2 DEF Roomy
<1>8. Roomy("energy_history", n)
  <2>1. ByteCount(Serialize(n).energy_history) = 17 + 4 * n  BY MeterBytes DEF HasBytes
  <2>2. Buffers(n).energy_history = 2 + 1 + 8 + 4 + n * 4 + 2
    BY <1>1 DEF MeterBuffers, StructBuffers, ++
  <2> QED  BY <2>1, <2>2 DEF Roomy
<1> QED  BY <1>2, <1>3, <1>4, <1>5, <1>6, <1>7, <1>8

\* ... and of the diagnostics
LEMMA DiagRoom ==
  ASSUME NEW n \in Nat
  PROVE  /\ Roomy("diag_coredump_start", n)
         /\ Sendable("diag_coredump_body", n) => Roomy("diag_coredump_body", n)
         /\ Roomy("diag_coredump_end", n)
         /\ Roomy("status", n)
         /\ Roomy("diag_debug_info", n)
         /\ Roomy("diag_logs_settings", n)
<1>1. \A t \in DOMAIN DiagBuffers(n) : Buffers(n)[t] = DiagBuffers(n)[t]  BY BuffersOverlaid
<1>2. Roomy("diag_coredump_start", n)
  <2>1. ByteCount(Serialize(n).diag_coredump_start) = 10  BY DiagBytes DEF HasBytes
  <2>2. Buffers(n).diag_coredump_start = SizeOf(Structs.diag_coredump_start)
    BY <1>1 DEF DiagBuffers, StructBuffers, ++
  <2>3. HasBytes(Structs.diag_coredump_start, 10)  BY OtherStructBytes
  <2>4. 10 <= SizeOf(Structs.diag_coredump_start) /\ SizeOf(Structs.diag_coredump_start) \in Nat
    BY <2>3, SizeBetween DEF HasBytes
  <2> QED  BY <2>1, <2>2, <2>4, SizesOfArrays DEF Roomy, Sendable
<1>3. Sendable("diag_coredump_body", n) => Roomy("diag_coredump_body", n)
  <2>1. ByteCount(Serialize(n).diag_coredump_body) = 8 + n  BY DiagBytes DEF HasBytes
  <2>2. Buffers(n).diag_coredump_body = SizeOf(Structs.diag_coredump_body)
    BY <1>1 DEF DiagBuffers, StructBuffers, ++
  <2>3. HasBytes(Structs.diag_coredump_body, 8 + BlockMaxSize)  BY OtherStructBytes
  <2>4. /\ 8 + BlockMaxSize <= SizeOf(Structs.diag_coredump_body)
       /\ SizeOf(Structs.diag_coredump_body) \in Nat
    BY <2>3, SizeBetween DEF HasBytes
  <2> QED  BY <2>1, <2>2, <2>4, SizesOfArrays DEF Roomy, Sendable
<1>4. Roomy("diag_coredump_end", n)
  <2>1. ByteCount(Serialize(n).diag_coredump_end) = 6  BY DiagBytes DEF HasBytes
  <2>2. Buffers(n).diag_coredump_end = SizeOf(Structs.diag_coredump_end)
    BY <1>1 DEF DiagBuffers, StructBuffers, ++
  <2>3. HasBytes(Structs.diag_coredump_end, 6)  BY OtherStructBytes
  <2>4. 6 <= SizeOf(Structs.diag_coredump_end) /\ SizeOf(Structs.diag_coredump_end) \in Nat
    BY <2>3, SizeBetween DEF HasBytes
  <2> QED  BY <2>1, <2>2, <2>4, SizesOfArrays DEF Roomy, Sendable
<1>5. Roomy("status", n)
  <2>1. ByteCount(Serialize(n).status) = 5  BY DiagBytes DEF HasBytes
  <2>2. Buffers(n).status = SizeOf(Structs.status)
    BY <1>1 DEF DiagBuffers, StructBuffers, ++
  <2>3. HasBytes(Structs.status, 5)  BY OtherStructBytes
  <2>4. 5 <= SizeOf(Structs.status) /\ SizeOf(Structs.status) \in Nat
    BY <2>3, SizeBetween DEF HasBytes
  <2> QED  BY <2>1, <2>2, <2>4, SizesOfArrays DEF Roomy, Sendable
<1>6. Roomy("diag_debug_info", n)
  <2>1. ByteCount(Serialize(n).diag_debug_info) = 4 + n  BY DiagBytes DEF HasBytes
  <2>2. Buffers(n).diag_debug_info = 2 + 2 + n
    BY <1>1 DEF DiagBuffers, StructBuffers, ++
  <2> QED  BY <2>1, <2>2 DEF Roomy
<1>7. Roomy("diag_logs_settings", n)
  <2>1. ByteCount(Serialize(n).diag_logs_settings) = 51  BY DiagBytes DEF HasBytes
  <2>2. Buffers(n).diag_logs_settings = 2 + 1 + 6 * (6 * 8)
    BY <1>1 DEF DiagBuffers, StructBuffers, ++
  <2> QED  BY <2>1, <2>2 DEF Roomy
<1> QED  BY <1>2, <1>3, <1>4, <1>5, <1>6, <1>7

\* The types of the tables
LEMMA BufferNames ==
  ASSUME NEW n
  PROVE  /\ DOMAIN SystemBuffers =
              {"update_installedfw", "update_status", "client_info"}
         /\ DOMAIN WirelessBuffers(n) =
              {"wireless_status", "wireless_credentials", "wireless_tx_power",
               "wireless_channel"}
         /\ DOMAIN PriceBuffers =
              {"energyprice_day_get", "energyprice_price_threshold",
               "energyprice_cheap_period", "energyprice_active_price_limit",
               "environment_sunny_time", "energyprice_tariff"}
         /\ DOMAIN RelayBuffers(n) =
              {"relay_mode", "relay_state", "relay_default_state", "relay_pwm",
               "relay_button_config", "relay_schedule", "relay_one_shot",
               "relay_inverted_output", "relay_snapshots"}
         /\ DOMAIN MeterBuffers(n) =
              {"environment_position", "meter_measurement", "meter_measurement_history",
               "meter_current_limit", "meter_alarms", "energy_accumulated", "energy_history"}
         /\ DOMAIN DiagBuffers(n) =
              {"diag_coredump_start", "diag_coredump_body", "diag_coredump_end", "status",
               "diag_debug_info", "diag_logs_settings"}
<1>1. DOMAIN SystemBuffers =
          {"update_installedfw", "update_status", "client_info"}
  BY DEF SystemBuffers, StructBuffers, ++
<1>2. DOMAIN WirelessBuffers(n) =
          {"wireless_status", "wireless_credentials", "wireless_tx_power", "wireless_channel"}
  BY DEF WirelessBuffers
<1>3. DOMAIN PriceBuffers =
          {"energyprice_day_get", "energyprice_price_threshold", "energyprice_cheap_period",
           "energyprice_active_price_limit", "environment_sunny_time", "energyprice_tariff"}
  BY DEF PriceBuffers, StructBuffers
<1>4. DOMAIN RelayBuffers(n) =
          {"relay_mode", "relay_state", "relay_default_state", "relay_pwm",
           "relay_button_config", "relay_schedule", "relay_one_shot", "relay_inverted_output",
           "relay_snapshots"}
  BY DEF RelayBuffers, StructBuffers, ++
<1>5. DOMAIN MeterBuffers(n) =
          {"environment_position", "meter_measurement", "meter_measurement_history",
           "meter_current_limit", "meter_alarms", "energy_accumulated", "energy_history"}
  BY DEF MeterBuffers, StructBuffers, ++
<1>6. DOMAIN DiagBuffers(n) =
          {"diag_coredump_start", "diag_coredump_body", "diag_coredump_end", "status",
           "diag_debug_info", "diag_logs_settings"}
  BY DEF DiagBuffers, StructBuffers, ++
<1> QED  BY <1>1, <1>2, <1>3, <1>4, <1>5, <1>6

LEMMA SerializeNames ==
  ASSUME NEW n
  PROVE  /\ DOMAIN SerializeSystem =
              {"client_info", "update_installedfw", "update_status"}
         /\ DOMAIN SerializePrices =
              {"energyprice_day_get", "energyprice_cheap_period",
               "energyprice_active_price_limit", "energyprice_tariff"}
         /\ DOMAIN SerializeWireless(n) =
              {"wireless_status", "wireless_credentials", "wireless_tx_power",
               "wireless_channel"}
         /\ DOMAIN SerializeRelay(n) =
              {"relay_mode", "relay_default_state", "relay_state", "relay_pwm",
               "relay_inverted_output", "relay_one_shot", "relay_button_config",
               "relay_schedule", "relay_snapshots"}
         /\ DOMAIN SerializeEnvironment(n) =
              {"energyprice_price_threshold", "environment_sunny_time",
               "environment_cloud_cover", "environment_position"}
         /\ DOMAIN SerializeMeter(n) =
              {"meter_measurement", "meter_measurement_history", "meter_current_limit",
               "meter_alarms", "energy_accumulated", "energy_history"}
         /\ DOMAIN SerializeDiag(n) =
              {"diag_coredump_start", "diag_coredump_body", "diag_coredump_end",
               "diag_debug_info", "diag_logs_settings", "status"}
<1>1. DOMAIN SerializeSystem =
          {"client_info", "update_installedfw", "update_status"}
  BY DEF SerializeSystem
<1>2. DOMAIN SerializePrices =
          {"energyprice_day_get", "energyprice_cheap_period", "energyprice_active_price_limit",
           "energyprice_tariff"}
  BY DEF SerializePrices
<1>3. DOMAIN SerializeWireless(n) =
          {"wireless_status", "wireless_credentials", "wireless_tx_power", "wireless_channel"}
  BY DEF SerializeWireless
<1>4. DOMAIN SerializeRelay(n) =
          {"relay_mode", "relay_default_state", "relay_state", "relay_pwm",
           "relay_inverted_output", "relay_one_shot", "relay_button_config", "relay_schedule",
           "relay_snapshots"}
  BY DEF SerializeRelay
<1>5. DOMAIN SerializeEnvironment(n) =
          {"energyprice_price_threshold", "environment_sunny_time", "environment_cloud_cover",
           "environment_position"}
  BY DEF SerializeEnvironment
<1>6. DOMAIN SerializeMeter(n) =
          {"meter_measurement", "meter_measurement_history", "meter_current_limit",
           "meter_alarms", "energy_accumulated", "energy_history"}
  BY DEF SerializeMeter
<1>7. DOMAIN SerializeDiag(n) =
          {"diag_coredump_start", "diag_coredump_body", "diag_coredump_end", "diag_debug_info",
           "diag_logs_settings", "status"}
  BY DEF SerializeDiag
<1> QED  BY <1>1, <1>2, <1>3, <1>4, <1>5, <1>6, <1>7

\* What is sent is written.
LEMMA BuffersWritten ==
  ASSUME NEW n
  PROVE  DOMAIN Buffers(n) \subseteq DOMAIN Serialize(n)
<1> SUFFICES ASSUME NEW t \in DOMAIN Buffers(n)  PROVE t \in DOMAIN Serialize(n)  OBVIOUS
<1>1. DOMAIN Serialize(n) = DOMAIN SerializeSystem \cup DOMAIN SerializePrices
                            \cup DOMAIN SerializeWireless(n)
                              \cup DOMAIN SerializeRelay(n) \cup DOMAIN SerializeEnvironment(n)
                              \cup DOMAIN SerializeMeter(n) \cup DOMAIN SerializeDiag(n)
  BY SerializeOverlaid
<1>2. CASE t \in DOMAIN SystemBuffers
  BY <1>1, <1>2, BufferNames, SerializeNames
<1>3. CASE t \in DOMAIN WirelessBuffers(n)
  BY <1>1, <1>3, BufferNames, SerializeNames
<1>4. CASE t \in DOMAIN PriceBuffers
  BY <1>1, <1>4, BufferNames, SerializeNames
<1>5. CASE t \in DOMAIN RelayBuffers(n)
  BY <1>1, <1>5, BufferNames, SerializeNames
<1>6. CASE t \in DOMAIN MeterBuffers(n)
  BY <1>1, <1>6, BufferNames, SerializeNames
<1>7. CASE t \in DOMAIN DiagBuffers(n)
  BY <1>1, <1>7, BufferNames, SerializeNames
<1> QED  BY <1>2, <1>3, <1>4, <1>5, <1>6, <1>7, BuffersOverlaid

LEMMA RoomForAll ==
  ASSUME NEW n \in Nat, NEW t \in DOMAIN Buffers(n), Sendable(t, n), t # "wireless_channel"
  PROVE  Roomy(t, n)
<1>1. CASE t \in DOMAIN SystemBuffers  BY <1>1, BufferNames, SystemRoom
<1>2. CASE t \in DOMAIN WirelessBuffers(n)  BY <1>2, BufferNames, WirelessRoom
<1>3. CASE t \in DOMAIN PriceBuffers  BY <1>3, BufferNames, PriceRoom
<1>4. CASE t \in DOMAIN RelayBuffers(n)  BY <1>4, BufferNames, RelayRoom
<1>5. CASE t \in DOMAIN MeterBuffers(n)  BY <1>5, BufferNames, MeterRoom
<1>6. CASE t \in DOMAIN DiagBuffers(n)  BY <1>6, BufferNames, DiagRoom
<1> QED  BY <1>1, <1>2, <1>3, <1>4, <1>5, <1>6, BuffersOverlaid

\* The message that a sender makes
LEMMA SentIs ==
  ASSUME NEW n \in Counts, NEW t \in DOMAIN Buffers(n)
  PROVE  LET w == IF t = "wireless_channel" THEN "wireless_tx_power" ELSE t IN
         Sent(t, n) = [of |-> t, type |-> w, len |-> ByteCount(Serialize(n)[w]),
                       cap |-> Buffers(n)[t]]
<1> DEFINE w == IF t = "wireless_channel" THEN "wireless_tx_power" ELSE t
<1>1. Writers(n)[t] = w
  <2>1. t \in DOMAIN Serialize(n)  BY BuffersWritten
  <2> DEFINE d == DOMAIN Serialize(n)
  <2>2. Writers(n) = [[x \in d |-> x] EXCEPT !["wireless_channel"] = "wireless_tx_power"]
    BY DEF Writers, Own, WriterOfChannel
  <2> HIDE DEF d
  <2> QED  BY <2>1, <2>2 DEF d
<1>2. Sent(t, n) = [of |-> t, type |-> Writers(n)[t], len |-> ByteCount(Layouts[n][Writers(n)[t]]),
                    cap |-> Buffers(n)[t]]
  BY DEF Sent, Made
<1>3. Layouts[n] = Serialize(n)  BY DEF Layouts
<1> HIDE DEF w
<1> QED  BY <1>1, <1>2, <1>3 DEF w

\* It is of its type, unless it is the channel, and has room.
GoodMessage(m) == m.len <= m.cap \/ m.of = "wireless_channel"

LEMMA SentGood ==
  ASSUME NEW n \in Counts, NEW t \in DOMAIN Buffers(n), Sendable(t, n)
  PROVE  /\ GoodMessage(Sent(t, n))
         /\ Sent(t, n).type = t \/ t = "wireless_channel"
<1>1. CASE t = "wireless_channel"
  <2>1. Sent(t, n).of = "wireless_channel"  BY <1>1, SentIs
  <2> QED  BY <1>1, <2>1 DEF GoodMessage
<1>2. CASE t # "wireless_channel"
  <2>1. Sent(t, n) = [of |-> t, type |-> t, len |-> ByteCount(Serialize(n)[t]),
                      cap |-> Buffers(n)[t]]
    BY <1>2, SentIs
  <2>2. n \in Nat  BY ProtocolAssumption
  <2>3. ByteCount(Serialize(n)[t]) <= Buffers(n)[t]  BY <1>2, <2>2, RoomForAll DEF Roomy
  <2> QED  BY <2>1, <2>3 DEF GoodMessage
<1> QED  BY <1>1, <1>2

LEMMA SentWithout ==
  ASSUME NEW t \in Answered \cup {"status"}
  PROVE  0 \in Counts /\ t \in DOMAIN Buffers(0) /\ Sendable(t, 0)
<1>1. 0 \in Counts  BY ProtocolAssumption
<1>2. DOMAIN Buffers(0) = DOMAIN SystemBuffers \cup DOMAIN WirelessBuffers(0)
                            \cup DOMAIN PriceBuffers \cup DOMAIN RelayBuffers(0)
                            \cup DOMAIN MeterBuffers(0) \cup DOMAIN DiagBuffers(0)
  BY BuffersOverlaid
<1>3. t \in {"update_installedfw", "update_status", "wireless_status", "wireless_credentials",
             "wireless_tx_power", "wireless_channel", "environment_position",
             "diag_logs_settings", "status"}
  BY DEF Answered
<1>4. t \in DOMAIN Buffers(0)
  <2>1. "update_installedfw" \in DOMAIN SystemBuffers /\ "update_status" \in DOMAIN SystemBuffers
    BY BufferNames
  <2>2. /\ "wireless_status" \in DOMAIN WirelessBuffers(0)
        /\ "wireless_credentials" \in DOMAIN WirelessBuffers(0)
        /\ "wireless_tx_power" \in DOMAIN WirelessBuffers(0)
        /\ "wireless_channel" \in DOMAIN WirelessBuffers(0)
    BY BufferNames
  <2>3. "environment_position" \in DOMAIN MeterBuffers(0)  BY BufferNames
  <2>4. "diag_logs_settings" \in DOMAIN DiagBuffers(0) /\ "status" \in DOMAIN DiagBuffers(0)
    BY BufferNames
  <2> QED  BY <1>2, <1>3, <2>1, <2>2, <2>3, <2>4
<1>5. Sendable(t, 0)  BY <1>3, ProtocolAssumption DEF Sendable
<1> QED  BY <1>1, <1>4, <1>5

\* What the handlers return, a status tells in a byte.
Returned == {0, -1, -2, 1, 3, 257, 258, 259, 261, 262, 12289, 12308}

LEMMA ByteOfReturned ==
  ASSUME NEW code \in Returned
  PROVE  code % 256 = 0 <=> code = 0
<1>1. ASSUME code \in {-1, -2}  PROVE code % 256 = code + 256
  <2>1. 256 \in Nat \ {0} /\ code + 256 \in 0..256-1 /\ -1 \in Int  BY <1>1
  <2>2. (256 * (-1) + (code + 256)) % 256 = code + 256  BY ONLY <2>1, Remainder
  <2>3. 256 * (-1) + (code + 256) = code  BY <1>1
  <2> QED  BY <2>2, <2>3
<1>2. /\ 0 % 256 = 0 /\ 1 % 256 = 1 /\ 3 % 256 = 3 /\ 257 % 256 = 1 /\ 258 % 256 = 2
      /\ 259 % 256 = 3 /\ 261 % 256 = 5 /\ 262 % 256 = 6 /\ 12289 % 256 = 1
      /\ 12308 % 256 = 20
  OBVIOUS
<1>3. CASE code \in {-1, -2}  BY <1>1, <1>3
<1>4. CASE code \notin {-1, -2}  BY <1>2, <1>4 DEF Returned
<1> QED  BY <1>3, <1>4

LEMMA HandlersReturn ==
  ASSUME NEW t
  PROVE  HandlerResults(t) \subseteq Returned
<1>1. Failures \cup {0, InvalidArg, NotSupported, NotFound} \subseteq Returned
  BY DEF Failures, InvalidArg, NotSupported, NotFound, Returned
<1>2. \A x \in DOMAIN SystemHandlers : SystemHandlers[x] \subseteq Failures \cup {0}
  BY DEF SystemHandlers
<1>3. \A x \in DOMAIN WirelessHandlers : WirelessHandlers[x] \subseteq Failures
\cup {0, InvalidArg}
  BY DEF WirelessHandlers
<1>4. \A x \in DOMAIN OtherHandlers : OtherHandlers[x] \subseteq {0, InvalidArg}
  BY DEF OtherHandlers
<1>5. CASE t \in DOMAIN Handlers
  <2>1. HandlerResults(t) = Handlers[t]  BY <1>5 DEF HandlerResults
  <2>2. CASE t \in DOMAIN SystemHandlers
    <3>1. Handlers[t] = SystemHandlers[t]  BY <2>2, HandlersOverlaid
    <3> QED  BY <1>1, <1>2, <2>1, <2>2, <3>1
  <2>3. CASE t \in DOMAIN WirelessHandlers
    <3>1. Handlers[t] = WirelessHandlers[t]  BY <2>3, HandlersOverlaid
    <3> QED  BY <1>1, <1>3, <2>1, <2>3, <3>1
  <2>4. CASE t \in DOMAIN OtherHandlers
    <3>1. Handlers[t] = OtherHandlers[t]  BY <2>4, HandlersOverlaid
    <3> QED  BY <1>1, <1>4, <2>1, <2>4, <3>1
  <2> QED  BY <1>5, <2>2, <2>3, <2>4, HandlersOverlaid
<1>6. CASE t \notin DOMAIN Handlers  BY <1>1, <1>6 DEF HandlerResults
<1> QED  BY <1>5, <1>6

LEMMA GetsReturn ==
  ASSUME NEW r
  PROVE  GetResults(r) \subseteq Returned
<1>1. \A x \in DOMAIN MayFail : MayFail[x] \in {-1, -2}  BY DEF MayFail
<1> QED  BY <1>1 DEF GetResults, Returned, NotFound

LEMMA StatusIs ==
  ASSUME NEW t, NEW code \in Returned
  PROVE  /\ Status(t, code).type = "status" /\ Status(t, code).rq_type = t
         /\ Status(t, code).error = 0 <=> code = 0
         /\ GoodMessage(Status(t, code))
<1> DEFINE s == Sent("status", 0)
           q == [rq_type |-> t, error |-> code % 256]
<1>1. 0 \in Counts /\ "status" \in DOMAIN Buffers(0) /\ Sendable("status", 0)  BY SentWithout
<1>2. s = [of |-> "status", type |-> "status", len |-> ByteCount(Serialize(0)["status"]),
           cap |-> Buffers(0)["status"]]
  BY <1>1, SentIs
<1>3. GoodMessage(s) /\ s.type = "status"  BY <1>1, SentGood
<1>4. DOMAIN s = {"of", "type", "len", "cap"} /\ DOMAIN q = {"rq_type", "error"}  BY <1>2
<1>5. q.rq_type = t /\ q.error = code % 256  OBVIOUS
<1> HIDE DEF s, q
<1>6. DOMAIN s \cap DOMAIN q = {}  BY <1>4
<1>7. /\ \A x \in DOMAIN s : (s ++ q)[x] = s[x]
      /\ \A x \in DOMAIN q : (s ++ q)[x] = q[x]
  BY <1>6, Overlaid
<1>8. /\ (s ++ q).of = s.of /\ (s ++ q).type = s.type
      /\ (s ++ q).len = s.len /\ (s ++ q).cap = s.cap
      /\ (s ++ q).rq_type = q.rq_type /\ (s ++ q).error = q.error
  BY <1>4, <1>7
<1>9. Status(t, code) = s ++ q  BY DEF Status, s, q
<1>10. GoodMessage(s ++ q)  BY <1>3, <1>8 DEF GoodMessage
<1>11. code % 256 = 0 <=> code = 0  BY ByteOfReturned
<1> QED  BY <1>3, <1>5, <1>8, <1>9, <1>10, <1>11

-----------------------------------------------------------------------------
(* Answering                                                               *)

AllGood == \A i \in DOMAIN outgoing : GoodMessage(outgoing[i])

LEMMA OneSent ==
  ASSUME NEW m, SendData(<<m>>)
  PROVE  /\ tx => Len(outgoing') = 1 /\ outgoing'[1] = m
         /\ GoodMessage(m) => AllGood'
<1>1. outgoing' = IF tx THEN <<m>> ELSE <<>>  BY DEF SendData
<1>2. CASE tx  BY <1>1, <1>2 DEF AllGood
<1>3. CASE ~tx  BY <1>1, <1>3 DEF AllGood
<1> QED  BY <1>2, <1>3

LEMMA SilenceGood == outgoing' = <<>> => AllGood'  BY DEF AllGood

\* Whatever comes is answered.
LEMMA MessageAnswered ==
  ASSUME NEW t, NEW n, NEW d, ReceiveMessage(t, n, d)
  PROVE  AnsweredOnce'
<1>1. CASE last'.outcome # "accepted" /\ outgoing' = <<>>
  BY <1>1, SilenceGood DEF AnsweredOnce, AllGood, GoodMessage
<1>2. CASE \E code \in HandlerResults(t) :
             /\ t # "get" /\ last'.type = t /\ last'.ret = code
             /\ SendData(<<Status(t, code)>>)
  <2>1. PICK code \in HandlerResults(t) :
          /\ t # "get" /\ last'.type = t /\ last'.ret = code
          /\ SendData(<<Status(t, code)>>)
    BY <1>2
  <2> DEFINE m == Status(t, code)
  <2>2. m.type = "status" /\ m.rq_type = t /\ (m.error = 0 <=> code = 0) /\ GoodMessage(m)
    BY <2>1, HandlersReturn, StatusIs
  <2> HIDE DEF m
  <2>3. (tx => Len(outgoing') = 1 /\ outgoing'[1] = m) /\ AllGood'
    BY <2>1, <2>2, OneSent DEF m
  <2>4. tx' = tx  BY DEF ReceiveMessage
  <2> QED  BY <2>1, <2>2, <2>3, <2>4 DEF AnsweredOnce, AllGood, GoodMessage
<1>3. \/ last'.outcome # "accepted" /\ outgoing' = <<>>
      \/ \E code \in HandlerResults(t) :
             /\ t # "get" /\ last'.type = t /\ last'.ret = code
             /\ SendData(<<Status(t, code)>>)
  <2> DEFINE o == Outcome[n][t][d]
  <2>1. CASE o # "accepted"
    <3>1. last' = [NoMessage EXCEPT !.type = t, !.n = n, !.delta = d, !.outcome = o]
          /\ outgoing' = <<>>
      BY <2>1 DEF ReceiveMessage
    <3> HIDE DEF o
    <3>2. last'.outcome = o  BY <3>1 DEF NoMessage
    <3> QED  BY <2>1, <3>1, <3>2
  <2>2. CASE o = "accepted"
    <3>1. PICK code \in HandlerResults(t) :
            /\ t # "get"
            /\ last' = [NoMessage EXCEPT !.type = t, !.n = n, !.delta = d, !.outcome = o, !.ret = code]
            /\ SendData(<<Status(t, code)>>)
      BY <2>2 DEF ReceiveMessage
    <3> HIDE DEF o
    <3>2. last'.type = t /\ last'.ret = code  BY <3>1 DEF NoMessage
    <3> QED  BY <3>1, <3>2
  <2> QED  BY <2>1, <2>2
<1> QED  BY <1>1, <1>2, <1>3

LEMMA GetAnswered ==
  ASSUME NEW r, ReceiveGet(r)
  PROVE  AnsweredOnce'
<1>1. PICK code \in GetResults(r) :
        /\ last' = [NoMessage EXCEPT !.type = "get", !.outcome = "accepted", !.rq = r, !.ret = code]
        /\ \/ code # 0 /\ SendData(<<Status("get", code)>>)
           \/ code = 0 /\ r \in Answered /\ SendData(<<Sent(r, 0)>>)
           \/ code = 0 /\ r \in Silent /\ SendData(<<>>)
  BY DEF ReceiveGet
<1>2. last'.type = "get" /\ last'.rq = r /\ last'.ret = code  BY <1>1 DEF NoMessage
<1>3. tx' = tx  BY DEF ReceiveGet
<1>4. CASE code # 0 /\ SendData(<<Status("get", code)>>)
  <2> DEFINE m == Status("get", code)
  <2>1. m.type = "status" /\ m.rq_type = "get" /\ (m.error = 0 <=> code = 0) /\ GoodMessage(m)
    BY <1>1, GetsReturn, StatusIs
  <2> HIDE DEF m
  <2>2. (tx => Len(outgoing') = 1 /\ outgoing'[1] = m) /\ AllGood'
    BY <1>4, <2>1, OneSent DEF m
  <2> QED  BY <1>2, <1>3, <1>4, <2>1, <2>2 DEF AnsweredOnce, AllGood, GoodMessage
<1>5. CASE code = 0 /\ r \in Answered /\ SendData(<<Sent(r, 0)>>)
  <2> DEFINE m == Sent(r, 0)
  <2>1. GoodMessage(m) /\ (m.type = r \/ r = "wireless_channel")  BY <1>5, SentWithout, SentGood
  <2> HIDE DEF m
  <2>2. (tx => Len(outgoing') = 1 /\ outgoing'[1] = m) /\ AllGood'
    BY <1>5, <2>1, OneSent DEF m
  <2> QED  BY <1>2, <1>3, <1>5, <2>1, <2>2 DEF AnsweredOnce, AllGood, GoodMessage
<1>6. CASE code = 0 /\ r \in Silent /\ SendData(<<>>)
  <2>1. outgoing' = <<>>  BY <1>6 DEF SendData
  <2> QED  BY <1>2, <1>6, <2>1, SilenceGood DEF AnsweredOnce, AllGood, GoodMessage
<1> QED  BY <1>1, <1>4, <1>5, <1>6

LEMMA UnknownAnswered ==
  ASSUME NEW t, ReceiveUnknown(t)
  PROVE  AnsweredOnce'
<1>1. last'.outcome = "refused" /\ outgoing' = <<>>  BY DEF ReceiveUnknown, NoMessage
<1> QED  BY <1>1, SilenceGood DEF AnsweredOnce, AllGood, GoodMessage

LEMMA SendingKeeps ==
  ASSUME NEW n \in Counts, NEW t \in DOMAIN Made[n], SendAny(t, n)
  PROVE  AnsweredOnce'
<1>1. last'.outcome = "none"  BY DEF SendAny, NoMessage
<1>2. t \in DOMAIN Buffers(n)  BY DEF Made
<1>3. GoodMessage(Sent(t, n))  BY <1>2, SentGood DEF SendAny
<1>4. AllGood'  BY <1>3, OneSent DEF SendAny
<1> QED  BY <1>1, <1>4 DEF AnsweredOnce, AllGood, GoodMessage

LEMMA RegisteringKeeps ==
  ASSUME RegisterTx
  PROVE  AnsweredOnce'
<1>1. last'.outcome = "none" /\ outgoing' = <<>>  BY DEF RegisterTx, NoMessage
<1> QED  BY <1>1, SilenceGood DEF AnsweredOnce, AllGood, GoodMessage

(***************************************************************************)
(* While the client is online, every request that is accepted is answered  *)
(* exactly once, with a status that tells failure from success or with the *)
(* value asked for (receiver.c:434-437, dispatcher.c), and every message   *)
(* that the senders make has room in the buffer they allocate for it       *)
(* (sender.c), but the channel: for every number of entries that it fits,  *)
(* and every size of a block of the core dump.                             *)
(***************************************************************************)
THEOREM RequestsAreAnsweredOnce == PartsSpec => []AnsweredOnce
<1>1. PartsInit => AnsweredOnce
  <2>1. ProtocolInit => AnsweredOnce
    BY DEF ProtocolInit, AnsweredOnce, NoMessage
  <2> QED  BY <2>1 DEF PartsInit
<1>2. AnsweredOnce /\ [PartsNext]_partsVars => AnsweredOnce'
  <2> SUFFICES ASSUME AnsweredOnce, [PartsNext]_partsVars PROVE AnsweredOnce'  OBVIOUS
  <2>1. CASE UNCHANGED protocolVars
    BY <2>1 DEF protocolVars, AnsweredOnce
  <2>2. CASE Works("protocol") /\ ProtocolNext
    BY <2>2, MessageAnswered, GetAnswered, UnknownAnswered, SendingKeeps,
       RegisteringKeeps
    DEF ProtocolNext
  <2>3. CASE PartsNext /\ ~(Works("protocol") /\ ProtocolNext)
    <3>1. UNCHANGED protocolVars  BY <2>3 DEF PartsNext, Works
    <3> QED  BY <2>1, <3>1
  <2>4. UNCHANGED partsVars => UNCHANGED protocolVars  BY DEF partsVars
  <2> QED  BY <2>1, <2>2, <2>3, <2>4
<1> QED  BY <1>1, <1>2, PTL DEF PartsSpec, partsVars

-----------------------------------------------------------------------------
(* Parsing                                                                 *)

\* The parser reads the fields that are written; of the last run it may
\* read more.
Alike(wire, reads) ==
  /\ wire \in LayoutsOf /\ reads \in LayoutsOf
  /\ Len(wire) >= 1 /\ Len(reads) = Len(wire)
  /\ \A i \in 1..Len(wire) - 1 : reads[i] = wire[i]
  /\ reads[Len(wire)][1] = wire[Len(wire)][1]
  /\ reads[Len(wire)][2] >= wire[Len(wire)][2]

LEMMA AlikeComes ==
  ASSUME NEW wire, NEW reads, Alike(wire, reads)
  PROVE  /\ Len(reads) = Len(wire)
         /\ \A i \in DOMAIN wire : reads[i][1] = wire[i][1] /\ reads[i][2] >= wire[i][2]
         /\ IsPrefix(Front(wire), reads)
<1> DEFINE l == Len(wire)
           f == Front(wire)
<1>1. /\ l \in Nat /\ l >= 1 /\ Len(reads) = l /\ DOMAIN wire = 1..l /\ DOMAIN reads = 1..l
      /\ \A i \in 1..l : wire[i][2] \in Nat
      /\ \A i \in 1..l - 1 : reads[i] = wire[i]
      /\ reads[l][1] = wire[l][1] /\ reads[l][2] >= wire[l][2]
  BY RunsAre DEF Alike
<1>f. f = SubSeq(wire, 1, l - 1)  BY DEF Front
<1> HIDE DEF l, f
<1>2. ASSUME NEW i \in 1..l  PROVE reads[i][1] = wire[i][1] /\ reads[i][2] >= wire[i][2]
  <2>1. CASE i = l  BY <1>1, <2>1
  <2>2. CASE i # l
    <3>1. i \in 1..l - 1  BY <1>1, <2>2
    <3>2. reads[i] = wire[i]  BY <1>1, <3>1
    <3>3. wire[i][2] \in Nat  BY <1>1
    <3> DEFINE k == wire[i][2]
    <3>4. k >= k  BY <3>3
    <3> QED  BY <3>2, <3>4
  <2> QED  BY <2>1, <2>2
<1>3. f = [i \in 1..l - 1 |-> wire[i]] /\ Len(f) = l - 1
  <2>1. wire \in Seq(Widths \X Nat)  BY DEF Alike, LayoutsOf
  <2> QED  BY <1>1, <1>f, <2>1
<1>4. SubSeq(f, 1, Len(f)) = SubSeq(reads, 1, Len(f))
  <2>1. /\ SubSeq(f, 1, l - 1) = [i \in 1..l - 1 |-> f[i]]
        /\ SubSeq(reads, 1, l - 1) = [i \in 1..l - 1 |-> reads[i]]
    <3>1. reads \in Seq(Widths \X Nat) /\ wire \in Seq(Widths \X Nat)  BY DEF Alike, LayoutsOf
    <3>2. \A i \in 1..l - 1 : wire[i] \in Widths \X Nat  BY <3>1, <1>1
    <3>3. l - 1 \in Nat  BY <1>1
    <3>4. f \in [1..(l - 1) -> Widths \X Nat]  BY <3>2, <1>3
    <3>5. f \in Seq(Widths \X Nat)  BY <3>3, <3>4
    <3> QED  BY <1>1, <1>3, <3>1, <3>5
  <2>2. \A i \in 1..l - 1 : f[i] = reads[i]  BY <1>1, <1>3
  <2> QED  BY <1>3, <2>1, <2>2
<1>5. Len(f) <= Len(reads)  BY <1>1, <1>3
<1>6. IsPrefix(f, reads)  BY <1>4, <1>5 DEF IsPrefix
<1> QED  BY <1>1, <1>2, <1>6 DEF f, l

LEMMA NotEmpty ==
  ASSUME NEW w, NEW b \in Nat, b > 0, HasBytes(w, b)
  PROVE  Len(w) >= 1
<1>1. w \in LayoutsOf /\ ByteCount(w) = b  BY DEF HasBytes
<1>2. PICK u \in [0..Len(w) -> Nat] : Counted(u, w) /\ ByteCount(w) = u[Len(w)]
  BY <1>1, BytesCounted
<1>3. Len(w) \in Nat  BY <1>1, RunsAre
<1>4. u[0] = 0  BY <1>2 DEF Counted
<1> QED  BY <1>1, <1>2, <1>3, <1>4

LEMMA AlikeItself ==
  ASSUME NEW w, NEW b \in Nat, b > 0, HasBytes(w, b)
  PROVE  Alike(w, w)
<1>1. w \in LayoutsOf /\ Len(w) >= 1  BY NotEmpty DEF HasBytes
<1>2. Len(w) \in Nat /\ \A i \in 1..Len(w) : w[i][2] \in Nat  BY <1>1, RunsAre
<1> DEFINE l == Len(w)
           k == w[l][2]
<1>3. k \in Nat  BY <1>1, <1>2
<1>4. k >= k  BY <1>3
<1> QED  BY <1>1, <1>4 DEF Alike

\* Arrays that differ in their lengths only
LEMMA AlikeArrays ==
  ASSUME NEW w \in LayoutsOf, NEW x \in Widths, NEW m \in Nat, NEW n \in Nat, n <= m
  PROVE  Alike(w \o Array(n, x), w \o Array(m, x))
<1> DEFINE a == Array(n, x)
           b == Array(m, x)
           l == Len(w)
<1>1. /\ a \in LayoutsOf /\ Len(a) = 1 /\ a[1] = <<x, n>>
      /\ b \in LayoutsOf /\ Len(b) = 1 /\ b[1] = <<x, m>>
  BY BytesOfArray
<1> HIDE DEF a, b
<1>2. /\ w \o a \in LayoutsOf /\ Len(w \o a) = l + 1
      /\ \A i \in 1..l : (w \o a)[i] = w[i]
      /\ (w \o a)[l + 1] = <<x, n>>
  <2>1. /\ w \o a \in LayoutsOf /\ Len(w \o a) = Len(w) + Len(a)
        /\ \A i \in 1..Len(w) : (w \o a)[i] = w[i]
        /\ \A i \in 1..Len(a) : (w \o a)[Len(w) + i] = a[i]
    BY <1>1, LayoutsJoined
  <2>2. 1 \in 1..Len(a)  BY <1>1
  <2> QED  BY <1>1, <2>1, <2>2
<1>3. /\ w \o b \in LayoutsOf /\ Len(w \o b) = l + 1
      /\ \A i \in 1..l : (w \o b)[i] = w[i]
      /\ (w \o b)[l + 1] = <<x, m>>
  <2>1. /\ w \o b \in LayoutsOf /\ Len(w \o b) = Len(w) + Len(b)
        /\ \A i \in 1..Len(w) : (w \o b)[i] = w[i]
        /\ \A i \in 1..Len(b) : (w \o b)[Len(w) + i] = b[i]
    BY <1>1, LayoutsJoined
  <2>2. 1 \in 1..Len(b)  BY <1>1
  <2> QED  BY <1>1, <2>1, <2>2
<1>4. l \in Nat  BY RunsAre
<1> DEFINE wa == w \o a
           wb == w \o b
<1> HIDE DEF wa, wb, l
<1>5. /\ wa \in LayoutsOf /\ wb \in LayoutsOf /\ Len(wa) = l + 1 /\ Len(wb) = l + 1
      /\ wa[l + 1] = <<x, n>> /\ wb[l + 1] = <<x, m>> /\ \A i \in 1..l : wb[i] = wa[i]
  BY <1>2, <1>3 DEF wa, wb
<1>6. (l + 1) - 1 = l /\ l + 1 >= 1 /\ m >= n  BY <1>4
<1>7. Alike(wa, wb)  BY <1>5, <1>6 DEF Alike
<1> QED  BY <1>7 DEF wa, wb, a, b

\* The server writes w for a type that is parsed into structure s.
WrittenAs(t, s, n, w) ==
  t \in DOMAIN Received \ Bare /\ Received[t] = s /\ Wire(t, n) = w

\* A message of the right length is accepted, and comes through.
Through(t, n) == OutcomeOf(t, n, 0) = "accepted" /\ ComesThrough(t, n)

LEMMA Comes ==
  ASSUME NEW n \in Counts, NEW t, NEW s, NEW w, NEW b \in Nat, b >= 2,
         WrittenAs(t, s, n, w), HasBytes(w, b), Asserts(s, n),
         NEW p, Parse(n)[s] = p, Alike(w, p.reads),
         p.len \in Nat, IF p.exact THEN p.len = b ELSE p.len <= b
  PROVE  Through(t, n)
<1>1. Parsers[n][Received[t]] = p  BY DEF Parsers, WrittenAs
<1>2. ByteCount(Wire(t, n)) + 0 = b  BY DEF WrittenAs, HasBytes
<1>3. t \notin Bare /\ Received[t] = s /\ Wire(t, n) = w  BY DEF WrittenAs
<1>4. OutcomeOf(t, n, 0) = "accepted"
  <2>1. ~(b < 2)  OBVIOUS
  <2>2. ~(IF p.exact THEN b # p.len ELSE b < p.len)
    <3>1. CASE p.exact  BY <3>1
    <3>2. CASE ~p.exact
      <4> DEFINE k == p.len
      <4>1. k <= b /\ k \in Nat  BY <3>2
      <4> HIDE DEF k
      <4>2. ~(b < k)  BY <4>1
      <4> QED  BY <3>2, <4>2 DEF k
    <3> QED  BY <3>1, <3>2
  <2> QED  BY <1>1, <1>2, <1>3, <2>1, <2>2 DEF OutcomeOf
<1>5. ComesThrough(t, n)
  <2>1. /\ Len(p.reads) = Len(w)
        /\ \A i \in DOMAIN w : p.reads[i][1] = w[i][1] /\ p.reads[i][2] >= w[i][2]
        /\ IsPrefix(Front(w), p.reads)
    BY AlikeComes
  <2> QED  BY <1>1, <1>3, <2>1 DEF ComesThrough
<1> QED  BY <1>4, <1>5 DEF Through

\* Which structures the serializer writes: the server's others are modelled by
\* the structure itself.
LEMMA WireIs ==
  ASSUME NEW n \in Counts, NEW t \in DOMAIN Received, t \notin Bare, NEW s, Received[t] = s
  PROVE  /\ s \in DOMAIN Serialize(n) => Wire(t, n) = Serialize(n)[s]
         /\ s \notin DOMAIN Serialize(n) /\ s # "update_start" => Wire(t, n) = Structs[s]
         /\ s \notin DOMAIN Serialize(n) /\ s = "update_start" =>
              Wire(t, n) = Front(Structs[s]) \o Array(n, 1)
<1>1. Layouts[n] = Serialize(n)  BY DEF Layouts
<1> QED  BY <1>1 DEF Wire

LEMMA NotSerialized ==
  ASSUME NEW n
  PROVE  {"connection_status", "identify", "update_start", "update_install", "wireless_enable",
          "energyprice_day", "get"} \cap DOMAIN Serialize(n) = {}
<1>1. ASSUME NEW t \in {"connection_status", "identify", "update_start", "update_install",
                        "wireless_enable", "energyprice_day", "get"}
      PROVE  t \notin DOMAIN Serialize(n)
  <2>1. DOMAIN Serialize(n) =
          DOMAIN SerializeSystem \cup DOMAIN SerializePrices \cup DOMAIN SerializeWireless(n)
            \cup DOMAIN SerializeRelay(n) \cup DOMAIN SerializeEnvironment(n)
            \cup DOMAIN SerializeMeter(n) \cup DOMAIN SerializeDiag(n)
    BY SerializeOverlaid
  <2>2. t \notin DOMAIN SerializeSystem /\ t \notin DOMAIN SerializePrices  BY SerializeNames
  <2>3. t \notin DOMAIN SerializeWireless(n) /\ t \notin DOMAIN SerializeRelay(n)
    BY SerializeNames
  <2>4. t \notin DOMAIN SerializeEnvironment(n) /\ t \notin DOMAIN SerializeMeter(n)
    BY SerializeNames
  <2>5. t \notin DOMAIN SerializeDiag(n)  BY SerializeNames
  <2> QED  BY <2>1, <2>2, <2>3, <2>4, <2>5
<1> QED  BY <1>1

\* What comes through: the system's messages
LEMMA SystemThrough ==
  ASSUME NEW n \in Counts
  PROVE  /\ Through("connection_status", n)
         /\ Through("identify", n)
         /\ Through("update_install", n)
<1>1. n \in Nat  BY ProtocolAssumption
<1>2. Through("connection_status", n)
  <2> DEFINE w == F(<<2, 8, 4, 2, 2, 4>>)
             p == Exactly(2 + 8 + 3 * 4, w)
  <2>1. /\ "connection_status" \in DOMAIN ReceivedSystem
        /\ ReceivedSystem["connection_status"] = "connection_status"
    BY DEF ReceivedSystem, Own
  <2>2. /\ "connection_status" \in DOMAIN Received \ Bare
        /\ Received["connection_status"] = "connection_status"
    BY <2>1, ReceivedOverlaid DEF Bare
  <2>3. "connection_status" \in DOMAIN SystemStructs /\ SystemStructs["connection_status"] = w
    BY DEF SystemStructs
  <2>4. "connection_status" \notin DOMAIN Serialize(n) /\ Structs["connection_status"] = w
    BY <2>3, StructsOverlaid, NotSerialized
  <2>5. Wire("connection_status", n) = w  BY <2>2, <2>4, WireIs
  <2>6. HasBytes(Structs["connection_status"], 22)  BY SystemStructBytes
  <2>7. "connection_status" \in DOMAIN ParseSystem(n) /\ ParseSystem(n)["connection_status"] = p
    BY DEF ParseSystem
  <2>8. Parse(n)["connection_status"] = p  BY <2>7, ParseOverlaid
  <2>9. p.exact = TRUE /\ p.len = 22 /\ p.reads = w  BY DEF Exactly
  <2> HIDE DEF w, p
  <2>10. /\ p.len \in Nat /\ 22 \in Nat /\ 22 >= 2 /\ 22 > 0
         /\ IF p.exact THEN p.len = 22 ELSE p.len <= 22
    BY <2>9
  <2>11. HasBytes(w, 22) /\ WrittenAs("connection_status", "connection_status", n, w)
    BY <2>2, <2>4, <2>5, <2>6 DEF WrittenAs
  <2>12. Alike(w, p.reads)  BY <2>9, <2>10, <2>11, AlikeItself
  <2>13. Asserts("connection_status", n)  BY DEF Asserts
  <2> QED  BY <2>8, <2>10, <2>11, <2>12, <2>13, Comes
<1>3. Through("identify", n)
  <2> DEFINE w == F(<<2, 1, 1>>)
             p == Exactly(2 + 2 * 1, w)
  <2>1. "identify" \in DOMAIN ReceivedSystem /\ ReceivedSystem["identify"] = "identify"
    BY DEF ReceivedSystem, Own
  <2>2. "identify" \in DOMAIN Received \ Bare /\ Received["identify"] = "identify"
    BY <2>1, ReceivedOverlaid DEF Bare
  <2>3. "identify" \in DOMAIN SystemStructs /\ SystemStructs["identify"] = w
    BY DEF SystemStructs
  <2>4. "identify" \notin DOMAIN Serialize(n) /\ Structs["identify"] = w
    BY <2>3, StructsOverlaid, NotSerialized
  <2>5. Wire("identify", n) = w  BY <2>2, <2>4, WireIs
  <2>6. HasBytes(Structs["identify"], 4)  BY SystemStructBytes
  <2>7. "identify" \in DOMAIN ParseSystem(n) /\ ParseSystem(n)["identify"] = p
    BY DEF ParseSystem
  <2>8. Parse(n)["identify"] = p  BY <2>7, ParseOverlaid
  <2>9. p.exact = TRUE /\ p.len = 4 /\ p.reads = w  BY DEF Exactly
  <2> HIDE DEF w, p
  <2>10. /\ p.len \in Nat /\ 4 \in Nat /\ 4 >= 2 /\ 4 > 0
         /\ IF p.exact THEN p.len = 4 ELSE p.len <= 4
    BY <2>9
  <2>11. HasBytes(w, 4) /\ WrittenAs("identify", "identify", n, w)
    BY <2>2, <2>4, <2>5, <2>6 DEF WrittenAs
  <2>12. Alike(w, p.reads)  BY <2>9, <2>10, <2>11, AlikeItself
  <2>13. Asserts("identify", n)  BY DEF Asserts
  <2> QED  BY <2>8, <2>10, <2>11, <2>12, <2>13, Comes
<1>4. Through("update_install", n)
  <2> DEFINE w == F(<<2, 4, 4>>)
             p == Exactly(2 * 4 + 2, w)
  <2>1. /\ "update_install" \in DOMAIN ReceivedSystem
        /\ ReceivedSystem["update_install"] = "update_install"
    BY DEF ReceivedSystem, Own
  <2>2. /\ "update_install" \in DOMAIN Received \ Bare
        /\ Received["update_install"] = "update_install"
    BY <2>1, ReceivedOverlaid DEF Bare
  <2>3. "update_install" \in DOMAIN SystemStructs /\ SystemStructs["update_install"] = w
    BY DEF SystemStructs
  <2>4. "update_install" \notin DOMAIN Serialize(n) /\ Structs["update_install"] = w
    BY <2>3, StructsOverlaid, NotSerialized
  <2>5. Wire("update_install", n) = w  BY <2>2, <2>4, WireIs
  <2>6. HasBytes(Structs["update_install"], 10)  BY SystemStructBytes
  <2>7. "update_install" \in DOMAIN ParseSystem(n) /\ ParseSystem(n)["update_install"] = p
    BY DEF ParseSystem
  <2>8. Parse(n)["update_install"] = p  BY <2>7, ParseOverlaid
  <2>9. p.exact = TRUE /\ p.len = 10 /\ p.reads = w  BY DEF Exactly
  <2> HIDE DEF w, p
  <2>10. /\ p.len \in Nat /\ 10 \in Nat /\ 10 >= 2 /\ 10 > 0
         /\ IF p.exact THEN p.len = 10 ELSE p.len <= 10
    BY <2>9
  <2>11. HasBytes(w, 10) /\ WrittenAs("update_install", "update_install", n, w)
    BY <2>2, <2>4, <2>5, <2>6 DEF WrittenAs
  <2>12. Alike(w, p.reads)  BY <2>9, <2>10, <2>11, AlikeItself
  <2>13. Asserts("update_install", n)  BY DEF Asserts
  <2> QED  BY <2>8, <2>10, <2>11, <2>12, <2>13, Comes
<1> QED  BY <1>2, <1>3, <1>4

\* What comes through: the channel and the prices
LEMMA SettingsThrough ==
  ASSUME NEW n \in Counts
  PROVE  /\ Through("wireless_set_channel", n)
         /\ Through("energyprice_day", n)
         /\ Through("energyprice_set_price_threshold", n)
         /\ Through("energyprice_set_cheap_period", n)
         /\ Through("energyprice_set_tariff", n)
<1>1. n \in Nat  BY ProtocolAssumption
<1>2. Through("wireless_set_channel", n)
  <2> DEFINE w == F(<<2, 1, 1>>)
             p == Exactly(2 + 1 + 1, w)
  <2>1. /\ "wireless_set_channel" \in DOMAIN ReceivedWireless
        /\ ReceivedWireless["wireless_set_channel"] = "wireless_channel"
    BY DEF ReceivedWireless
  <2>2. /\ "wireless_set_channel" \in DOMAIN Received \ Bare
        /\ Received["wireless_set_channel"] = "wireless_channel"
    BY <2>1, ReceivedOverlaid DEF Bare
  <2>3. /\ "wireless_channel" \in DOMAIN SerializeWireless(n)
        /\ SerializeWireless(n)["wireless_channel"] = w
    BY DEF SerializeWireless
  <2>4. "wireless_channel" \in DOMAIN Serialize(n) /\ Serialize(n)["wireless_channel"] = w
    BY <2>3, SerializeOverlaid
  <2>5. Wire("wireless_set_channel", n) = w  BY <2>2, <2>4, WireIs
  <2>6. HasBytes(Serialize(n)["wireless_channel"], 4)  BY <1>1, WirelessBytes
  <2>7. "wireless_channel" \in DOMAIN ParseWireless /\ ParseWireless["wireless_channel"] = p
    BY DEF ParseWireless
  <2>8. Parse(n)["wireless_channel"] = p  BY <2>7, ParseOverlaid
  <2>9. p.exact = TRUE /\ p.len = 4 /\ p.reads = w  BY DEF Exactly
  <2> HIDE DEF w, p
  <2>10. /\ p.len \in Nat /\ 4 \in Nat /\ 4 >= 2 /\ 4 > 0
         /\ IF p.exact THEN p.len = 4 ELSE p.len <= 4
    BY <2>9
  <2>11. HasBytes(w, 4) /\ WrittenAs("wireless_set_channel", "wireless_channel", n, w)
    BY <2>2, <2>4, <2>5, <2>6 DEF WrittenAs
  <2>12. Alike(w, p.reads)  BY <2>9, <2>10, <2>11, AlikeItself
  <2>13. Asserts("wireless_channel", n)  BY DEF Asserts
  <2> QED  BY <2>8, <2>10, <2>11, <2>12, <2>13, Comes
<1>3. Through("energyprice_day", n)
  <2> DEFINE w == F(<<2, 2, 8, 1, 2>>) \o Array(QuartersInDay, 2)
             p == AtLeast(8 + 1 + 2 + 2 + 2 + QuartersInDay * 2, w)
  <2>1. /\ "energyprice_day" \in DOMAIN ReceivedPrices
        /\ ReceivedPrices["energyprice_day"] = "energyprice_day"
    BY DEF ReceivedPrices
  <2>2. /\ "energyprice_day" \in DOMAIN Received \ Bare
        /\ Received["energyprice_day"] = "energyprice_day"
    BY <2>1, ReceivedOverlaid DEF Bare
  <2>3. "energyprice_day" \in DOMAIN MeterStructs /\ MeterStructs["energyprice_day"] = w
    BY DEF MeterStructs
  <2>4. "energyprice_day" \notin DOMAIN Serialize(n) /\ Structs["energyprice_day"] = w
    BY <2>3, StructsOverlaid, NotSerialized
  <2>5. Wire("energyprice_day", n) = w  BY <2>2, <2>4, WireIs
  <2>6. HasBytes(Structs["energyprice_day"], 207)  BY MeterStructBytes
  <2>7. "energyprice_day" \in DOMAIN ParseMeter /\ ParseMeter["energyprice_day"] = p
    BY DEF ParseMeter
  <2>8. Parse(n)["energyprice_day"] = p  BY <2>7, ParseOverlaid
  <2>9. p.exact = FALSE /\ p.len = 207 /\ p.reads = w
    BY SizesOfArrays DEF AtLeast
  <2> HIDE DEF w, p
  <2>10. /\ p.len \in Nat /\ 207 \in Nat /\ 207 >= 2 /\ 207 > 0
         /\ IF p.exact THEN p.len = 207 ELSE p.len <= 207
    BY <2>9
  <2>11. HasBytes(w, 207) /\ WrittenAs("energyprice_day", "energyprice_day", n, w)
    BY <2>2, <2>4, <2>5, <2>6 DEF WrittenAs
  <2>12. Alike(w, p.reads)  BY <2>9, <2>10, <2>11, AlikeItself
  <2>13. Asserts("energyprice_day", n)  BY DEF Asserts
  <2> QED  BY <2>8, <2>10, <2>11, <2>12, <2>13, Comes
<1>4. Through("energyprice_set_price_threshold", n)
  <2> DEFINE w == F(<<2, 4>>)
             p == Exactly(2 + 4, w)
  <2>1. /\ "energyprice_set_price_threshold" \in DOMAIN ReceivedPrices
        /\ ReceivedPrices["energyprice_set_price_threshold"] = "energyprice_price_threshold"
    BY DEF ReceivedPrices
  <2>2. /\ "energyprice_set_price_threshold" \in DOMAIN Received \ Bare
        /\ Received["energyprice_set_price_threshold"] = "energyprice_price_threshold"
    BY <2>1, ReceivedOverlaid DEF Bare
  <2>3. /\ "energyprice_price_threshold" \in DOMAIN SerializeEnvironment(n)
        /\ SerializeEnvironment(n)["energyprice_price_threshold"] = w
    BY DEF SerializeEnvironment
  <2>4. /\ "energyprice_price_threshold" \in DOMAIN Serialize(n)
        /\ Serialize(n)["energyprice_price_threshold"] = w
    BY <2>3, SerializeOverlaid
  <2>5. Wire("energyprice_set_price_threshold", n) = w  BY <2>2, <2>4, WireIs
  <2>6. HasBytes(Serialize(n)["energyprice_price_threshold"], 6)  BY <1>1, EnvironmentBytes
  <2>7. /\ "energyprice_price_threshold" \in DOMAIN ParseMeter
        /\ ParseMeter["energyprice_price_threshold"] = p
    BY DEF ParseMeter
  <2>8. Parse(n)["energyprice_price_threshold"] = p  BY <2>7, ParseOverlaid
  <2>9. p.exact = TRUE /\ p.len = 6 /\ p.reads = w  BY DEF Exactly
  <2> HIDE DEF w, p
  <2>10. /\ p.len \in Nat /\ 6 \in Nat /\ 6 >= 2 /\ 6 > 0
         /\ IF p.exact THEN p.len = 6 ELSE p.len <= 6
    BY <2>9
  <2>11. /\ HasBytes(w, 6)
         /\ WrittenAs("energyprice_set_price_threshold", "energyprice_price_threshold", n, w)
    BY <2>2, <2>4, <2>5, <2>6 DEF WrittenAs
  <2>12. Alike(w, p.reads)  BY <2>9, <2>10, <2>11, AlikeItself
  <2>13. Asserts("energyprice_price_threshold", n)  BY DEF Asserts
  <2> QED  BY <2>8, <2>10, <2>11, <2>12, <2>13, Comes
<1>5. Through("energyprice_set_cheap_period", n)
  <2> DEFINE w == F(<<2, 1>>)
             p == Exactly(2 + 1, w)
  <2>1. /\ "energyprice_set_cheap_period" \in DOMAIN ReceivedPrices
        /\ ReceivedPrices["energyprice_set_cheap_period"] = "energyprice_cheap_period"
    BY DEF ReceivedPrices
  <2>2. /\ "energyprice_set_cheap_period" \in DOMAIN Received \ Bare
        /\ Received["energyprice_set_cheap_period"] = "energyprice_cheap_period"
    BY <2>1, ReceivedOverlaid DEF Bare
  <2>3. /\ "energyprice_cheap_period" \in DOMAIN SerializePrices
        /\ SerializePrices["energyprice_cheap_period"] = w
    BY DEF SerializePrices
  <2>4. /\ "energyprice_cheap_period" \in DOMAIN Serialize(n)
        /\ Serialize(n)["energyprice_cheap_period"] = w
    BY <2>3, SerializeOverlaid
  <2>5. Wire("energyprice_set_cheap_period", n) = w  BY <2>2, <2>4, WireIs
  <2>6. HasBytes(Serialize(n)["energyprice_cheap_period"], 3)  BY <1>1, PriceBytes
  <2>7. /\ "energyprice_cheap_period" \in DOMAIN ParseMeter
        /\ ParseMeter["energyprice_cheap_period"] = p
    BY DEF ParseMeter
  <2>8. Parse(n)["energyprice_cheap_period"] = p  BY <2>7, ParseOverlaid
  <2>9. p.exact = TRUE /\ p.len = 3 /\ p.reads = w  BY DEF Exactly
  <2> HIDE DEF w, p
  <2>10. /\ p.len \in Nat /\ 3 \in Nat /\ 3 >= 2 /\ 3 > 0
         /\ IF p.exact THEN p.len = 3 ELSE p.len <= 3
    BY <2>9
  <2>11. /\ HasBytes(w, 3)
         /\ WrittenAs("energyprice_set_cheap_period", "energyprice_cheap_period", n, w)
    BY <2>2, <2>4, <2>5, <2>6 DEF WrittenAs
  <2>12. Alike(w, p.reads)  BY <2>9, <2>10, <2>11, AlikeItself
  <2>13. Asserts("energyprice_cheap_period", n)  BY DEF Asserts
  <2> QED  BY <2>8, <2>10, <2>11, <2>12, <2>13, Comes
<1>6. Through("energyprice_set_tariff", n)
  <2> DEFINE w == F(<<2, 2>>)
             p == Exactly(2 + 2, w)
  <2>1. /\ "energyprice_set_tariff" \in DOMAIN ReceivedPrices
        /\ ReceivedPrices["energyprice_set_tariff"] = "energyprice_tariff"
    BY DEF ReceivedPrices
  <2>2. /\ "energyprice_set_tariff" \in DOMAIN Received \ Bare
        /\ Received["energyprice_set_tariff"] = "energyprice_tariff"
    BY <2>1, ReceivedOverlaid DEF Bare
  <2>3. /\ "energyprice_tariff" \in DOMAIN SerializePrices
        /\ SerializePrices["energyprice_tariff"] = w
    BY DEF SerializePrices
  <2>4. "energyprice_tariff" \in DOMAIN Serialize(n) /\ Serialize(n)["energyprice_tariff"] = w
    BY <2>3, SerializeOverlaid
  <2>5. Wire("energyprice_set_tariff", n) = w  BY <2>2, <2>4, WireIs
  <2>6. HasBytes(Serialize(n)["energyprice_tariff"], 4)  BY <1>1, PriceBytes
  <2>7. "energyprice_tariff" \in DOMAIN ParseMeter /\ ParseMeter["energyprice_tariff"] = p
    BY DEF ParseMeter
  <2>8. Parse(n)["energyprice_tariff"] = p  BY <2>7, ParseOverlaid
  <2>9. p.exact = TRUE /\ p.len = 4 /\ p.reads = w  BY DEF Exactly
  <2> HIDE DEF w, p
  <2>10. /\ p.len \in Nat /\ 4 \in Nat /\ 4 >= 2 /\ 4 > 0
         /\ IF p.exact THEN p.len = 4 ELSE p.len <= 4
    BY <2>9
  <2>11. HasBytes(w, 4) /\ WrittenAs("energyprice_set_tariff", "energyprice_tariff", n, w)
    BY <2>2, <2>4, <2>5, <2>6 DEF WrittenAs
  <2>12. Alike(w, p.reads)  BY <2>9, <2>10, <2>11, AlikeItself
  <2>13. Asserts("energyprice_tariff", n)  BY DEF Asserts
  <2> QED  BY <2>8, <2>10, <2>11, <2>12, <2>13, Comes
<1> QED  BY <1>2, <1>3, <1>4, <1>5, <1>6

\* What comes through: the relay's
LEMMA RelayThrough ==
  ASSUME NEW n \in Counts
  PROVE  /\ Through("relay_set_mode", n)
         /\ Through("relay_set_state", n)
         /\ Through("relay_set_default_state", n)
         /\ Through("relay_set_inverted_output", n)
         /\ Through("relay_set_pwm", n)
         /\ Through("relay_set_one_shot", n)
         /\ (n = ScheduleLen => Through("relay_set_schedule", n))
<1>1. n \in Nat  BY ProtocolAssumption
<1>2. Through("relay_set_mode", n)
  <2> DEFINE w == F(<<2, 1>>)
             p == Exactly(2 + 1, w)
  <2>1. /\ "relay_set_mode" \in DOMAIN ReceivedRelay
        /\ ReceivedRelay["relay_set_mode"] = "relay_mode"
    BY DEF ReceivedRelay
  <2>2. "relay_set_mode" \in DOMAIN Received \ Bare /\ Received["relay_set_mode"] = "relay_mode"
    BY <2>1, ReceivedOverlaid DEF Bare
  <2>3. "relay_mode" \in DOMAIN SerializeRelay(n) /\ SerializeRelay(n)["relay_mode"] = w
    BY DEF SerializeRelay
  <2>4. "relay_mode" \in DOMAIN Serialize(n) /\ Serialize(n)["relay_mode"] = w
    BY <2>3, SerializeOverlaid
  <2>5. Wire("relay_set_mode", n) = w  BY <2>2, <2>4, WireIs
  <2>6. HasBytes(Serialize(n)["relay_mode"], 3)  BY <1>1, RelayBytes
  <2>7. "relay_mode" \in DOMAIN ParseRelay(n) /\ ParseRelay(n)["relay_mode"] = p
    BY DEF ParseRelay
  <2>8. Parse(n)["relay_mode"] = p  BY <2>7, ParseOverlaid
  <2>9. p.exact = TRUE /\ p.len = 3 /\ p.reads = w  BY DEF Exactly
  <2> HIDE DEF w, p
  <2>10. /\ p.len \in Nat /\ 3 \in Nat /\ 3 >= 2 /\ 3 > 0
         /\ IF p.exact THEN p.len = 3 ELSE p.len <= 3
    BY <2>9
  <2>11. HasBytes(w, 3) /\ WrittenAs("relay_set_mode", "relay_mode", n, w)
    BY <2>2, <2>4, <2>5, <2>6 DEF WrittenAs
  <2>12. Alike(w, p.reads)  BY <2>9, <2>10, <2>11, AlikeItself
  <2>13. Asserts("relay_mode", n)  BY DEF Asserts
  <2> QED  BY <2>8, <2>10, <2>11, <2>12, <2>13, Comes
<1>3. Through("relay_set_state", n)
  <2> DEFINE w == F(<<2, 1>>)
             p == Exactly(2 + 1, w)
  <2>1. /\ "relay_set_state" \in DOMAIN ReceivedRelay
        /\ ReceivedRelay["relay_set_state"] = "relay_state"
    BY DEF ReceivedRelay
  <2>2. /\ "relay_set_state" \in DOMAIN Received \ Bare
        /\ Received["relay_set_state"] = "relay_state"
    BY <2>1, ReceivedOverlaid DEF Bare
  <2>3. "relay_state" \in DOMAIN SerializeRelay(n) /\ SerializeRelay(n)["relay_state"] = w
    BY DEF SerializeRelay
  <2>4. "relay_state" \in DOMAIN Serialize(n) /\ Serialize(n)["relay_state"] = w
    BY <2>3, SerializeOverlaid
  <2>5. Wire("relay_set_state", n) = w  BY <2>2, <2>4, WireIs
  <2>6. HasBytes(Serialize(n)["relay_state"], 3)  BY <1>1, RelayBytes
  <2>7. "relay_state" \in DOMAIN ParseRelay(n) /\ ParseRelay(n)["relay_state"] = p
    BY DEF ParseRelay
  <2>8. Parse(n)["relay_state"] = p  BY <2>7, ParseOverlaid
  <2>9. p.exact = TRUE /\ p.len = 3 /\ p.reads = w  BY DEF Exactly
  <2> HIDE DEF w, p
  <2>10. /\ p.len \in Nat /\ 3 \in Nat /\ 3 >= 2 /\ 3 > 0
         /\ IF p.exact THEN p.len = 3 ELSE p.len <= 3
    BY <2>9
  <2>11. HasBytes(w, 3) /\ WrittenAs("relay_set_state", "relay_state", n, w)
    BY <2>2, <2>4, <2>5, <2>6 DEF WrittenAs
  <2>12. Alike(w, p.reads)  BY <2>9, <2>10, <2>11, AlikeItself
  <2>13. Asserts("relay_state", n)  BY DEF Asserts
  <2> QED  BY <2>8, <2>10, <2>11, <2>12, <2>13, Comes
<1>4. Through("relay_set_default_state", n)
  <2> DEFINE w == F(<<2, 1>>)
             p == Exactly(2 + 1, w)
  <2>1. /\ "relay_set_default_state" \in DOMAIN ReceivedRelay
        /\ ReceivedRelay["relay_set_default_state"] = "relay_default_state"
    BY DEF ReceivedRelay
  <2>2. /\ "relay_set_default_state" \in DOMAIN Received \ Bare
        /\ Received["relay_set_default_state"] = "relay_default_state"
    BY <2>1, ReceivedOverlaid DEF Bare
  <2>3. /\ "relay_default_state" \in DOMAIN SerializeRelay(n)
        /\ SerializeRelay(n)["relay_default_state"] = w
    BY DEF SerializeRelay
  <2>4. "relay_default_state" \in DOMAIN Serialize(n) /\ Serialize(n)["relay_default_state"] = w
    BY <2>3, SerializeOverlaid
  <2>5. Wire("relay_set_default_state", n) = w  BY <2>2, <2>4, WireIs
  <2>6. HasBytes(Serialize(n)["relay_default_state"], 3)  BY <1>1, RelayBytes
  <2>7. /\ "relay_default_state" \in DOMAIN ParseRelay(n)
        /\ ParseRelay(n)["relay_default_state"] = p
    BY DEF ParseRelay
  <2>8. Parse(n)["relay_default_state"] = p  BY <2>7, ParseOverlaid
  <2>9. p.exact = TRUE /\ p.len = 3 /\ p.reads = w  BY DEF Exactly
  <2> HIDE DEF w, p
  <2>10. /\ p.len \in Nat /\ 3 \in Nat /\ 3 >= 2 /\ 3 > 0
         /\ IF p.exact THEN p.len = 3 ELSE p.len <= 3
    BY <2>9
  <2>11. HasBytes(w, 3) /\ WrittenAs("relay_set_default_state", "relay_default_state", n, w)
    BY <2>2, <2>4, <2>5, <2>6 DEF WrittenAs
  <2>12. Alike(w, p.reads)  BY <2>9, <2>10, <2>11, AlikeItself
  <2>13. Asserts("relay_default_state", n)  BY DEF Asserts
  <2> QED  BY <2>8, <2>10, <2>11, <2>12, <2>13, Comes
<1>5. Through("relay_set_inverted_output", n)
  <2> DEFINE w == F(<<2, 1>>)
             p == Exactly(2 + 1, w)
  <2>1. /\ "relay_set_inverted_output" \in DOMAIN ReceivedRelay
        /\ ReceivedRelay["relay_set_inverted_output"] = "relay_inverted_output"
    BY DEF ReceivedRelay
  <2>2. /\ "relay_set_inverted_output" \in DOMAIN Received \ Bare
        /\ Received["relay_set_inverted_output"] = "relay_inverted_output"
    BY <2>1, ReceivedOverlaid DEF Bare
  <2>3. /\ "relay_inverted_output" \in DOMAIN SerializeRelay(n)
        /\ SerializeRelay(n)["relay_inverted_output"] = w
    BY DEF SerializeRelay
  <2>4. /\ "relay_inverted_output" \in DOMAIN Serialize(n)
        /\ Serialize(n)["relay_inverted_output"] = w
    BY <2>3, SerializeOverlaid
  <2>5. Wire("relay_set_inverted_output", n) = w  BY <2>2, <2>4, WireIs
  <2>6. HasBytes(Serialize(n)["relay_inverted_output"], 3)  BY <1>1, RelayBytes
  <2>7. /\ "relay_inverted_output" \in DOMAIN ParseRelay(n)
        /\ ParseRelay(n)["relay_inverted_output"] = p
    BY DEF ParseRelay
  <2>8. Parse(n)["relay_inverted_output"] = p  BY <2>7, ParseOverlaid
  <2>9. p.exact = TRUE /\ p.len = 3 /\ p.reads = w  BY DEF Exactly
  <2> HIDE DEF w, p
  <2>10. /\ p.len \in Nat /\ 3 \in Nat /\ 3 >= 2 /\ 3 > 0
         /\ IF p.exact THEN p.len = 3 ELSE p.len <= 3
    BY <2>9
  <2>11. HasBytes(w, 3) /\ WrittenAs("relay_set_inverted_output", "relay_inverted_output", n, w)
    BY <2>2, <2>4, <2>5, <2>6 DEF WrittenAs
  <2>12. Alike(w, p.reads)  BY <2>9, <2>10, <2>11, AlikeItself
  <2>13. Asserts("relay_inverted_output", n)  BY DEF Asserts
  <2> QED  BY <2>8, <2>10, <2>11, <2>12, <2>13, Comes
<1>6. Through("relay_set_pwm", n)
  <2> DEFINE w == F(<<2, 1, 2, 1>>)
             p == Exactly(2 * 2 + 2 * 1, w)
  <2>1. "relay_set_pwm" \in DOMAIN ReceivedRelay /\ ReceivedRelay["relay_set_pwm"] = "relay_pwm"
    BY DEF ReceivedRelay
  <2>2. "relay_set_pwm" \in DOMAIN Received \ Bare /\ Received["relay_set_pwm"] = "relay_pwm"
    BY <2>1, ReceivedOverlaid DEF Bare
  <2>3. "relay_pwm" \in DOMAIN SerializeRelay(n) /\ SerializeRelay(n)["relay_pwm"] = w
    BY DEF SerializeRelay
  <2>4. "relay_pwm" \in DOMAIN Serialize(n) /\ Serialize(n)["relay_pwm"] = w
    BY <2>3, SerializeOverlaid
  <2>5. Wire("relay_set_pwm", n) = w  BY <2>2, <2>4, WireIs
  <2>6. HasBytes(Serialize(n)["relay_pwm"], 6)  BY <1>1, RelayBytes
  <2>7. "relay_pwm" \in DOMAIN ParseRelay(n) /\ ParseRelay(n)["relay_pwm"] = p
    BY DEF ParseRelay
  <2>8. Parse(n)["relay_pwm"] = p  BY <2>7, ParseOverlaid
  <2>9. p.exact = TRUE /\ p.len = 6 /\ p.reads = w  BY DEF Exactly
  <2> HIDE DEF w, p
  <2>10. /\ p.len \in Nat /\ 6 \in Nat /\ 6 >= 2 /\ 6 > 0
         /\ IF p.exact THEN p.len = 6 ELSE p.len <= 6
    BY <2>9
  <2>11. HasBytes(w, 6) /\ WrittenAs("relay_set_pwm", "relay_pwm", n, w)
    BY <2>2, <2>4, <2>5, <2>6 DEF WrittenAs
  <2>12. Alike(w, p.reads)  BY <2>9, <2>10, <2>11, AlikeItself
  <2>13. Asserts("relay_pwm", n)  BY DEF Asserts
  <2> QED  BY <2>8, <2>10, <2>11, <2>12, <2>13, Comes
<1>7. Through("relay_set_one_shot", n)
  <2> DEFINE w == F(<<2, 1, 8, 8, 1>>)
             p == Exactly(2 + 1 + 8 + 8 + 1, w)
  <2>1. /\ "relay_set_one_shot" \in DOMAIN ReceivedRelay
        /\ ReceivedRelay["relay_set_one_shot"] = "relay_one_shot"
    BY DEF ReceivedRelay
  <2>2. /\ "relay_set_one_shot" \in DOMAIN Received \ Bare
        /\ Received["relay_set_one_shot"] = "relay_one_shot"
    BY <2>1, ReceivedOverlaid DEF Bare
  <2>3. "relay_one_shot" \in DOMAIN SerializeRelay(n) /\ SerializeRelay(n)["relay_one_shot"] = w
    BY DEF SerializeRelay
  <2>4. "relay_one_shot" \in DOMAIN Serialize(n) /\ Serialize(n)["relay_one_shot"] = w
    BY <2>3, SerializeOverlaid
  <2>5. Wire("relay_set_one_shot", n) = w  BY <2>2, <2>4, WireIs
  <2>6. HasBytes(Serialize(n)["relay_one_shot"], 20)  BY <1>1, RelayBytes
  <2>7. "relay_one_shot" \in DOMAIN ParseRelay(n) /\ ParseRelay(n)["relay_one_shot"] = p
    BY DEF ParseRelay
  <2>8. Parse(n)["relay_one_shot"] = p  BY <2>7, ParseOverlaid
  <2>9. p.exact = TRUE /\ p.len = 20 /\ p.reads = w  BY DEF Exactly
  <2> HIDE DEF w, p
  <2>10. /\ p.len \in Nat /\ 20 \in Nat /\ 20 >= 2 /\ 20 > 0
         /\ IF p.exact THEN p.len = 20 ELSE p.len <= 20
    BY <2>9
  <2>11. HasBytes(w, 20) /\ WrittenAs("relay_set_one_shot", "relay_one_shot", n, w)
    BY <2>2, <2>4, <2>5, <2>6 DEF WrittenAs
  <2>12. Alike(w, p.reads)  BY <2>9, <2>10, <2>11, AlikeItself
  <2>13. Asserts("relay_one_shot", n)  BY DEF Asserts
  <2> QED  BY <2>8, <2>10, <2>11, <2>12, <2>13, Comes
<1>8. ASSUME n = ScheduleLen  PROVE Through("relay_set_schedule", n)
  <2> DEFINE w == F(<<2, 2>>) \o Array(ScheduleLen, 1)
             p == AtLeast(2 + 2 + ScheduleLen, w)
  <2>1. /\ "relay_set_schedule" \in DOMAIN ReceivedRelay
        /\ ReceivedRelay["relay_set_schedule"] = "relay_schedule"
    BY DEF ReceivedRelay
  <2>2. /\ "relay_set_schedule" \in DOMAIN Received \ Bare
        /\ Received["relay_set_schedule"] = "relay_schedule"
    BY <2>1, ReceivedOverlaid DEF Bare
  <2>3. "relay_schedule" \in DOMAIN SerializeRelay(n) /\ SerializeRelay(n)["relay_schedule"] = w
    BY DEF SerializeRelay
  <2>4. "relay_schedule" \in DOMAIN Serialize(n) /\ Serialize(n)["relay_schedule"] = w
    BY <2>3, SerializeOverlaid
  <2>5. Wire("relay_set_schedule", n) = w  BY <2>2, <2>4, WireIs
  <2>6. HasBytes(Serialize(n)["relay_schedule"], 88)  BY <1>1, RelayBytes
  <2>7. "relay_schedule" \in DOMAIN ParseRelay(n) /\ ParseRelay(n)["relay_schedule"] = p
    BY DEF ParseRelay
  <2>8. Parse(n)["relay_schedule"] = p  BY <2>7, ParseOverlaid
  <2>9. p.exact = FALSE /\ p.len = 88 /\ p.reads = w
    BY SizesOfArrays DEF AtLeast
  <2> HIDE DEF w, p
  <2>10. /\ p.len \in Nat /\ 88 \in Nat /\ 88 >= 2 /\ 88 > 0
         /\ IF p.exact THEN p.len = 88 ELSE p.len <= 88
    BY <2>9
  <2>11. HasBytes(w, 88) /\ WrittenAs("relay_set_schedule", "relay_schedule", n, w)
    BY <2>2, <2>4, <2>5, <2>6 DEF WrittenAs
  <2>12. Alike(w, p.reads)  BY <2>9, <2>10, <2>11, AlikeItself
  <2>13. Asserts("relay_schedule", n)  BY <1>8 DEF Asserts
  <2> QED  BY <2>8, <2>10, <2>11, <2>12, <2>13, Comes
<1> QED  BY <1>2, <1>3, <1>4, <1>5, <1>6, <1>7, <1>8

\* What comes through: the others
LEMMA OtherThrough ==
  ASSUME NEW n \in Counts
  PROVE  /\ Through("environment_set_sunny_time", n)
         /\ Through("environment_set_position", n)
         /\ Through("meter_set_current_limit", n)
         /\ Through("meter_clear_alarms", n)
         /\ Through("status", n)
         /\ Through("get", n)
<1>1. n \in Nat  BY ProtocolAssumption
<1>2. Through("environment_set_sunny_time", n)
  <2> DEFINE w == F(<<2, 1>>)
             p == Exactly(2 + 1, w)
  <2>1. /\ "environment_set_sunny_time" \in DOMAIN ReceivedOther
        /\ ReceivedOther["environment_set_sunny_time"] = "environment_sunny_time"
    BY DEF ReceivedOther
  <2>2. /\ "environment_set_sunny_time" \in DOMAIN Received \ Bare
        /\ Received["environment_set_sunny_time"] = "environment_sunny_time"
    BY <2>1, ReceivedOverlaid DEF Bare
  <2>3. /\ "environment_sunny_time" \in DOMAIN SerializeEnvironment(n)
        /\ SerializeEnvironment(n)["environment_sunny_time"] = w
    BY DEF SerializeEnvironment
  <2>4. /\ "environment_sunny_time" \in DOMAIN Serialize(n)
        /\ Serialize(n)["environment_sunny_time"] = w
    BY <2>3, SerializeOverlaid
  <2>5. Wire("environment_set_sunny_time", n) = w  BY <2>2, <2>4, WireIs
  <2>6. HasBytes(Serialize(n)["environment_sunny_time"], 3)  BY <1>1, EnvironmentBytes
  <2>7. /\ "environment_sunny_time" \in DOMAIN ParseOther
        /\ ParseOther["environment_sunny_time"] = p
    BY DEF ParseOther
  <2>8. Parse(n)["environment_sunny_time"] = p  BY <2>7, ParseOverlaid
  <2>9. p.exact = TRUE /\ p.len = 3 /\ p.reads = w  BY DEF Exactly
  <2> HIDE DEF w, p
  <2>10. /\ p.len \in Nat /\ 3 \in Nat /\ 3 >= 2 /\ 3 > 0
         /\ IF p.exact THEN p.len = 3 ELSE p.len <= 3
    BY <2>9
  <2>11. HasBytes(w, 3) /\ WrittenAs("environment_set_sunny_time", "environment_sunny_time", n, w)
    BY <2>2, <2>4, <2>5, <2>6 DEF WrittenAs
  <2>12. Alike(w, p.reads)  BY <2>9, <2>10, <2>11, AlikeItself
  <2>13. Asserts("environment_sunny_time", n)  BY DEF Asserts
  <2> QED  BY <2>8, <2>10, <2>11, <2>12, <2>13, Comes
<1>3. Through("environment_set_position", n)
  <2> DEFINE w == F(<<2, 8, 8>>)
             p == AtLeast(2 + 2 * 4, w)
  <2>1. /\ "environment_set_position" \in DOMAIN ReceivedOther
        /\ ReceivedOther["environment_set_position"] = "environment_position"
    BY DEF ReceivedOther
  <2>2. /\ "environment_set_position" \in DOMAIN Received \ Bare
        /\ Received["environment_set_position"] = "environment_position"
    BY <2>1, ReceivedOverlaid DEF Bare
  <2>3. /\ "environment_position" \in DOMAIN SerializeEnvironment(n)
        /\ SerializeEnvironment(n)["environment_position"] = w
    BY DEF SerializeEnvironment
  <2>4. /\ "environment_position" \in DOMAIN Serialize(n)
        /\ Serialize(n)["environment_position"] = w
    BY <2>3, SerializeOverlaid
  <2>5. Wire("environment_set_position", n) = w  BY <2>2, <2>4, WireIs
  <2>6. HasBytes(Serialize(n)["environment_position"], 18)  BY <1>1, EnvironmentBytes
  <2>7. "environment_position" \in DOMAIN ParseOther /\ ParseOther["environment_position"] = p
    BY DEF ParseOther
  <2>8. Parse(n)["environment_position"] = p  BY <2>7, ParseOverlaid
  <2>9. p.exact = FALSE /\ p.len = 10 /\ p.reads = w
    BY SizesOfArrays DEF AtLeast
  <2> HIDE DEF w, p
  <2>10. /\ p.len \in Nat /\ 18 \in Nat /\ 18 >= 2 /\ 18 > 0
         /\ IF p.exact THEN p.len = 18 ELSE p.len <= 18
    BY <2>9
  <2>11. HasBytes(w, 18) /\ WrittenAs("environment_set_position", "environment_position", n, w)
    BY <2>2, <2>4, <2>5, <2>6 DEF WrittenAs
  <2>12. Alike(w, p.reads)  BY <2>9, <2>10, <2>11, AlikeItself
  <2>13. Asserts("environment_position", n)  BY DEF Asserts
  <2> QED  BY <2>8, <2>10, <2>11, <2>12, <2>13, Comes
<1>4. Through("meter_set_current_limit", n)
  <2> DEFINE w == F(<<2, 4>>)
             p == Exactly(2 + 4, w)
  <2>1. /\ "meter_set_current_limit" \in DOMAIN ReceivedOther
        /\ ReceivedOther["meter_set_current_limit"] = "meter_current_limit"
    BY DEF ReceivedOther
  <2>2. /\ "meter_set_current_limit" \in DOMAIN Received \ Bare
        /\ Received["meter_set_current_limit"] = "meter_current_limit"
    BY <2>1, ReceivedOverlaid DEF Bare
  <2>3. /\ "meter_current_limit" \in DOMAIN SerializeMeter(n)
        /\ SerializeMeter(n)["meter_current_limit"] = w
    BY DEF SerializeMeter
  <2>4. "meter_current_limit" \in DOMAIN Serialize(n) /\ Serialize(n)["meter_current_limit"] = w
    BY <2>3, SerializeOverlaid
  <2>5. Wire("meter_set_current_limit", n) = w  BY <2>2, <2>4, WireIs
  <2>6. HasBytes(Serialize(n)["meter_current_limit"], 6)  BY <1>1, MeterBytes
  <2>7. "meter_current_limit" \in DOMAIN ParseMeter /\ ParseMeter["meter_current_limit"] = p
    BY DEF ParseMeter
  <2>8. Parse(n)["meter_current_limit"] = p  BY <2>7, ParseOverlaid
  <2>9. p.exact = TRUE /\ p.len = 6 /\ p.reads = w  BY DEF Exactly
  <2> HIDE DEF w, p
  <2>10. /\ p.len \in Nat /\ 6 \in Nat /\ 6 >= 2 /\ 6 > 0
         /\ IF p.exact THEN p.len = 6 ELSE p.len <= 6
    BY <2>9
  <2>11. HasBytes(w, 6) /\ WrittenAs("meter_set_current_limit", "meter_current_limit", n, w)
    BY <2>2, <2>4, <2>5, <2>6 DEF WrittenAs
  <2>12. Alike(w, p.reads)  BY <2>9, <2>10, <2>11, AlikeItself
  <2>13. Asserts("meter_current_limit", n)  BY DEF Asserts
  <2> QED  BY <2>8, <2>10, <2>11, <2>12, <2>13, Comes
<1>5. Through("meter_clear_alarms", n)
  <2> DEFINE w == F(<<2, 8>>)
             p == Exactly(2 + 8, w)
  <2>1. /\ "meter_clear_alarms" \in DOMAIN ReceivedOther
        /\ ReceivedOther["meter_clear_alarms"] = "meter_alarms"
    BY DEF ReceivedOther
  <2>2. /\ "meter_clear_alarms" \in DOMAIN Received \ Bare
        /\ Received["meter_clear_alarms"] = "meter_alarms"
    BY <2>1, ReceivedOverlaid DEF Bare
  <2>3. "meter_alarms" \in DOMAIN SerializeMeter(n) /\ SerializeMeter(n)["meter_alarms"] = w
    BY DEF SerializeMeter
  <2>4. "meter_alarms" \in DOMAIN Serialize(n) /\ Serialize(n)["meter_alarms"] = w
    BY <2>3, SerializeOverlaid
  <2>5. Wire("meter_clear_alarms", n) = w  BY <2>2, <2>4, WireIs
  <2>6. HasBytes(Serialize(n)["meter_alarms"], 10)  BY <1>1, MeterBytes
  <2>7. "meter_alarms" \in DOMAIN ParseMeter /\ ParseMeter["meter_alarms"] = p
    BY DEF ParseMeter
  <2>8. Parse(n)["meter_alarms"] = p  BY <2>7, ParseOverlaid
  <2>9. p.exact = TRUE /\ p.len = 10 /\ p.reads = w  BY DEF Exactly
  <2> HIDE DEF w, p
  <2>10. /\ p.len \in Nat /\ 10 \in Nat /\ 10 >= 2 /\ 10 > 0
         /\ IF p.exact THEN p.len = 10 ELSE p.len <= 10
    BY <2>9
  <2>11. HasBytes(w, 10) /\ WrittenAs("meter_clear_alarms", "meter_alarms", n, w)
    BY <2>2, <2>4, <2>5, <2>6 DEF WrittenAs
  <2>12. Alike(w, p.reads)  BY <2>9, <2>10, <2>11, AlikeItself
  <2>13. Asserts("meter_alarms", n)  BY DEF Asserts
  <2> QED  BY <2>8, <2>10, <2>11, <2>12, <2>13, Comes
<1>6. Through("status", n)
  <2> DEFINE w == F(<<2, 1, 2>>)
             p == Exactly(2 * 2 + 1, w)
  <2>1. "status" \in DOMAIN ReceivedOther /\ ReceivedOther["status"] = "status"
    BY DEF ReceivedOther
  <2>2. "status" \in DOMAIN Received \ Bare /\ Received["status"] = "status"
    BY <2>1, ReceivedOverlaid DEF Bare
  <2>3. "status" \in DOMAIN SerializeDiag(n) /\ SerializeDiag(n)["status"] = w
    BY DEF SerializeDiag
  <2>4. "status" \in DOMAIN Serialize(n) /\ Serialize(n)["status"] = w
    BY <2>3, SerializeOverlaid
  <2>5. Wire("status", n) = w  BY <2>2, <2>4, WireIs
  <2>6. HasBytes(Serialize(n)["status"], 5)  BY <1>1, DiagBytes
  <2>7. "status" \in DOMAIN ParseOther /\ ParseOther["status"] = p  BY DEF ParseOther
  <2>8. Parse(n)["status"] = p  BY <2>7, ParseOverlaid
  <2>9. p.exact = TRUE /\ p.len = 5 /\ p.reads = w  BY DEF Exactly
  <2> HIDE DEF w, p
  <2>10. /\ p.len \in Nat /\ 5 \in Nat /\ 5 >= 2 /\ 5 > 0
         /\ IF p.exact THEN p.len = 5 ELSE p.len <= 5
    BY <2>9
  <2>11. HasBytes(w, 5) /\ WrittenAs("status", "status", n, w)
    BY <2>2, <2>4, <2>5, <2>6 DEF WrittenAs
  <2>12. Alike(w, p.reads)  BY <2>9, <2>10, <2>11, AlikeItself
  <2>13. Asserts("status", n)  BY DEF Asserts
  <2> QED  BY <2>8, <2>10, <2>11, <2>12, <2>13, Comes
<1>7. Through("get", n)
  <2> DEFINE w == F(<<2, 2, 4>>)
             p == Exactly(2 * 2 + 4, w)
  <2>1. "get" \in DOMAIN ReceivedOther /\ ReceivedOther["get"] = "get"  BY DEF ReceivedOther
  <2>2. "get" \in DOMAIN Received \ Bare /\ Received["get"] = "get"
    BY <2>1, ReceivedOverlaid DEF Bare
  <2>3. "get" \in DOMAIN OtherStructs /\ OtherStructs["get"] = w  BY DEF OtherStructs
  <2>4. "get" \notin DOMAIN Serialize(n) /\ Structs["get"] = w
    BY <2>3, StructsOverlaid, NotSerialized
  <2>5. Wire("get", n) = w  BY <2>2, <2>4, WireIs
  <2>6. HasBytes(Structs["get"], 8)  BY OtherStructBytes
  <2>7. "get" \in DOMAIN ParseOther /\ ParseOther["get"] = p  BY DEF ParseOther
  <2>8. Parse(n)["get"] = p  BY <2>7, ParseOverlaid
  <2>9. p.exact = TRUE /\ p.len = 8 /\ p.reads = w  BY DEF Exactly
  <2> HIDE DEF w, p
  <2>10. /\ p.len \in Nat /\ 8 \in Nat /\ 8 >= 2 /\ 8 > 0
         /\ IF p.exact THEN p.len = 8 ELSE p.len <= 8
    BY <2>9
  <2>11. HasBytes(w, 8) /\ WrittenAs("get", "get", n, w)
    BY <2>2, <2>4, <2>5, <2>6 DEF WrittenAs
  <2>12. Alike(w, p.reads)  BY <2>9, <2>10, <2>11, AlikeItself
  <2>13. Asserts("get", n)  BY DEF Asserts
  <2> QED  BY <2>8, <2>10, <2>11, <2>12, <2>13, Comes
<1> QED  BY <1>2, <1>3, <1>4, <1>5, <1>6, <1>7

\* The three whose arrays have as many entries as come
LEMMA ButtonConfigThrough ==
  ASSUME NEW n \in Counts, n <= MaxDefinedModes
  PROVE  Through("relay_set_button_config", n)
<1> DEFINE h == F(<<2, 2>>)
           w == h \o Array(n, 1)
           r == h \o Array(MaxDefinedModes, 1)
           p == Exactly(2 + 2 + n, r)
<1>1. n \in Nat /\ MaxDefinedModes \in Nat  BY ProtocolAssumption, SizesOfArrays
<1>2. 1 \in Widths /\ 2 \in Widths  BY DEF Widths
<1>3. h \in LayoutsOf  BY <1>2, BytesOf2
<1>4. /\ "relay_set_button_config" \in DOMAIN ReceivedRelay
      /\ ReceivedRelay["relay_set_button_config"] = "relay_button_config"
  BY DEF ReceivedRelay
<1>5. /\ "relay_set_button_config" \in DOMAIN Received \ Bare
      /\ Received["relay_set_button_config"] = "relay_button_config"
  BY <1>4, ReceivedOverlaid DEF Bare
<1>6. /\ "relay_button_config" \in DOMAIN SerializeRelay(n)
      /\ SerializeRelay(n)["relay_button_config"] = w
  BY DEF SerializeRelay
<1>7. /\ "relay_button_config" \in DOMAIN Serialize(n)
      /\ Serialize(n)["relay_button_config"] = w
  BY <1>6, SerializeOverlaid
<1>8. Wire("relay_set_button_config", n) = w  BY <1>5, <1>7, WireIs
<1>9. HasBytes(Serialize(n)["relay_button_config"], 4 + n)  BY <1>1, RelayBytes
<1>10. /\ "relay_button_config" \in DOMAIN ParseRelay(n)
       /\ ParseRelay(n)["relay_button_config"] = p
  BY DEF ParseRelay
<1>11. Parse(n)["relay_button_config"] = p  BY <1>10, ParseOverlaid
<1>12. p.exact = TRUE /\ p.len = 2 + 2 + n /\ p.reads = r  BY DEF Exactly
<1> HIDE DEF p, h
<1>13. Alike(w, r)  BY <1>1, <1>2, <1>3, AlikeArrays
<1> HIDE DEF w, r
<1>14. /\ p.len \in Nat /\ 4 + n \in Nat /\ 4 + n >= 2
       /\ IF p.exact THEN p.len = 4 + n ELSE p.len <= 4 + n
  BY <1>1, <1>12
<1>15. HasBytes(w, 4 + n) /\ WrittenAs("relay_set_button_config", "relay_button_config", n, w)
  BY <1>5, <1>7, <1>8, <1>9 DEF WrittenAs
<1>16. Asserts("relay_button_config", n)  BY DEF Asserts
<1>17. Alike(w, p.reads)  BY <1>12, <1>13
<1> DEFINE b == 4 + n
<1> HIDE DEF b
<1>18. b \in Nat /\ b >= 2 /\ HasBytes(w, b) /\ IF p.exact THEN p.len = b ELSE p.len <= b
  BY <1>14, <1>15 DEF b
<1> QED  BY <1>11, <1>14, <1>15, <1>16, <1>17, <1>18, Comes

LEMMA CloudCoverThrough ==
  ASSUME NEW n \in Counts, n = QuartersInDay
  PROVE  Through("environment_cloud_cover", n)
<1> DEFINE h == F(<<2, 8, 2, 2>>)
           w == h \o Array(n, 2)
           p == AtLeast(2 + 8 + 2 + 2, h \o Array(QuartersInDay, 2))
<1>1. n \in Nat /\ n = 96  BY ProtocolAssumption, SizesOfArrays
<1>2. /\ "environment_cloud_cover" \in DOMAIN ReceivedOther
      /\ ReceivedOther["environment_cloud_cover"] = "environment_cloud_cover"
  BY DEF ReceivedOther
<1>3. /\ "environment_cloud_cover" \in DOMAIN Received \ Bare
      /\ Received["environment_cloud_cover"] = "environment_cloud_cover"
  BY <1>2, ReceivedOverlaid DEF Bare
<1>4. /\ "environment_cloud_cover" \in DOMAIN SerializeEnvironment(n)
      /\ SerializeEnvironment(n)["environment_cloud_cover"] = w
  BY DEF SerializeEnvironment
<1>5. /\ "environment_cloud_cover" \in DOMAIN Serialize(n)
      /\ Serialize(n)["environment_cloud_cover"] = w
  BY <1>4, SerializeOverlaid
<1>6. Wire("environment_cloud_cover", n) = w  BY <1>3, <1>5, WireIs
<1>7. HasBytes(Serialize(n)["environment_cloud_cover"], 14 + 2 * n)  BY <1>1, EnvironmentBytes
<1>8. HasBytes(w, 206)
  <2>1. 14 + 2 * n = 206  BY <1>1
  <2> QED  BY <1>5, <1>7, <2>1
<1>9. /\ "environment_cloud_cover" \in DOMAIN ParseOther
      /\ ParseOther["environment_cloud_cover"] = p
  BY DEF ParseOther
<1>10. Parse(n)["environment_cloud_cover"] = p  BY <1>9, ParseOverlaid
<1>11. p.exact = FALSE /\ p.len = 14 /\ p.reads = w  BY DEF AtLeast
<1> HIDE DEF p, w
<1>12. 206 \in Nat /\ 206 > 0  OBVIOUS
<1>13. Alike(w, p.reads)  BY <1>8, <1>11, <1>12, AlikeItself
<1>14. /\ p.len \in Nat /\ 206 >= 2
       /\ IF p.exact THEN p.len = 206 ELSE p.len <= 206
  BY <1>11
<1>15. WrittenAs("environment_cloud_cover", "environment_cloud_cover", n, w)
  BY <1>3, <1>6 DEF WrittenAs
<1>16. Asserts("environment_cloud_cover", n)  BY DEF Asserts
<1> QED  BY <1>8, <1>10, <1>12, <1>13, <1>14, <1>15, <1>16, Comes

LEMMA FrontOfJoined ==
  ASSUME NEW h \in LayoutsOf, NEW a \in LayoutsOf, Len(a) = 1
  PROVE  Front(h \o a) = h
<1> DEFINE j == h \o a
           l == Len(h)
<1>1. j \in LayoutsOf /\ Len(j) = l + 1 /\ \A i \in 1..l : j[i] = h[i]
  <2>1. /\ h \o a \in LayoutsOf /\ Len(h \o a) = Len(h) + Len(a)
        /\ \A i \in 1..Len(h) : (h \o a)[i] = h[i]
    BY LayoutsJoined
  <2> QED  BY <2>1
<1>2. l \in Nat  BY RunsAre
<1>3. h \in Seq(Widths \X Nat) /\ h = [i \in 1..l |-> h[i]]  BY DEF LayoutsOf
<1> HIDE DEF j, l
<1>4. SubSeq(j, 1, l) = [i \in 1..l |-> j[i]]
  <2>1. j \in Seq(Widths \X Nat)  BY <1>1 DEF LayoutsOf
  <2> QED  BY <1>1, <1>2, <2>1
<1>5. (l + 1) - 1 = l  BY <1>2
<1>6. Front(j) = SubSeq(j, 1, l)  BY <1>1, <1>5 DEF Front
<1>7. SubSeq(j, 1, l) = h  BY <1>1, <1>3, <1>4
<1> QED  BY <1>6, <1>7 DEF j

LEMMA UpdateStartThrough ==
  ASSUME NEW n \in Counts, n < ImageUrlMaxLen
  PROVE  Through("update_start", n)
<1> DEFINE h == F(<<2, 2, 1, 4, 4, 4, 1, 2>>)
           w == h \o Array(n, 1)
           a == Array(ImageUrlMaxLen + 1, 1)
           p == Exactly(3 * 4 + 3 * 2 + 2 * 1 + n, w)
<1>1. n \in Nat /\ ImageUrlMaxLen + 1 \in Nat  BY ProtocolAssumption, SizesOfArrays
<1>2. 1 \in Widths /\ 2 \in Widths /\ 4 \in Widths  BY DEF Widths
<1>3. h \in LayoutsOf /\ ByteCount(h) = 20  BY <1>2, BytesOf8
<1>4. "update_start" \in DOMAIN ReceivedSystem /\ ReceivedSystem["update_start"] = "update_start"
  BY DEF ReceivedSystem, Own
<1>5. /\ "update_start" \in DOMAIN Received \ Bare
      /\ Received["update_start"] = "update_start"
  BY <1>4, ReceivedOverlaid DEF Bare
<1>6. "update_start" \in DOMAIN SystemStructs /\ SystemStructs["update_start"] = h \o a
  BY DEF SystemStructs
<1>7. "update_start" \notin DOMAIN Serialize(n) /\ Structs["update_start"] = h \o a
  BY <1>6, StructsOverlaid, NotSerialized
<1>8. "update_start" \in DOMAIN ParseSystem(n) /\ ParseSystem(n)["update_start"] = p
  BY DEF ParseSystem
<1>9. Parse(n)["update_start"] = p  BY <1>8, ParseOverlaid
<1>10. p.exact = TRUE /\ p.len = 3 * 4 + 3 * 2 + 2 * 1 + n /\ p.reads = w  BY DEF Exactly
<1>11. Array(n, 1) = <<<<1, n>>>>  BY DEF Array
<1> HIDE DEF p, h
<1>12. Front(h \o a) = h
  <2>1. a \in LayoutsOf /\ Len(a) = 1  BY <1>1, <1>2, BytesOfArray
  <2> HIDE DEF a
  <2> QED  BY <1>3, <2>1, FrontOfJoined
<1>13. Wire("update_start", n) = w
  <2>1. Wire("update_start", n) = Front(Structs["update_start"]) \o Array(n, 1)
    BY <1>5, <1>7, WireIs
  <2> HIDE DEF a
  <2> QED  BY <1>7, <1>12, <2>1
<1>14. HasBytes(w, 20 + 1 * n)  BY <1>1, <1>2, <1>3, ThenArray DEF HasBytes
<1> HIDE DEF w
<1> DEFINE b == 20 + n
<1>15. b \in Nat /\ b >= 2 /\ b > 0 /\ 20 + 1 * n = b /\ 3 * 4 + 3 * 2 + 2 * 1 + n = b  BY <1>1
<1> HIDE DEF b
<1>16. HasBytes(w, b)  BY <1>14, <1>15
<1>17. Alike(w, p.reads)  BY <1>10, <1>15, <1>16, AlikeItself
<1>18. p.len \in Nat /\ IF p.exact THEN p.len = b ELSE p.len <= b  BY <1>10, <1>15
<1>19. WrittenAs("update_start", "update_start", n, w)  BY <1>5, <1>13 DEF WrittenAs
<1>20. Asserts("update_start", n)  BY DEF Asserts
<1> QED  BY <1>9, <1>15, <1>16, <1>17, <1>18, <1>19, <1>20, Comes

\* The three whose parsers disagree with their messages
LEMMA GarbledStop ==
  ASSUME NEW n \in Counts
  PROVE  /\ OutcomeOf("wireless_enable", n, 0) # "accepted"
         /\ OutcomeOf("wireless_set_credentials", n, 0) # "accepted"
         /\ OutcomeOf("wireless_set_tx_power", n, 0) # "accepted"
<1>1. n \in Nat  BY ProtocolAssumption
<1>2. Parsers[n] = Parse(n)  BY DEF Parsers
<1>3. /\ DOMAIN ReceivedWireless = {"wireless_enable", "wireless_set_credentials",
                                   "wireless_set_tx_power", "wireless_set_channel"}
      /\ ReceivedWireless["wireless_enable"] = "wireless_enable"
      /\ ReceivedWireless["wireless_set_credentials"] = "wireless_credentials"
      /\ ReceivedWireless["wireless_set_tx_power"] = "wireless_tx_power"
  BY DEF ReceivedWireless
<1>4. /\ Received["wireless_enable"] = "wireless_enable"
      /\ Received["wireless_set_credentials"] = "wireless_credentials"
      /\ Received["wireless_set_tx_power"] = "wireless_tx_power"
      /\ {"wireless_enable", "wireless_set_credentials", "wireless_set_tx_power"}
           \subseteq DOMAIN Received
  BY <1>3, ReceivedOverlaid
<1>5. /\ "wireless_enable" \notin Bare /\ "wireless_set_credentials" \notin Bare
      /\ "wireless_set_tx_power" \notin Bare
  BY DEF Bare
<1>6. OutcomeOf("wireless_enable", n, 0) # "accepted"
  <2> DEFINE p == Exactly(2 * 1, F(<<2, 1, 1>>))
  <2>1. Wire("wireless_enable", n) = Structs["wireless_enable"]
    BY <1>4, <1>5, NotSerialized, WireIs
  <2>2. ByteCount(Wire("wireless_enable", n)) + 0 = 4
    BY <2>1, WirelessStructBytes DEF HasBytes
  <2>3. "wireless_enable" \in DOMAIN ParseWireless /\ ParseWireless["wireless_enable"] = p
    BY DEF ParseWireless
  <2>4. Parsers[n][Received["wireless_enable"]] = p
    <3>1. Parse(n)["wireless_enable"] = p  BY <2>3, ParseOverlaid
    <3> HIDE DEF p
    <3> QED  BY <1>2, <1>4, <3>1
  <2>5. p.exact = TRUE /\ p.len = 2  BY DEF Exactly
  <2> HIDE DEF p
  <2> QED  BY <1>5, <2>2, <2>4, <2>5 DEF OutcomeOf
<1>7. OutcomeOf("wireless_set_credentials", n, 0) # "accepted"
  <2>1. ~Asserts(Received["wireless_set_credentials"], n)  BY <1>4 DEF Asserts
  <2> QED  BY <1>5, <2>1 DEF OutcomeOf
<1>8. OutcomeOf("wireless_set_tx_power", n, 0) # "accepted"
  <2> DEFINE p == Exactly(2 + 1 + 1, F(<<2, 1, 2>>))
  <2>1. "wireless_tx_power" \in DOMAIN Serialize(n)
    <3>1. "wireless_tx_power" \in DOMAIN SerializeWireless(n)  BY SerializeNames
    <3> QED  BY <3>1, SerializeOverlaid
  <2>2. Wire("wireless_set_tx_power", n) = Serialize(n)["wireless_tx_power"]
    BY <1>4, <1>5, <2>1, WireIs
  <2>3. ByteCount(Wire("wireless_set_tx_power", n)) + 0 = 5
    BY <1>1, <2>2, WirelessBytes DEF HasBytes
  <2>4. "wireless_tx_power" \in DOMAIN ParseWireless /\ ParseWireless["wireless_tx_power"] = p
    BY DEF ParseWireless
  <2>5. Parsers[n][Received["wireless_set_tx_power"]] = p
    <3>1. Parse(n)["wireless_tx_power"] = p  BY <2>4, ParseOverlaid
    <3> HIDE DEF p
    <3> QED  BY <1>2, <1>4, <3>1
  <2>6. p.exact = TRUE /\ p.len = 4  BY DEF Exactly
  <2> HIDE DEF p
  <2> QED  BY <1>5, <2>3, <2>5, <2>6 DEF OutcomeOf
<1> QED  BY <1>6, <1>7, <1>8

-----------------------------------------------------------------------------
(* What is parsed has room in msg_buffer                                   *)

LEMMA EightIsWidest ==
  ASSUME NEW layout \in LayoutsOf, NEW i \in 1..Len(layout), layout[i][1] = 8
  PROVE  Widest(layout) = 8
<1> DEFINE S == {layout[k][1] : k \in DOMAIN layout} \cup {1}
<1>1. DOMAIN layout = 1..Len(layout) /\ \A k \in 1..Len(layout) : layout[k][1] \in Widths
  BY RunsAre
<1>2. 8 \in S  BY <1>1
<1>3. \A w \in Widths : w \in Int /\ w <= 8  BY DEF Widths
<1>4. S \in SUBSET Int /\ \A y \in S : y <= 8  BY <1>1, <1>3
<1> HIDE DEF S
<1>5. Max(S) = 8  BY <1>2, <1>4, MaxIs
<1> QED  BY <1>5 DEF Widest, S

\* The runs of fields that end in an array
LEMMA FieldsThenArray ==
  ASSUME NEW ws \in Seq(Widths), NEW x \in Widths, NEW m \in Nat
  PROVE  /\ F(ws) \o Array(m, x) \in LayoutsOf
         /\ Len(F(ws) \o Array(m, x)) = Len(ws) + 1
         /\ \A i \in 1..Len(ws) : (F(ws) \o Array(m, x))[i] = <<ws[i], 1>>
         /\ (F(ws) \o Array(m, x))[Len(ws) + 1] = <<x, m>>
<1> DEFINE f == F(ws)
           a == Array(m, x)
<1>1. f \in LayoutsOf /\ Len(f) = Len(ws) /\ \A i \in 1..Len(ws) : f[i] = <<ws[i], 1>>
  BY MembersOfF
<1>2. a \in LayoutsOf /\ Len(a) = 1 /\ a[1] = <<x, m>>  BY BytesOfArray
<1> HIDE DEF f, a
<1>3. /\ f \o a \in LayoutsOf /\ Len(f \o a) = Len(f) + Len(a)
      /\ \A i \in 1..Len(f) : (f \o a)[i] = f[i]
      /\ \A i \in 1..Len(a) : (f \o a)[Len(f) + i] = a[i]
  BY <1>1, <1>2, LayoutsJoined
<1>4. 1 \in 1..Len(a)  BY <1>2
<1> QED  BY <1>1, <1>2, <1>3, <1>4 DEF f, a

\* msg_buffer is as long as the day's prices.
LEMMA DaySize == SizeOf(Structs.energyprice_day) = 216
<1> DEFINE ws == <<2, 2, 8, 1, 2>>
           l == F(ws) \o Array(QuartersInDay, 2)
<1>1. Structs.energyprice_day = l  BY StructsOverlaid DEF MeterStructs
<1>2. ws \in Seq(Widths) /\ Len(ws) = 5
  <2>1. ws \in Seq({1, 2, 4, 8}) /\ Len(ws) = 5  OBVIOUS
  <2> QED  BY <2>1 DEF Widths
<1>3. /\ ws[1] = 2 /\ ws[2] = 2 /\ ws[3] = 8 /\ ws[4] = 1 /\ ws[5] = 2
  OBVIOUS
<1>4. QuartersInDay \in Nat /\ QuartersInDay = 96 /\ 2 \in Widths  BY SizesOfArrays DEF Widths
<1> HIDE DEF ws
<1>5. /\ l \in LayoutsOf /\ Len(l) = 6 /\ l[6] = <<2, 96>>
      /\ \A i \in 1..5 : l[i] = <<ws[i], 1>>
  <2> DEFINE c == QuartersInDay
  <2> HIDE DEF c
  <2>1. c \in Nat /\ c = 96 /\ 2 \in Widths  BY <1>4 DEF c
  <2>2. /\ F(ws) \o Array(c, 2) \in LayoutsOf
        /\ Len(F(ws) \o Array(c, 2)) = Len(ws) + 1
        /\ \A i \in 1..Len(ws) : (F(ws) \o Array(c, 2))[i] = <<ws[i], 1>>
        /\ (F(ws) \o Array(c, 2))[Len(ws) + 1] = <<2, c>>
    BY <1>2, <2>1, FieldsThenArray
  <2> DEFINE j == F(ws) \o Array(c, 2)
  <2>3. j \in LayoutsOf /\ Len(j) = 6 /\ \A i \in 1..5 : j[i] = <<ws[i], 1>>
    <3>1. j \in LayoutsOf /\ Len(j) = Len(ws) + 1
          /\ \A i \in 1..Len(ws) : j[i] = <<ws[i], 1>>
      BY <2>2
    <3> HIDE DEF j
    <3>2. Len(ws) = 5 /\ Len(ws) + 1 = 6  BY <1>2
    <3> QED  BY <3>1, <3>2
  <2>4. j[6] = <<2, 96>>
    <3>1. Len(ws) + 1 = 6  BY <1>2
    <3> QED  BY <2>1, <2>2, <3>1
  <2>5. l = j  BY DEF c
  <2> HIDE DEF j, l
  <2> QED  BY <2>3, <2>4, <2>5
<1> HIDE DEF l
<1>6. PICK v \in [0..Len(l) -> Nat] :
        Placed(v, l) /\ SizeOf(l) = Aligned(v[Len(l)], Widest(l))
  BY <1>5, MembersPlaced
<1>7. v[0] = 0 /\ \A i \in 1..6 : v[i] = Aligned(v[i - 1], l[i][1]) + l[i][1] * l[i][2]
  BY <1>5, <1>6 DEF Placed
<1>8. v[1] = 2
  <2>1. l[1][1] = 2 /\ l[1][2] = 1  BY <1>3, <1>5
  <2>2. v[1] = Aligned(v[0], 2) + 2 * 1
    <3>1. 1 \in 1..6 /\ 1 - 1 = 0  OBVIOUS
    <3> QED  BY <1>7, <2>1, <3>1
  <2>3. Aligned(0, 2) = 0  BY DEF Aligned
  <2> QED  BY <1>7, <2>2, <2>3
<1>9. v[2] = 4
  <2>1. l[2][1] = 2 /\ l[2][2] = 1  BY <1>3, <1>5
  <2>2. v[2] = Aligned(v[1], 2) + 2 * 1
    <3>1. 2 \in 1..6 /\ 2 - 1 = 1  OBVIOUS
    <3> QED  BY <1>7, <2>1, <3>1
  <2>3. Aligned(2, 2) = 2  BY DEF Aligned
  <2> QED  BY <1>8, <2>2, <2>3
<1>10. v[3] = 16
  <2>1. l[3][1] = 8 /\ l[3][2] = 1  BY <1>3, <1>5
  <2>2. v[3] = Aligned(v[2], 8) + 8 * 1
    <3>1. 3 \in 1..6 /\ 3 - 1 = 2  OBVIOUS
    <3> QED  BY <1>7, <2>1, <3>1
  <2>3. Aligned(4, 8) = 8  BY DEF Aligned
  <2> QED  BY <1>9, <2>2, <2>3
<1>11. v[4] = 17
  <2>1. l[4][1] = 1 /\ l[4][2] = 1  BY <1>3, <1>5
  <2>2. v[4] = Aligned(v[3], 1) + 1 * 1
    <3>1. 4 \in 1..6 /\ 4 - 1 = 3  OBVIOUS
    <3> QED  BY <1>7, <2>1, <3>1
  <2>3. Aligned(16, 1) = 16  BY DEF Aligned
  <2> QED  BY <1>10, <2>2, <2>3
<1>12. v[5] = 20
  <2>1. l[5][1] = 2 /\ l[5][2] = 1  BY <1>3, <1>5
  <2>2. v[5] = Aligned(v[4], 2) + 2 * 1
    <3>1. 5 \in 1..6 /\ 5 - 1 = 4  OBVIOUS
    <3> QED  BY <1>7, <2>1, <3>1
  <2>3. Aligned(17, 2) = 18  BY DEF Aligned
  <2> QED  BY <1>11, <2>2, <2>3
<1>13. v[6] = 212
  <2>1. l[6][1] = 2 /\ l[6][2] = 96  BY <1>3, <1>5
  <2>2. v[6] = Aligned(v[5], 2) + 2 * 96
    <3>1. 6 \in 1..6 /\ 6 - 1 = 5  OBVIOUS
    <3> QED  BY <1>7, <2>1, <3>1
  <2>3. Aligned(20, 2) = 20  BY DEF Aligned
  <2> QED  BY <1>12, <2>2, <2>3
<1>14. Widest(l) = 8
  <2>1. 3 \in 1..Len(l) /\ l[3][1] = 8  BY <1>3, <1>5
  <2> QED  BY <1>5, <2>1, EightIsWidest
<1>15. Aligned(212, 8) = 216  BY DEF Aligned
<1> QED  BY <1>1, <1>5, <1>6, <1>13, <1>14, <1>15

LEMMA CloudCoverSize == SizeOf(Structs.environment_cloud_cover) = 216
<1> DEFINE ws == <<2, 8, 2, 2>>
           l == F(ws) \o Array(QuartersInDay, 2)
<1>1. Structs.environment_cloud_cover = l  BY StructsOverlaid DEF OtherStructs
<1>2. ws \in Seq(Widths) /\ Len(ws) = 4
  <2>1. ws \in Seq({1, 2, 4, 8}) /\ Len(ws) = 4  OBVIOUS
  <2> QED  BY <2>1 DEF Widths
<1>3. /\ ws[1] = 2 /\ ws[2] = 8 /\ ws[3] = 2 /\ ws[4] = 2
  OBVIOUS
<1>4. QuartersInDay \in Nat /\ QuartersInDay = 96 /\ 2 \in Widths  BY SizesOfArrays DEF Widths
<1> HIDE DEF ws
<1>5. /\ l \in LayoutsOf /\ Len(l) = 5 /\ l[5] = <<2, 96>>
      /\ \A i \in 1..4 : l[i] = <<ws[i], 1>>
  <2> DEFINE c == QuartersInDay
  <2> HIDE DEF c
  <2>1. c \in Nat /\ c = 96 /\ 2 \in Widths  BY <1>4 DEF c
  <2>2. /\ F(ws) \o Array(c, 2) \in LayoutsOf
        /\ Len(F(ws) \o Array(c, 2)) = Len(ws) + 1
        /\ \A i \in 1..Len(ws) : (F(ws) \o Array(c, 2))[i] = <<ws[i], 1>>
        /\ (F(ws) \o Array(c, 2))[Len(ws) + 1] = <<2, c>>
    BY <1>2, <2>1, FieldsThenArray
  <2> DEFINE j == F(ws) \o Array(c, 2)
  <2>3. j \in LayoutsOf /\ Len(j) = 5 /\ \A i \in 1..4 : j[i] = <<ws[i], 1>>
    <3>1. j \in LayoutsOf /\ Len(j) = Len(ws) + 1
          /\ \A i \in 1..Len(ws) : j[i] = <<ws[i], 1>>
      BY <2>2
    <3> HIDE DEF j
    <3>2. Len(ws) = 4 /\ Len(ws) + 1 = 5  BY <1>2
    <3> QED  BY <3>1, <3>2
  <2>4. j[5] = <<2, 96>>
    <3>1. Len(ws) + 1 = 5  BY <1>2
    <3> QED  BY <2>1, <2>2, <3>1
  <2>5. l = j  BY DEF c
  <2> HIDE DEF j, l
  <2> QED  BY <2>3, <2>4, <2>5
<1> HIDE DEF l
<1>6. PICK v \in [0..Len(l) -> Nat] :
        Placed(v, l) /\ SizeOf(l) = Aligned(v[Len(l)], Widest(l))
  BY <1>5, MembersPlaced
<1>7. v[0] = 0 /\ \A i \in 1..5 : v[i] = Aligned(v[i - 1], l[i][1]) + l[i][1] * l[i][2]
  BY <1>5, <1>6 DEF Placed
<1>8. v[1] = 2
  <2>1. l[1][1] = 2 /\ l[1][2] = 1  BY <1>3, <1>5
  <2>2. v[1] = Aligned(v[0], 2) + 2 * 1
    <3>1. 1 \in 1..5 /\ 1 - 1 = 0  OBVIOUS
    <3> QED  BY <1>7, <2>1, <3>1
  <2>3. Aligned(0, 2) = 0  BY DEF Aligned
  <2> QED  BY <1>7, <2>2, <2>3
<1>9. v[2] = 16
  <2>1. l[2][1] = 8 /\ l[2][2] = 1  BY <1>3, <1>5
  <2>2. v[2] = Aligned(v[1], 8) + 8 * 1
    <3>1. 2 \in 1..5 /\ 2 - 1 = 1  OBVIOUS
    <3> QED  BY <1>7, <2>1, <3>1
  <2>3. Aligned(2, 8) = 8  BY DEF Aligned
  <2> QED  BY <1>8, <2>2, <2>3
<1>10. v[3] = 18
  <2>1. l[3][1] = 2 /\ l[3][2] = 1  BY <1>3, <1>5
  <2>2. v[3] = Aligned(v[2], 2) + 2 * 1
    <3>1. 3 \in 1..5 /\ 3 - 1 = 2  OBVIOUS
    <3> QED  BY <1>7, <2>1, <3>1
  <2>3. Aligned(16, 2) = 16  BY DEF Aligned
  <2> QED  BY <1>9, <2>2, <2>3
<1>11. v[4] = 20
  <2>1. l[4][1] = 2 /\ l[4][2] = 1  BY <1>3, <1>5
  <2>2. v[4] = Aligned(v[3], 2) + 2 * 1
    <3>1. 4 \in 1..5 /\ 4 - 1 = 3  OBVIOUS
    <3> QED  BY <1>7, <2>1, <3>1
  <2>3. Aligned(18, 2) = 18  BY DEF Aligned
  <2> QED  BY <1>10, <2>2, <2>3
<1>12. v[5] = 212
  <2>1. l[5][1] = 2 /\ l[5][2] = 96  BY <1>3, <1>5
  <2>2. v[5] = Aligned(v[4], 2) + 2 * 96
    <3>1. 5 \in 1..5 /\ 5 - 1 = 4  OBVIOUS
    <3> QED  BY <1>7, <2>1, <3>1
  <2>3. Aligned(20, 2) = 20  BY DEF Aligned
  <2> QED  BY <1>11, <2>2, <2>3
<1>13. Widest(l) = 8
  <2>1. 2 \in 1..Len(l) /\ l[2][1] = 8  BY <1>3, <1>5
  <2> QED  BY <1>5, <2>1, EightIsWidest
<1>14. Aligned(212, 8) = 216  BY DEF Aligned
<1> QED  BY <1>1, <1>5, <1>6, <1>12, <1>13, <1>14

LEMMA UpdateStartSize == SizeOf(Structs.update_start) <= 160
<1> DEFINE ws == <<2, 2, 1, 4, 4, 4, 1, 2>>
           l == F(ws) \o Array(ImageUrlMaxLen + 1, 1)
<1>1. Structs.update_start = l  BY StructsOverlaid DEF SystemStructs
<1>2. ws \in Seq(Widths) /\ Len(ws) = 8
  <2>1. ws \in Seq({1, 2, 4, 8}) /\ Len(ws) = 8  OBVIOUS
  <2> QED  BY <2>1 DEF Widths
<1>3. /\ ws[1] = 2 /\ ws[2] = 2 /\ ws[3] = 1 /\ ws[4] = 4 /\ ws[5] = 4
      /\ ws[6] = 4 /\ ws[7] = 1 /\ ws[8] = 2
  OBVIOUS
<1>4. ImageUrlMaxLen + 1 \in Nat /\ ImageUrlMaxLen + 1 = 129 /\ 1 \in Widths
  BY SizesOfArrays DEF Widths
<1> HIDE DEF ws
<1>5. /\ l \in LayoutsOf /\ Len(l) = 9 /\ l[9] = <<1, 129>>
      /\ \A i \in 1..8 : l[i] = <<ws[i], 1>>
  <2> DEFINE c == ImageUrlMaxLen + 1
  <2> HIDE DEF c
  <2>1. c \in Nat /\ c = 129 /\ 1 \in Widths  BY <1>4 DEF c
  <2>2. /\ F(ws) \o Array(c, 1) \in LayoutsOf
        /\ Len(F(ws) \o Array(c, 1)) = Len(ws) + 1
        /\ \A i \in 1..Len(ws) : (F(ws) \o Array(c, 1))[i] = <<ws[i], 1>>
        /\ (F(ws) \o Array(c, 1))[Len(ws) + 1] = <<1, c>>
    BY <1>2, <2>1, FieldsThenArray
  <2> DEFINE j == F(ws) \o Array(c, 1)
  <2>3. j \in LayoutsOf /\ Len(j) = 9 /\ \A i \in 1..8 : j[i] = <<ws[i], 1>>
    <3>1. j \in LayoutsOf /\ Len(j) = Len(ws) + 1
          /\ \A i \in 1..Len(ws) : j[i] = <<ws[i], 1>>
      BY <2>2
    <3> HIDE DEF j
    <3>2. Len(ws) = 8 /\ Len(ws) + 1 = 9  BY <1>2
    <3> QED  BY <3>1, <3>2
  <2>4. j[9] = <<1, 129>>
    <3>1. Len(ws) + 1 = 9  BY <1>2
    <3> QED  BY <2>1, <2>2, <3>1
  <2>5. l = j  BY DEF c
  <2> HIDE DEF j, l
  <2> QED  BY <2>3, <2>4, <2>5
<1> HIDE DEF l
<1>6. PICK v \in [0..Len(l) -> Nat] :
        Placed(v, l) /\ SizeOf(l) = Aligned(v[Len(l)], Widest(l))
  BY <1>5, MembersPlaced
<1>7. v[0] = 0 /\ \A i \in 1..9 : v[i] = Aligned(v[i - 1], l[i][1]) + l[i][1] * l[i][2]
  BY <1>5, <1>6 DEF Placed
<1>8. v[1] = 2
  <2>1. l[1][1] = 2 /\ l[1][2] = 1  BY <1>3, <1>5
  <2>2. v[1] = Aligned(v[0], 2) + 2 * 1
    <3>1. 1 \in 1..9 /\ 1 - 1 = 0  OBVIOUS
    <3> QED  BY <1>7, <2>1, <3>1
  <2>3. Aligned(0, 2) = 0  BY DEF Aligned
  <2> QED  BY <1>7, <2>2, <2>3
<1>9. v[2] = 4
  <2>1. l[2][1] = 2 /\ l[2][2] = 1  BY <1>3, <1>5
  <2>2. v[2] = Aligned(v[1], 2) + 2 * 1
    <3>1. 2 \in 1..9 /\ 2 - 1 = 1  OBVIOUS
    <3> QED  BY <1>7, <2>1, <3>1
  <2>3. Aligned(2, 2) = 2  BY DEF Aligned
  <2> QED  BY <1>8, <2>2, <2>3
<1>10. v[3] = 5
  <2>1. l[3][1] = 1 /\ l[3][2] = 1  BY <1>3, <1>5
  <2>2. v[3] = Aligned(v[2], 1) + 1 * 1
    <3>1. 3 \in 1..9 /\ 3 - 1 = 2  OBVIOUS
    <3> QED  BY <1>7, <2>1, <3>1
  <2>3. Aligned(4, 1) = 4  BY DEF Aligned
  <2> QED  BY <1>9, <2>2, <2>3
<1>11. v[4] = 12
  <2>1. l[4][1] = 4 /\ l[4][2] = 1  BY <1>3, <1>5
  <2>2. v[4] = Aligned(v[3], 4) + 4 * 1
    <3>1. 4 \in 1..9 /\ 4 - 1 = 3  OBVIOUS
    <3> QED  BY <1>7, <2>1, <3>1
  <2>3. Aligned(5, 4) = 8  BY DEF Aligned
  <2> QED  BY <1>10, <2>2, <2>3
<1>12. v[5] = 16
  <2>1. l[5][1] = 4 /\ l[5][2] = 1  BY <1>3, <1>5
  <2>2. v[5] = Aligned(v[4], 4) + 4 * 1
    <3>1. 5 \in 1..9 /\ 5 - 1 = 4  OBVIOUS
    <3> QED  BY <1>7, <2>1, <3>1
  <2>3. Aligned(12, 4) = 12  BY DEF Aligned
  <2> QED  BY <1>11, <2>2, <2>3
<1>13. v[6] = 20
  <2>1. l[6][1] = 4 /\ l[6][2] = 1  BY <1>3, <1>5
  <2>2. v[6] = Aligned(v[5], 4) + 4 * 1
    <3>1. 6 \in 1..9 /\ 6 - 1 = 5  OBVIOUS
    <3> QED  BY <1>7, <2>1, <3>1
  <2>3. Aligned(16, 4) = 16  BY DEF Aligned
  <2> QED  BY <1>12, <2>2, <2>3
<1>14. v[7] = 21
  <2>1. l[7][1] = 1 /\ l[7][2] = 1  BY <1>3, <1>5
  <2>2. v[7] = Aligned(v[6], 1) + 1 * 1
    <3>1. 7 \in 1..9 /\ 7 - 1 = 6  OBVIOUS
    <3> QED  BY <1>7, <2>1, <3>1
  <2>3. Aligned(20, 1) = 20  BY DEF Aligned
  <2> QED  BY <1>13, <2>2, <2>3
<1>15. v[8] = 24
  <2>1. l[8][1] = 2 /\ l[8][2] = 1  BY <1>3, <1>5
  <2>2. v[8] = Aligned(v[7], 2) + 2 * 1
    <3>1. 8 \in 1..9 /\ 8 - 1 = 7  OBVIOUS
    <3> QED  BY <1>7, <2>1, <3>1
  <2>3. Aligned(21, 2) = 22  BY DEF Aligned
  <2> QED  BY <1>14, <2>2, <2>3
<1>16. v[9] = 153
  <2>1. l[9][1] = 1 /\ l[9][2] = 129  BY <1>3, <1>5
  <2>2. v[9] = Aligned(v[8], 1) + 1 * 129
    <3>1. 9 \in 1..9 /\ 9 - 1 = 8  OBVIOUS
    <3> QED  BY <1>7, <2>1, <3>1
  <2>3. Aligned(24, 1) = 24  BY DEF Aligned
  <2> QED  BY <1>15, <2>2, <2>3
<1>17. Widest(l) \in 1..8  BY <1>5, WidestIs
<1>18. SizeOf(l) <= 160
  <2> DEFINE w == Widest(l)
  <2> HIDE DEF w
  <2>1. w \in 1..8 /\ w \in Nat \ {0} /\ 153 \in Nat  BY <1>17 DEF w
  <2>2. Aligned(153, w) \in Nat /\ Aligned(153, w) <= 153 + w - 1  BY <2>1, Alignment
  <2>3. SizeOf(l) = Aligned(153, w)  BY <1>5, <1>6, <1>16 DEF w
  <2> DEFINE z == Aligned(153, w)
  <2> HIDE DEF z
  <2>4. z \in Nat /\ z <= 153 + w - 1 /\ SizeOf(l) = z  BY <2>2, <2>3 DEF z
  <2> QED  BY <2>1, <2>4
<1> QED  BY <1>1, <1>18

LEMMA SmallSize ==
  ASSUME NEW layout, NEW b \in 0..100, HasBytes(layout, b), Len(layout) <= 6
  PROVE  SizeOf(layout) <= 216
<1>1. layout \in LayoutsOf /\ ByteCount(layout) = b  BY DEF HasBytes
<1>2. Len(layout) \in Nat  BY <1>1, RunsAre
<1> DEFINE z == SizeOf(layout)
           k == Len(layout)
<1>3. z \in Nat /\ z <= b + 7 * (k + 1) /\ k \in Nat /\ k <= 6  BY <1>1, <1>2, SizeBetween
<1> HIDE DEF z, k
<1>4. z <= 216  BY <1>3
<1> QED  BY <1>4 DEF z

SmallStructs == {
  "connection_status", "identify", "update_install", "wireless_channel",
  "energyprice_price_threshold", "energyprice_cheap_period", "energyprice_tariff", "relay_mode",
  "relay_state", "relay_default_state", "relay_pwm", "relay_inverted_output",
  "relay_one_shot", "relay_button_config", "relay_schedule", "environment_sunny_time",
  "environment_position", "meter_current_limit", "meter_alarms", "status",
  "get"}

LEMMA SmallSizes ==
  ASSUME NEW s \in SmallStructs
  PROVE  SizeOf(Structs[s]) <= 216
<1>1. 1 \in Widths /\ 2 \in Widths /\ 4 \in Widths /\ 8 \in Widths  BY DEF Widths
<1>2. SizeOf(Structs["connection_status"]) <= 216
  <2>1. Structs["connection_status"] = F(<<2, 8, 4, 2, 2, 4>>)
    BY StructsOverlaid DEF SystemStructs
  <2>2. Len(F(<<2, 8, 4, 2, 2, 4>>)) = 6  BY <1>1, BytesOf6
  <2>3. Len(Structs["connection_status"]) <= 6
    <3> DEFINE f == F(<<2, 8, 4, 2, 2, 4>>)
    <3> HIDE DEF f
    <3>1. Structs["connection_status"] = f /\ Len(f) = 6  BY <2>1, <2>2 DEF f
    <3> QED  BY <3>1
  <2>4. HasBytes(Structs["connection_status"], 22) /\ 22 \in 0..100  BY SystemStructBytes
  <2> QED  BY <2>3, <2>4, SmallSize
<1>3. SizeOf(Structs["identify"]) <= 216
  <2>1. Structs["identify"] = F(<<2, 1, 1>>)  BY StructsOverlaid DEF SystemStructs
  <2>2. Len(F(<<2, 1, 1>>)) = 3  BY <1>1, BytesOf3
  <2>3. Len(Structs["identify"]) <= 6
    <3> DEFINE f == F(<<2, 1, 1>>)
    <3> HIDE DEF f
    <3>1. Structs["identify"] = f /\ Len(f) = 3  BY <2>1, <2>2 DEF f
    <3> QED  BY <3>1
  <2>4. HasBytes(Structs["identify"], 4) /\ 4 \in 0..100  BY SystemStructBytes
  <2> QED  BY <2>3, <2>4, SmallSize
<1>4. SizeOf(Structs["update_install"]) <= 216
  <2>1. Structs["update_install"] = F(<<2, 4, 4>>)  BY StructsOverlaid DEF SystemStructs
  <2>2. Len(F(<<2, 4, 4>>)) = 3  BY <1>1, BytesOf3
  <2>3. Len(Structs["update_install"]) <= 6
    <3> DEFINE f == F(<<2, 4, 4>>)
    <3> HIDE DEF f
    <3>1. Structs["update_install"] = f /\ Len(f) = 3  BY <2>1, <2>2 DEF f
    <3> QED  BY <3>1
  <2>4. HasBytes(Structs["update_install"], 10) /\ 10 \in 0..100  BY SystemStructBytes
  <2> QED  BY <2>3, <2>4, SmallSize
<1>5. SizeOf(Structs["wireless_channel"]) <= 216
  <2>1. Structs["wireless_channel"] = F(<<2, 1, 1>>)  BY StructsOverlaid DEF WirelessStructs
  <2>2. Len(F(<<2, 1, 1>>)) = 3  BY <1>1, BytesOf3
  <2>3. Len(Structs["wireless_channel"]) <= 6
    <3> DEFINE f == F(<<2, 1, 1>>)
    <3> HIDE DEF f
    <3>1. Structs["wireless_channel"] = f /\ Len(f) = 3  BY <2>1, <2>2 DEF f
    <3> QED  BY <3>1
  <2>4. HasBytes(Structs["wireless_channel"], 4) /\ 4 \in 0..100  BY WirelessStructBytes
  <2> QED  BY <2>3, <2>4, SmallSize
<1>6. SizeOf(Structs["energyprice_price_threshold"]) <= 216
  <2>1. Structs["energyprice_price_threshold"] = F(<<2, 4>>)
    BY StructsOverlaid DEF MeterStructs
  <2>2. Len(F(<<2, 4>>)) = 2  BY <1>1, BytesOf2
  <2>3. Len(Structs["energyprice_price_threshold"]) <= 6
    <3> DEFINE f == F(<<2, 4>>)
    <3> HIDE DEF f
    <3>1. Structs["energyprice_price_threshold"] = f /\ Len(f) = 2  BY <2>1, <2>2 DEF f
    <3> QED  BY <3>1
  <2>4. HasBytes(Structs["energyprice_price_threshold"], 6) /\ 6 \in 0..100  BY MeterStructBytes
  <2> QED  BY <2>3, <2>4, SmallSize
<1>7. SizeOf(Structs["energyprice_cheap_period"]) <= 216
  <2>1. Structs["energyprice_cheap_period"] = F(<<2, 1>>)  BY StructsOverlaid DEF MeterStructs
  <2>2. Len(F(<<2, 1>>)) = 2  BY <1>1, BytesOf2
  <2>3. Len(Structs["energyprice_cheap_period"]) <= 6
    <3> DEFINE f == F(<<2, 1>>)
    <3> HIDE DEF f
    <3>1. Structs["energyprice_cheap_period"] = f /\ Len(f) = 2  BY <2>1, <2>2 DEF f
    <3> QED  BY <3>1
  <2>4. HasBytes(Structs["energyprice_cheap_period"], 3) /\ 3 \in 0..100  BY MeterStructBytes
  <2> QED  BY <2>3, <2>4, SmallSize
<1>8. SizeOf(Structs["energyprice_tariff"]) <= 216
  <2>1. Structs["energyprice_tariff"] = F(<<2, 2>>)  BY StructsOverlaid DEF MeterStructs
  <2>2. Len(F(<<2, 2>>)) = 2  BY <1>1, BytesOf2
  <2>3. Len(Structs["energyprice_tariff"]) <= 6
    <3> DEFINE f == F(<<2, 2>>)
    <3> HIDE DEF f
    <3>1. Structs["energyprice_tariff"] = f /\ Len(f) = 2  BY <2>1, <2>2 DEF f
    <3> QED  BY <3>1
  <2>4. HasBytes(Structs["energyprice_tariff"], 4) /\ 4 \in 0..100  BY MeterStructBytes
  <2> QED  BY <2>3, <2>4, SmallSize
<1>9. SizeOf(Structs["relay_mode"]) <= 216
  <2>1. Structs["relay_mode"] = F(<<2, 1>>)  BY StructsOverlaid DEF RelayStructs
  <2>2. Len(F(<<2, 1>>)) = 2  BY <1>1, BytesOf2
  <2>3. Len(Structs["relay_mode"]) <= 6
    <3> DEFINE f == F(<<2, 1>>)
    <3> HIDE DEF f
    <3>1. Structs["relay_mode"] = f /\ Len(f) = 2  BY <2>1, <2>2 DEF f
    <3> QED  BY <3>1
  <2>4. HasBytes(Structs["relay_mode"], 3) /\ 3 \in 0..100  BY RelayStructBytes
  <2> QED  BY <2>3, <2>4, SmallSize
<1>10. SizeOf(Structs["relay_state"]) <= 216
  <2>1. Structs["relay_state"] = F(<<2, 1>>)  BY StructsOverlaid DEF RelayStructs
  <2>2. Len(F(<<2, 1>>)) = 2  BY <1>1, BytesOf2
  <2>3. Len(Structs["relay_state"]) <= 6
    <3> DEFINE f == F(<<2, 1>>)
    <3> HIDE DEF f
    <3>1. Structs["relay_state"] = f /\ Len(f) = 2  BY <2>1, <2>2 DEF f
    <3> QED  BY <3>1
  <2>4. HasBytes(Structs["relay_state"], 3) /\ 3 \in 0..100  BY RelayStructBytes
  <2> QED  BY <2>3, <2>4, SmallSize
<1>11. SizeOf(Structs["relay_default_state"]) <= 216
  <2>1. Structs["relay_default_state"] = F(<<2, 1>>)  BY StructsOverlaid DEF RelayStructs
  <2>2. Len(F(<<2, 1>>)) = 2  BY <1>1, BytesOf2
  <2>3. Len(Structs["relay_default_state"]) <= 6
    <3> DEFINE f == F(<<2, 1>>)
    <3> HIDE DEF f
    <3>1. Structs["relay_default_state"] = f /\ Len(f) = 2  BY <2>1, <2>2 DEF f
    <3> QED  BY <3>1
  <2>4. HasBytes(Structs["relay_default_state"], 3) /\ 3 \in 0..100  BY RelayStructBytes
  <2> QED  BY <2>3, <2>4, SmallSize
<1>12. SizeOf(Structs["relay_pwm"]) <= 216
  <2>1. Structs["relay_pwm"] = F(<<2, 1, 2, 1>>)  BY StructsOverlaid DEF RelayStructs
  <2>2. Len(F(<<2, 1, 2, 1>>)) = 4  BY <1>1, BytesOf4
  <2>3. Len(Structs["relay_pwm"]) <= 6
    <3> DEFINE f == F(<<2, 1, 2, 1>>)
    <3> HIDE DEF f
    <3>1. Structs["relay_pwm"] = f /\ Len(f) = 4  BY <2>1, <2>2 DEF f
    <3> QED  BY <3>1
  <2>4. HasBytes(Structs["relay_pwm"], 6) /\ 6 \in 0..100  BY RelayStructBytes
  <2> QED  BY <2>3, <2>4, SmallSize
<1>13. SizeOf(Structs["relay_inverted_output"]) <= 216
  <2>1. Structs["relay_inverted_output"] = F(<<2, 1>>)  BY StructsOverlaid DEF RelayStructs
  <2>2. Len(F(<<2, 1>>)) = 2  BY <1>1, BytesOf2
  <2>3. Len(Structs["relay_inverted_output"]) <= 6
    <3> DEFINE f == F(<<2, 1>>)
    <3> HIDE DEF f
    <3>1. Structs["relay_inverted_output"] = f /\ Len(f) = 2  BY <2>1, <2>2 DEF f
    <3> QED  BY <3>1
  <2>4. HasBytes(Structs["relay_inverted_output"], 3) /\ 3 \in 0..100  BY RelayStructBytes
  <2> QED  BY <2>3, <2>4, SmallSize
<1>14. SizeOf(Structs["relay_one_shot"]) <= 216
  <2>1. Structs["relay_one_shot"] = F(<<2, 1, 8, 8, 1>>)  BY StructsOverlaid DEF RelayStructs
  <2>2. Len(F(<<2, 1, 8, 8, 1>>)) = 5  BY <1>1, BytesOf5
  <2>3. Len(Structs["relay_one_shot"]) <= 6
    <3> DEFINE f == F(<<2, 1, 8, 8, 1>>)
    <3> HIDE DEF f
    <3>1. Structs["relay_one_shot"] = f /\ Len(f) = 5  BY <2>1, <2>2 DEF f
    <3> QED  BY <3>1
  <2>4. HasBytes(Structs["relay_one_shot"], 20) /\ 20 \in 0..100  BY RelayStructBytes
  <2> QED  BY <2>3, <2>4, SmallSize
<1>15. SizeOf(Structs["relay_button_config"]) <= 216
  <2>1. Structs["relay_button_config"] = F(<<2, 2>>) \o Array(MaxDefinedModes, 1)
    BY StructsOverlaid DEF RelayStructs
  <2>2. F(<<2, 2>>) \in LayoutsOf /\ Len(F(<<2, 2>>)) = 2  BY <1>1, BytesOf2
  <2>3. Len(Structs["relay_button_config"]) <= 6
    <3>1. MaxDefinedModes \in Nat  BY SizesOfArrays
    <3>2. Array(MaxDefinedModes, 1) \in LayoutsOf /\ Len(Array(MaxDefinedModes, 1)) = 1
      BY <1>1, <3>1, BytesOfArray
    <3> DEFINE f == F(<<2, 2>>)
               a == Array(MaxDefinedModes, 1)
    <3> HIDE DEF f, a
    <3>3. Len(f \o a) = Len(f) + Len(a)  BY <2>2, <3>2, LayoutsJoined DEF f, a
    <3> QED  BY <2>1, <2>2, <3>2, <3>3 DEF f, a
  <2>4. HasBytes(Structs["relay_button_config"], 10) /\ 10 \in 0..100  BY RelayStructBytes
  <2> QED  BY <2>3, <2>4, SmallSize
<1>16. SizeOf(Structs["relay_schedule"]) <= 216
  <2>1. Structs["relay_schedule"] = F(<<2, 2>>) \o Array(ScheduleLen, 1)
    BY StructsOverlaid DEF RelayStructs
  <2>2. F(<<2, 2>>) \in LayoutsOf /\ Len(F(<<2, 2>>)) = 2  BY <1>1, BytesOf2
  <2>3. Len(Structs["relay_schedule"]) <= 6
    <3>1. ScheduleLen \in Nat  BY SizesOfArrays
    <3>2. Array(ScheduleLen, 1) \in LayoutsOf /\ Len(Array(ScheduleLen, 1)) = 1
      BY <1>1, <3>1, BytesOfArray
    <3> DEFINE f == F(<<2, 2>>)
               a == Array(ScheduleLen, 1)
    <3> HIDE DEF f, a
    <3>3. Len(f \o a) = Len(f) + Len(a)  BY <2>2, <3>2, LayoutsJoined DEF f, a
    <3> QED  BY <2>1, <2>2, <3>2, <3>3 DEF f, a
  <2>4. HasBytes(Structs["relay_schedule"], 88) /\ 88 \in 0..100  BY RelayStructBytes
  <2> QED  BY <2>3, <2>4, SmallSize
<1>17. SizeOf(Structs["environment_sunny_time"]) <= 216
  <2>1. Structs["environment_sunny_time"] = F(<<2, 1>>)  BY StructsOverlaid DEF OtherStructs
  <2>2. Len(F(<<2, 1>>)) = 2  BY <1>1, BytesOf2
  <2>3. Len(Structs["environment_sunny_time"]) <= 6
    <3> DEFINE f == F(<<2, 1>>)
    <3> HIDE DEF f
    <3>1. Structs["environment_sunny_time"] = f /\ Len(f) = 2  BY <2>1, <2>2 DEF f
    <3> QED  BY <3>1
  <2>4. HasBytes(Structs["environment_sunny_time"], 3) /\ 3 \in 0..100  BY OtherStructBytes
  <2> QED  BY <2>3, <2>4, SmallSize
<1>18. SizeOf(Structs["environment_position"]) <= 216
  <2>1. Structs["environment_position"] = F(<<2, 8, 8>>)  BY StructsOverlaid DEF OtherStructs
  <2>2. Len(F(<<2, 8, 8>>)) = 3  BY <1>1, BytesOf3
  <2>3. Len(Structs["environment_position"]) <= 6
    <3> DEFINE f == F(<<2, 8, 8>>)
    <3> HIDE DEF f
    <3>1. Structs["environment_position"] = f /\ Len(f) = 3  BY <2>1, <2>2 DEF f
    <3> QED  BY <3>1
  <2>4. HasBytes(Structs["environment_position"], 18) /\ 18 \in 0..100  BY OtherStructBytes
  <2> QED  BY <2>3, <2>4, SmallSize
<1>19. SizeOf(Structs["meter_current_limit"]) <= 216
  <2>1. Structs["meter_current_limit"] = F(<<2, 4>>)  BY StructsOverlaid DEF MeterStructs
  <2>2. Len(F(<<2, 4>>)) = 2  BY <1>1, BytesOf2
  <2>3. Len(Structs["meter_current_limit"]) <= 6
    <3> DEFINE f == F(<<2, 4>>)
    <3> HIDE DEF f
    <3>1. Structs["meter_current_limit"] = f /\ Len(f) = 2  BY <2>1, <2>2 DEF f
    <3> QED  BY <3>1
  <2>4. HasBytes(Structs["meter_current_limit"], 6) /\ 6 \in 0..100  BY MeterStructBytes
  <2> QED  BY <2>3, <2>4, SmallSize
<1>20. SizeOf(Structs["meter_alarms"]) <= 216
  <2>1. Structs["meter_alarms"] = F(<<2, 8>>)  BY StructsOverlaid DEF MeterStructs
  <2>2. Len(F(<<2, 8>>)) = 2  BY <1>1, BytesOf2
  <2>3. Len(Structs["meter_alarms"]) <= 6
    <3> DEFINE f == F(<<2, 8>>)
    <3> HIDE DEF f
    <3>1. Structs["meter_alarms"] = f /\ Len(f) = 2  BY <2>1, <2>2 DEF f
    <3> QED  BY <3>1
  <2>4. HasBytes(Structs["meter_alarms"], 10) /\ 10 \in 0..100  BY MeterStructBytes
  <2> QED  BY <2>3, <2>4, SmallSize
<1>21. SizeOf(Structs["status"]) <= 216
  <2>1. Structs["status"] = F(<<2, 1, 2>>)  BY StructsOverlaid DEF OtherStructs
  <2>2. Len(F(<<2, 1, 2>>)) = 3  BY <1>1, BytesOf3
  <2>3. Len(Structs["status"]) <= 6
    <3> DEFINE f == F(<<2, 1, 2>>)
    <3> HIDE DEF f
    <3>1. Structs["status"] = f /\ Len(f) = 3  BY <2>1, <2>2 DEF f
    <3> QED  BY <3>1
  <2>4. HasBytes(Structs["status"], 5) /\ 5 \in 0..100  BY OtherStructBytes
  <2> QED  BY <2>3, <2>4, SmallSize
<1>22. SizeOf(Structs["get"]) <= 216
  <2>1. Structs["get"] = F(<<2, 2, 4>>)  BY StructsOverlaid DEF OtherStructs
  <2>2. Len(F(<<2, 2, 4>>)) = 3  BY <1>1, BytesOf3
  <2>3. Len(Structs["get"]) <= 6
    <3> DEFINE f == F(<<2, 2, 4>>)
    <3> HIDE DEF f
    <3>1. Structs["get"] = f /\ Len(f) = 3  BY <2>1, <2>2 DEF f
    <3> QED  BY <3>1
  <2>4. HasBytes(Structs["get"], 8) /\ 8 \in 0..100  BY OtherStructBytes
  <2> QED  BY <2>3, <2>4, SmallSize
<1> QED
  BY <1>2, <1>3, <1>4, <1>5, <1>6, <1>7, <1>8, <1>9, <1>10, <1>11, <1>12, <1>13,
     <1>14, <1>15, <1>16, <1>17, <1>18, <1>19, <1>20, <1>21, <1>22
  DEF SmallStructs

-----------------------------------------------------------------------------
(* What is received                                                        *)

LEMMA ReceivedNames ==
  DOMAIN Received =
    {"connection_status", "identify", "update_start", "update_install", "wireless_enable",
     "wireless_set_credentials", "wireless_set_tx_power", "wireless_set_channel",
     "energyprice_day", "energyprice_set_price_threshold", "energyprice_set_cheap_period",
     "energyprice_set_tariff", "relay_set_mode", "relay_set_state", "relay_set_default_state",
     "relay_set_pwm", "relay_set_inverted_output", "relay_set_button_config",
     "relay_set_schedule", "relay_set_one_shot", "environment_set_sunny_time",
     "environment_cloud_cover", "environment_set_position", "meter_set_current_limit",
     "meter_clear_alarms", "status", "get"}
<1>1. DOMAIN ReceivedSystem =
        {"connection_status", "identify", "update_start", "update_install"}
  BY DEF ReceivedSystem, Own
<1>2. DOMAIN ReceivedWireless =
        {"wireless_enable", "wireless_set_credentials", "wireless_set_tx_power",
         "wireless_set_channel"}
  BY DEF ReceivedWireless
<1>3. DOMAIN ReceivedPrices =
        {"energyprice_day", "energyprice_set_price_threshold", "energyprice_set_cheap_period",
         "energyprice_set_tariff"}
  BY DEF ReceivedPrices
<1>4. DOMAIN ReceivedRelay =
        {"relay_set_mode", "relay_set_state", "relay_set_default_state", "relay_set_pwm",
         "relay_set_inverted_output", "relay_set_button_config", "relay_set_schedule",
         "relay_set_one_shot"}
  BY DEF ReceivedRelay
<1>5. DOMAIN ReceivedOther =
        {"environment_set_sunny_time", "environment_cloud_cover", "environment_set_position",
         "meter_set_current_limit", "meter_clear_alarms", "status", "get"}
  BY DEF ReceivedOther
<1>6. DOMAIN Received =
        DOMAIN ReceivedSystem \cup DOMAIN ReceivedWireless \cup DOMAIN ReceivedPrices
          \cup DOMAIN ReceivedRelay \cup DOMAIN ReceivedOther
  BY ReceivedOverlaid
<1> QED  BY <1>1, <1>2, <1>3, <1>4, <1>5, <1>6

LEMMA AllThrough ==
  ASSUME NEW n \in Counts, NEW t \in DOMAIN Received \ Garbled, Fit(t, n)
  PROVE  Through(t, n)
<1>1. /\ t = "update_start" => n < ImageUrlMaxLen
      /\ t = "relay_set_button_config" => n <= MaxDefinedModes
      /\ t = "relay_set_schedule" => n = ScheduleLen
      /\ t = "environment_cloud_cover" => n = QuartersInDay
  BY DEF Fit
<1>2. CASE t = "update_start"  BY <1>1, <1>2, UpdateStartThrough
<1>3. CASE t = "relay_set_button_config"  BY <1>1, <1>3, ButtonConfigThrough
<1>4. CASE t = "environment_cloud_cover"  BY <1>1, <1>4, CloudCoverThrough
<1>5. CASE t \in {"connection_status", "identify", "update_install"}  BY <1>5, SystemThrough
<1>6. CASE t \in {"wireless_set_channel", "energyprice_day", "energyprice_set_price_threshold",
                 "energyprice_set_cheap_period", "energyprice_set_tariff"}
  BY <1>6, SettingsThrough
<1>7. CASE t \in {"relay_set_mode", "relay_set_state", "relay_set_default_state",
                 "relay_set_inverted_output", "relay_set_pwm", "relay_set_one_shot",
                 "relay_set_schedule"}
  BY <1>1, <1>7, RelayThrough
<1>8. CASE t \in {"environment_set_sunny_time", "environment_set_position",
                 "meter_set_current_limit", "meter_clear_alarms", "status", "get"}
  BY <1>8, OtherThrough
<1>9. t \in DOMAIN Received /\ t \notin {"wireless_enable", "wireless_set_credentials",
                                      "wireless_set_tx_power"}
  BY DEF Garbled
<1> QED  BY <1>2, <1>3, <1>4, <1>5, <1>6, <1>7, <1>8, <1>9, ReceivedNames

LEMMA AllHaveRoom ==
  ASSUME NEW t \in DOMAIN Received \ Garbled
  PROVE  SizeOf(Structs[Received[t]]) <= MsgBufferSize
<1>1. MsgBufferSize = 216  BY DaySize DEF MsgBufferSize
<1>2. Received[t] \in SmallStructs \cup {"energyprice_day", "environment_cloud_cover",
                                        "update_start"}
  <2>1. CASE t \in DOMAIN ReceivedSystem
    <3>1. Received[t] = t /\ t \in {"connection_status", "identify", "update_start",
                                   "update_install"}
      BY <2>1, ReceivedOverlaid DEF ReceivedSystem, Own
    <3> QED  BY <3>1 DEF SmallStructs
  <2>2. CASE t \in DOMAIN ReceivedWireless
    <3>1. t = "wireless_set_channel"  BY <2>2 DEF ReceivedWireless, Garbled
    <3>2. Received[t] = "wireless_channel"  BY <2>2, <3>1, ReceivedOverlaid DEF ReceivedWireless
    <3> QED  BY <3>2 DEF SmallStructs
  <2>3. CASE t \in DOMAIN ReceivedPrices
    <3>1. Received[t] \in {"energyprice_day", "energyprice_price_threshold",
                           "energyprice_cheap_period", "energyprice_tariff"}
      BY <2>3, ReceivedOverlaid DEF ReceivedPrices
    <3> QED  BY <3>1 DEF SmallStructs
  <2>4. CASE t \in DOMAIN ReceivedRelay
    <3>1. Received[t] \in {"relay_mode", "relay_state", "relay_default_state", "relay_pwm",
                           "relay_inverted_output", "relay_button_config", "relay_schedule",
                           "relay_one_shot"}
      BY <2>4, ReceivedOverlaid DEF ReceivedRelay
    <3> QED  BY <3>1 DEF SmallStructs
  <2>5. CASE t \in DOMAIN ReceivedOther
    <3>1. Received[t] \in {"environment_sunny_time", "environment_cloud_cover",
                           "environment_position", "meter_current_limit", "meter_alarms",
                           "status", "get"}
      BY <2>5, ReceivedOverlaid DEF ReceivedOther
    <3> QED  BY <3>1 DEF SmallStructs
  <2> QED  BY <2>1, <2>2, <2>3, <2>4, <2>5, ReceivedOverlaid
<1>3. CASE Received[t] \in SmallStructs  BY <1>1, <1>3, SmallSizes
<1>4. CASE Received[t] = "energyprice_day"  BY <1>1, <1>4, DaySize
<1>5. CASE Received[t] = "environment_cloud_cover"  BY <1>1, <1>5, CloudCoverSize
<1>6. CASE Received[t] = "update_start"
  <2> DEFINE z == SizeOf(Structs["update_start"])
  <2>1. z \in Nat /\ z <= 160
    <3>1. Structs["update_start"] \in LayoutsOf  BY SystemStructBytes DEF HasBytes
    <3> QED  BY <3>1, SizeBetween, UpdateStartSize
  <2> HIDE DEF z
  <2>2. z <= 216  BY <2>1
  <2> QED  BY <1>1, <1>6, <2>2 DEF z
<1> QED  BY <1>2, <1>3, <1>4, <1>5, <1>6

\* What ParsedAsSent says of a message of type t with n entries, when its
\* outcome is o
Parsed(t, n, o) ==
  /\ o = "accepted" <=> t \notin Garbled
  /\ o = "accepted" =>
       ComesThrough(t, n) /\ SizeOf(Structs[Received[t]]) <= MsgBufferSize

LEMMA RightLengthParsed ==
  ASSUME NEW n \in Counts, NEW t \in DOMAIN Received, Fit(t, n)
  PROVE  Parsed(t, n, OutcomeOf(t, n, 0))
<1>1. CASE t \in Garbled
  <2>1. OutcomeOf(t, n, 0) # "accepted"  BY <1>1, GarbledStop DEF Garbled
  <2> QED  BY <1>1, <2>1 DEF Parsed
<1>2. CASE t \notin Garbled
  <2>1. OutcomeOf(t, n, 0) = "accepted" /\ ComesThrough(t, n)
    BY <1>2, AllThrough DEF Through
  <2>2. SizeOf(Structs[Received[t]]) <= MsgBufferSize  BY <1>2, AllHaveRoom
  <2> QED  BY <1>2, <2>1, <2>2 DEF Parsed
<1> QED  BY <1>1, <1>2

LEMMA NotReceived ==
  /\ DOMAIN Received \cap (SentOnly \cup {"unknown", "none"}) = {}
  /\ DOMAIN Received \cap Bare = {}
<1>1. ASSUME NEW t \in SentOnly \cup {"unknown", "none"}  PROVE t \notin DOMAIN Received
  BY ReceivedNames DEF SentOnly
<1>2. ASSUME NEW t \in Bare  PROVE t \notin DOMAIN Received  BY ReceivedNames DEF Bare
<1> QED  BY <1>1, <1>2

LEMMA MessageParsed ==
  ASSUME NEW t \in DOMAIN Received \cup Bare, NEW n \in Counts, NEW d \in {-1, 0, 1},
         ReceiveMessage(t, n, d)
  PROVE  ParsedAsSent'
<1> DEFINE o == Outcome[n][t][d]
<1>1. o = OutcomeOf(t, n, d)  BY DEF Outcome
<1>2. last'.type = t /\ last'.n = n /\ last'.delta = d /\ last'.outcome = o
  <2>1. CASE last' = [NoMessage EXCEPT !.type = t, !.n = n, !.delta = d, !.outcome = o]
    <3> HIDE DEF o
    <3> QED  BY <2>1 DEF NoMessage
  <2>2. CASE \E code \in HandlerResults(t) :
               last' = [NoMessage EXCEPT !.type = t, !.n = n, !.delta = d, !.outcome = o,
                                         !.ret = code]
    <3> HIDE DEF o
    <3> QED  BY <2>2 DEF NoMessage
  <2> QED  BY <2>1, <2>2 DEF ReceiveMessage
<1> HIDE DEF o
<1>3. CASE t \in DOMAIN Received /\ d = 0 /\ Fit(t, n)
  <2>1. Parsed(t, n, o)  BY <1>1, <1>3, RightLengthParsed
  <2> QED  BY <1>2, <2>1 DEF ParsedAsSent, Parsed
<1>4. CASE ~(t \in DOMAIN Received /\ d = 0 /\ Fit(t, n))
  BY <1>2, <1>4 DEF ParsedAsSent
<1> QED  BY <1>3, <1>4

LEMMA GetParsed ==
  ASSUME NEW r, ReceiveGet(r)
  PROVE  ParsedAsSent'
<1>1. last'.type = "get" /\ last'.n = 0 /\ last'.delta = 0 /\ last'.outcome = "accepted"
  BY DEF ReceiveGet, NoMessage
<1>2. 0 \in Counts  BY ProtocolAssumption
<1>3. "get" \in DOMAIN Received /\ Fit("get", 0) /\ "get" \notin Garbled
  BY ReceivedNames DEF Fit, Garbled
<1>4. Through("get", 0)  BY <1>2, <1>3, AllThrough
<1>5. SizeOf(Structs[Received["get"]]) <= MsgBufferSize  BY <1>3, AllHaveRoom
<1> QED  BY <1>1, <1>3, <1>4, <1>5 DEF ParsedAsSent, Through

LEMMA NothingParsed ==
  ASSUME last'.type \notin DOMAIN Received
  PROVE  ParsedAsSent'
BY DEF ParsedAsSent

(***************************************************************************)
(* A message of the right length is accepted and every field of it comes   *)
(* through (parser.c:89-607, serializer.c:86-504), but for the three whose *)
(* length check does not count the fields; and the structure that it is    *)
(* copied from has room in msg_buffer (receiver.c:15): for every number of *)
(* entries that it fits.                                                   *)
(***************************************************************************)
THEOREM MessagesAreParsedAsSent == PartsSpec => []ParsedAsSent
<1>1. PartsInit => ParsedAsSent
  <2>1. ProtocolInit => last.type = "none"  BY DEF ProtocolInit, NoMessage
  <2> QED  BY <2>1, NotReceived DEF PartsInit, ParsedAsSent
<1>2. ParsedAsSent /\ [PartsNext]_partsVars => ParsedAsSent'
  <2> SUFFICES ASSUME ParsedAsSent, [PartsNext]_partsVars PROVE ParsedAsSent'  OBVIOUS
  <2>1. CASE UNCHANGED protocolVars
    BY <2>1 DEF protocolVars, ParsedAsSent
  <2>2. CASE Works("protocol") /\ ProtocolNext
    <3>1. CASE \E t \in DOMAIN Received \cup Bare, n \in Counts, d \in {-1, 0, 1} :
                 ReceiveMessage(t, n, d)
      BY <3>1, MessageParsed
    <3>2. CASE \E r \in MsgTypes : ReceiveGet(r)  BY <3>2, GetParsed
    <3>3. CASE \E t \in SentOnly \cup {"unknown"} : ReceiveUnknown(t)
      <4>1. PICK t \in SentOnly \cup {"unknown"} : ReceiveUnknown(t)  BY <3>3
      <4>2. last'.type = t  BY <4>1 DEF ReceiveUnknown, NoMessage
      <4>3. t \notin DOMAIN Received  BY NotReceived
      <4> QED  BY <4>2, <4>3, NothingParsed
    <3>4. CASE \/ \E n \in Counts : \E t \in DOMAIN Made[n] : SendAny(t, n)
               \/ RegisterTx
      <4>1. last' = NoMessage  BY <3>4 DEF SendAny, RegisterTx
      <4>2. NoMessage.type = "none"  BY DEF NoMessage
      <4>3. "none" \notin DOMAIN Received  BY NotReceived
      <4> QED  BY <4>1, <4>2, <4>3, NothingParsed
    <3> QED  BY <2>2, <3>1, <3>2, <3>3, <3>4 DEF ProtocolNext
  <2>3. CASE PartsNext /\ ~(Works("protocol") /\ ProtocolNext)
    <3>1. UNCHANGED protocolVars  BY <2>3 DEF PartsNext, Works
    <3> QED  BY <2>1, <3>1
  <2>4. UNCHANGED partsVars => UNCHANGED protocolVars  BY DEF partsVars
  <2> QED  BY <2>1, <2>2, <2>3, <2>4
<1> QED  BY <1>1, <1>2, PTL DEF PartsSpec, partsVars
=============================================================================

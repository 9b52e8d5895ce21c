---------------------------- MODULE UpdateProofs ----------------------------
(***************************************************************************)
(* The safety properties of Update for all versions, progress steps, queue *)
(* lengths and numbers of starts.                                          *)
(*                                                                         *)
(* The inductive invariant adds to the types what the state machine knows  *)
(* of its handles (Control), which URL an open download was begun with     *)
(* (Newest), and that the events that wait are those of downloads one      *)
(* after the other, the last of them being the one that the task's state   *)
(* calls for (Reported, InOrder).                                          *)
(***************************************************************************)
EXTENDS Update, SequenceTheorems, TLAPS

-----------------------------------------------------------------------------
(* Sequences of events                                                     *)

\* OtaSession's step from event a to event b.
Succeeds(a, b) ==
  \/ a.type \in {"none", "finished", "abort"} /\ b.type = "begin" /\ b.got = 0
  \/ a.type = "begin" /\ b.type = "validated" /\ b.got = 0
  \/ /\ b.type = "transfer"
     /\ a.type = "validated" \/ (a.type = "transfer" /\ b.got > a.got)
  \/ a.type \in {"validated", "transfer"} /\ b.type = "downloaded" /\ b.got = 0
  \/ a.type = "downloaded" /\ b.type = "verified" /\ b.got = 0
  \/ a.type = "verified" /\ b.type = "finished" /\ b.got = 0
  \/ b.type = "abort" /\ b.got = 0

\* The last event of q, after x was handled.
LastOf(x, q) == IF q = <<>> THEN x ELSE q[Len(q)]

Ordered(x, q) ==
  /\ q # <<>> => Succeeds(x, q[1])
  /\ \A i \in 1..Len(q)-1 : Succeeds(q[i], q[i + 1])

LEMMA OneMore ==
  ASSUME NEW x, NEW q \in Seq(Event), NEW e \in Event, Ordered(x, q),
         Succeeds(LastOf(x, q), e)
  PROVE  /\ q \o <<e>> \in Seq(Event) /\ Len(q \o <<e>>) = Len(q) + 1
         /\ Ordered(x, q \o <<e>>)
         /\ LastOf(x, q \o <<e>>) = e
<1> DEFINE r == q \o <<e>>
<1>1. <<e>> \in Seq(Event) /\ Len(<<e>>) = 1 /\ <<e>>[1] = e  OBVIOUS
<1>2. /\ r \in Seq(Event) /\ Len(r) = Len(q) + 1
      /\ \A i \in 1..Len(q) + 1 : r[i] = IF i <= Len(q) THEN q[i] ELSE e
  <2>1. /\ r \in Seq(Event) /\ Len(r) = Len(q) + Len(<<e>>)
        /\ \A i \in 1..Len(q) + Len(<<e>>) :
             r[i] = IF i <= Len(q) THEN q[i] ELSE <<e>>[i - Len(q)]
    BY <1>1, ConcatProperties
  <2>2. \A i \in 1..Len(q) + 1 : ~(i <= Len(q)) => i - Len(q) = 1  BY LenProperties
  <2> QED  BY <1>1, <2>1, <2>2
<1>3. Len(q) \in Nat /\ (q = <<>> <=> Len(q) = 0)  BY LenProperties, EmptySeq
<1> HIDE DEF r
<1>4. r # <<>> /\ r[Len(r)] = e  BY <1>2, <1>3, EmptySeq
<1>5. Succeeds(x, r[1])
  <2>1. CASE q = <<>>  BY <1>2, <1>3, <2>1 DEF LastOf
  <2>2. CASE q # <<>>  BY <1>2, <1>3, <2>2 DEF Ordered
  <2> QED  BY <2>1, <2>2
<1>6. ASSUME NEW i \in 1..Len(r)-1  PROVE  Succeeds(r[i], r[i + 1])
  <2>1. CASE i < Len(q)
    <3>1. r[i] = q[i] /\ r[i + 1] = q[i + 1] /\ i \in 1..Len(q)-1  BY <1>2, <1>3, <2>1
    <3> QED  BY <3>1 DEF Ordered
  <2>2. CASE i >= Len(q)
    <3>1. i = Len(q) /\ q # <<>> /\ r[i] = q[Len(q)] /\ r[i + 1] = e
      BY <1>2, <1>3, <2>2
    <3> QED  BY <3>1 DEF LastOf
  <2> QED  BY <1>3, <2>1, <2>2
<1>7. Ordered(x, r) /\ LastOf(x, r) = e  BY <1>4, <1>5, <1>6 DEF Ordered, LastOf
<1> QED  BY <1>2, <1>7 DEF r

LEMMA OneLess ==
  ASSUME NEW x, NEW q \in Seq(Event), q # <<>>, Ordered(x, q)
  PROVE  /\ Head(q) \in Event /\ Tail(q) \in Seq(Event) /\ Len(Tail(q)) = Len(q) - 1
         /\ Succeeds(x, Head(q))
         /\ Ordered(Head(q), Tail(q))
         /\ LastOf(Head(q), Tail(q)) = LastOf(x, q)
<1> DEFINE t == Tail(q)
<1>1. /\ Head(q) \in Event /\ t \in Seq(Event) /\ Len(t) = Len(q) - 1
      /\ \A i \in 1..Len(t) : t[i] = q[i + 1]
      /\ Head(q) = q[1]
  BY HeadTailProperties
<1>2. Len(q) \in Nat \ {0} /\ (t = <<>> <=> Len(t) = 0)  BY <1>1, LenProperties, EmptySeq
<1> HIDE DEF t
<1>3. Succeeds(x, Head(q))  BY <1>1 DEF Ordered
<1>4. Ordered(Head(q), t)
  <2>1. ASSUME t # <<>>  PROVE  Succeeds(Head(q), t[1])
    <3>1. 1 \in 1..Len(t) /\ 1 \in 1..Len(q)-1  BY <1>1, <1>2, <2>1
    <3> QED  BY <1>1, <3>1 DEF Ordered
  <2>2. ASSUME NEW i \in 1..Len(t)-1  PROVE  Succeeds(t[i], t[i + 1])
    <3>1. t[i] = q[i + 1] /\ t[i + 1] = q[(i + 1) + 1] /\ i + 1 \in 1..Len(q)-1
      BY <1>1, <1>2
    <3> QED  BY <3>1 DEF Ordered
  <2> QED  BY <2>1, <2>2 DEF Ordered
<1>5. LastOf(Head(q), t) = LastOf(x, q)  BY <1>1, <1>2 DEF LastOf
<1> QED  BY <1>1, <1>3, <1>4, <1>5 DEF t

-----------------------------------------------------------------------------
(* The inductive invariant                                                 *)

LastEvent == LastOf(seen, events)

\* What is open in each state of the task.
Control ==
  Running =>
    /\ polling => action = "start"
    /\ ~polling => "live" \notin {https, decrypt} /\ ms # "verified"
    /\ polling /\ ms = "begin" => https = "null" /\ decrypt = "null"
    /\ ms \in {"transfer", "downloaded", "finished"} /\ polling
         => https = "live" /\ decrypt = "live"
    /\ ms = "verified" => https = "live" /\ decrypt = "freed"

\* A URL that is newer than the open download has a message in the queue.
Newest ==
  Running /\ https = "live" /\ ota_q = <<>> /\ starting # "submits"
    => image \in {url, Installed}

\* What has been posted in each state of the task.
Reported ==
  Running =>
    /\ ~polling \/ ms = "begin" => LastEvent.type \in {"none", "finished", "abort"}
    /\ polling /\ ms = "transfer" /\ ~validated => LastEvent.type = "begin" /\ got = 0
    /\ polling /\ ms = "transfer" /\ validated =>
         LastEvent.type \in {"validated", "transfer"} /\ LastEvent.got <= got
    /\ polling /\ ms = "downloaded" => LastEvent.type \in {"validated", "transfer"}
    /\ polling /\ ms = "finished" => LastEvent.type = "downloaded"
    /\ ms = "verified" => LastEvent.type = "verified"

InOrder == Ordered(seen, events)

IndInv == TypeOK /\ Control /\ Newest /\ Reported /\ InOrder /\ BeginsClean

-----------------------------------------------------------------------------
(* What posting does                                                       *)

LEMMA EventTypes ==
  /\ \A type \in {"begin", "validated", "transfer", "downloaded", "verified",
                   "finished", "abort"} :
       Evt(type) \in Event /\ Evt(type).type = type /\ Evt(type).got = 0
  /\ \A v \in Versions \cup {None} :
       /\ ValidatedEvt(v) \in Event
       /\ ValidatedEvt(v).type = "validated" /\ ValidatedEvt(v).got = 0
  /\ \A k \in 0..Chunks :
       /\ TransferEvt(k) \in Event
       /\ TransferEvt(k).type = "transfer" /\ TransferEvt(k).got = k
<1>1. 0 \in 0..Chunks  BY HttpOtaAssumption
<1> QED  BY <1>1 DEF Event, Evt, ValidatedEvt, TransferEvt

LEMMA PostNothing ==
  ASSUME TypeOK, Post(<<>>)
  PROVE  events' = events
  BY ConcatEmptySeq DEF TypeOK, OtaTypeOK, Post

LEMMA PostOne ==
  ASSUME TypeOK, InOrder, UNCHANGED seen,
         NEW e \in Event, Post(<<e>>), Succeeds(LastEvent, e)
  PROVE  /\ events' \in Seq(Event) /\ Len(events') <= EventQueueLength
         /\ InOrder' /\ LastEvent' = e
<1>1. events \in Seq(Event) /\ events' = events \o <<e>> /\ seen' = seen
      /\ Len(events) + 1 <= EventQueueLength
  BY DEF TypeOK, OtaTypeOK, Post
<1>2. Ordered(seen, events) /\ Succeeds(LastOf(seen, events), e)
  BY DEF InOrder, LastEvent
<1>3. /\ events' \in Seq(Event) /\ Len(events') = Len(events) + 1
      /\ Ordered(seen, events') /\ LastOf(seen, events') = e
  BY <1>1, <1>2, OneMore
<1> QED  BY <1>1, <1>3 DEF InOrder, LastEvent

LEMMA PostTwo ==
  ASSUME TypeOK, InOrder, UNCHANGED seen,
         NEW d \in Event, NEW e \in Event, Post(<<d>> \o <<e>>),
         Succeeds(LastEvent, d), Succeeds(d, e)
  PROVE  /\ events' \in Seq(Event) /\ Len(events') <= EventQueueLength
         /\ InOrder' /\ LastEvent' = e
<1> DEFINE q == events \o <<d>>
<1>1. events \in Seq(Event) /\ <<d>> \in Seq(Event) /\ <<e>> \in Seq(Event)
  BY DEF TypeOK, OtaTypeOK
<1>2. /\ events' = q \o <<e>> /\ seen' = seen
      /\ Len(events) + Len(<<d>> \o <<e>>) <= EventQueueLength
  BY <1>1, ConcatAssociative DEF Post
<1>3. Len(<<d>> \o <<e>>) = 2 /\ Len(events) \in Nat  BY <1>1, LenProperties
<1>4. Ordered(seen, events) /\ Succeeds(LastOf(seen, events), d)
  BY DEF InOrder, LastEvent
<1>5. /\ q \in Seq(Event) /\ Len(q) = Len(events) + 1
      /\ Ordered(seen, q) /\ LastOf(seen, q) = d
  BY <1>1, <1>4, OneMore
<1> HIDE DEF q
<1>6. /\ events' \in Seq(Event) /\ Len(events') = Len(q) + 1
      /\ Ordered(seen, events') /\ LastOf(seen, events') = e
  <2>1. Succeeds(LastOf(seen, q), e)  BY <1>5
  <2>2. /\ q \o <<e>> \in Seq(Event) /\ Len(q \o <<e>>) = Len(q) + 1
        /\ Ordered(seen, q \o <<e>>) /\ LastOf(seen, q \o <<e>>) = e
    BY <1>5, <2>1, OneMore
  <2> QED  BY <1>2, <2>2
<1>7. InOrder' /\ LastEvent' = e  BY <1>2, <1>6 DEF InOrder, LastEvent
<1>8. Len(events') <= EventQueueLength
  <2>1. Len(events') = Len(events) + 2  BY <1>3, <1>5, <1>6
  <2> QED  BY <1>2, <1>3, <2>1
<1> QED  BY <1>6, <1>7, <1>8

LEMMA AbortHandlesPosts ==
  ASSUME TypeOK, InOrder, Running, UNCHANGED seen, AbortHandles
  PROVE  /\ {https', decrypt'} \subseteq {"null", "live", "freed"}
         /\ aborted' \in {"no", "double_free"}
         /\ events' \in Seq(Event) /\ Len(events') <= EventQueueLength
         /\ InOrder'
         /\ Running' => https' = "null" /\ decrypt' = "null" /\ LastEvent'.type = "abort"
<1>1. CASE "freed" \in {https, decrypt}
  BY <1>1 DEF AbortHandles, handles, TypeOK, OtaTypeOK, Running, InOrder
<1>2. CASE "freed" \notin {https, decrypt}
  <2>1. Evt("abort") \in Event /\ Evt("abort").type = "abort" /\ Evt("abort").got = 0
    BY EventTypes
  <2>2. Post(<<Evt("abort")>>) /\ https' = "null" /\ decrypt' = "null" /\ aborted' = aborted
    BY <1>2 DEF AbortHandles
  <2>3. Succeeds(LastEvent, Evt("abort"))  BY <2>1 DEF Succeeds
  <2> QED  BY <2>1, <2>2, <2>3, PostOne DEF Running
<1> QED  BY <1>1, <1>2

-----------------------------------------------------------------------------
(* The steps of the download task                                          *)

\* The parts of the invariant that an action proves, given what it posts.
EventsOK == events \in Seq(Event) /\ Len(events) <= EventQueueLength /\ InOrder

Others == UNCHANGED <<state, starting, apply_timer, seen, starts>>

LEMMA EventsUnchanged ==
  ASSUME IndInv, UNCHANGED <<seen, events>>
  PROVE  EventsOK' /\ LastEvent' = LastEvent
  BY DEF IndInv, TypeOK, OtaTypeOK, EventsOK, InOrder, LastEvent

LEMMA OthersKeepTypes ==
  ASSUME TypeOK, Others, OtaTypeOK'
  PROVE  TypeOK'
  BY DEF TypeOK, Others, state

LEMMA TakenMessage ==
  ASSUME IndInv, NEW msg \in {"start", "abort"}, Takes(msg)
  PROVE  /\ ota_q' \in Seq({"start", "abort"}) /\ Len(ota_q') <= OtaQueueLength
         /\ action' = msg /\ ms # "verified" /\ Running
<1>1. /\ ota_q \in Seq({"start", "abort"}) /\ Len(ota_q) <= OtaQueueLength
      /\ ota_q # <<>> /\ ota_q' = Tail(ota_q)
  BY DEF IndInv, TypeOK, OtaTypeOK, Takes
<1>2. ota_q' \in Seq({"start", "abort"}) /\ Len(ota_q') = Len(ota_q) - 1
  BY <1>1, HeadTailProperties
<1>3. Len(ota_q) \in Nat /\ OtaQueueLength \in Nat
  BY <1>1, LenProperties, HttpOtaAssumption
<1> QED  BY <1>1, <1>2, <1>3 DEF Takes

LEMMA TakeStartStep ==
  ASSUME IndInv, TakeStart, Others
  PROVE  IndInv'
<1>1. /\ ota_q' \in Seq({"start", "abort"}) /\ Len(ota_q') <= OtaQueueLength
      /\ action' = "start" /\ ms # "verified" /\ Running
  BY TakenMessage DEF TakeStart
<1>2. ms' = "begin" /\ polling' = TRUE /\ UNCHANGED <<download, state, starting, apply_timer, seen, starts>>
  BY DEF TakeStart, Others
<1>3. /\ EventsOK'
      /\ {https', decrypt'} \subseteq {"null", "live", "freed"}
      /\ aborted' \in {"no", "double_free"}
      /\ Running' => /\ https' = "null" /\ decrypt' = "null"
                     /\ LastEvent'.type \in {"none", "finished", "abort"}
  <2>1. CASE {https, decrypt} = {"null"}
    <3>1. https' = https /\ decrypt' = decrypt /\ events' = events /\ aborted' = aborted
      BY <2>1 DEF TakeStart, handles
    <3>2. EventsOK' /\ LastEvent' = LastEvent  BY <1>2, <3>1, EventsUnchanged
    <3>3. https = "null" /\ decrypt = "null"  BY <2>1
    <3>4. ~polling \/ ms = "begin"  BY <1>1, <3>3 DEF IndInv, Control, TypeOK, OtaTypeOK
    <3>5. LastEvent.type \in {"none", "finished", "abort"}
      BY <1>1, <3>4 DEF IndInv, Reported
    <3> QED  BY <1>1, <3>1, <3>2, <3>3, <3>5 DEF Running
  <2>2. CASE {https, decrypt} # {"null"}
    <3>1. AbortHandles  BY <2>2 DEF TakeStart
    <3> QED  BY <1>1, <1>2, <3>1, AbortHandlesPosts DEF IndInv, EventsOK
  <2> QED  BY <2>1, <2>2
<1>4. OtaTypeOK'
  BY <1>1, <1>2, <1>3 DEF IndInv, TypeOK, OtaTypeOK, EventsOK, download
<1>5. TypeOK'  BY <1>4, OthersKeepTypes DEF IndInv
<1>6. Control'  BY <1>1, <1>2, <1>3 DEF Control
<1>7. Newest'  BY <1>3 DEF Newest
<1>8. Reported'  BY <1>2, <1>3 DEF Reported
<1>9. BeginsClean'  BY <1>3 DEF BeginsClean
<1> QED  BY <1>3, <1>6, <1>7, <1>8, <1>9, <1>5 DEF IndInv, EventsOK

LEMMA TakeAbortStep ==
  ASSUME IndInv, TakeAbort, Others
  PROVE  IndInv'
<1>1. /\ ota_q' \in Seq({"start", "abort"}) /\ Len(ota_q') <= OtaQueueLength
      /\ action' = "abort" /\ ms # "verified" /\ Running
  BY TakenMessage DEF TakeAbort
<1>2. /\ AbortHandles
      /\ ms' = ms /\ polling' = FALSE
      /\ UNCHANGED <<download, state, starting, apply_timer, seen, starts>>
  BY DEF TakeAbort, Others
<1>3. /\ EventsOK'
      /\ {https', decrypt'} \subseteq {"null", "live", "freed"}
      /\ aborted' \in {"no", "double_free"}
      /\ Running' => https' = "null" /\ decrypt' = "null" /\ LastEvent'.type = "abort"
  BY <1>1, <1>2, AbortHandlesPosts DEF IndInv, EventsOK
<1>4. OtaTypeOK'
  BY <1>1, <1>2, <1>3 DEF IndInv, TypeOK, OtaTypeOK, EventsOK, download
<1>5. TypeOK'  BY <1>4, OthersKeepTypes DEF IndInv
<1>6. Control'  BY <1>1, <1>2, <1>3 DEF Control
<1>7. Newest'  BY <1>3 DEF Newest
<1>8. Reported'  BY <1>1, <1>2, <1>3 DEF Reported
<1>9. BeginsClean'  BY <1>3 DEF BeginsClean
<1> QED  BY <1>3, <1>6, <1>7, <1>8, <1>9, <1>5 DEF IndInv, EventsOK

\* A turn that fails, in whatever state.
LEMMA FailsStep ==
  ASSUME IndInv, Running, Fails, Others, UNCHANGED <<ota_q, action, image>>,
         validated' \in BOOLEAN, got' \in 0..Chunks
  PROVE  IndInv'
<1>1. /\ AbortHandles
      /\ ms' = "begin" /\ polling' = FALSE
      /\ UNCHANGED <<ota_q, action, image, state, starting, apply_timer, seen, starts>>
  BY DEF Fails, Others
<1>2. /\ EventsOK'
      /\ {https', decrypt'} \subseteq {"null", "live", "freed"}
      /\ aborted' \in {"no", "double_free"}
      /\ Running' => https' = "null" /\ decrypt' = "null" /\ LastEvent'.type = "abort"
  BY <1>1, AbortHandlesPosts DEF IndInv, EventsOK
<1>3. OtaTypeOK'
  BY <1>1, <1>2 DEF IndInv, TypeOK, OtaTypeOK, EventsOK
<1>4. TypeOK'  BY <1>3, OthersKeepTypes DEF IndInv
<1>5. Control'  BY <1>1, <1>2 DEF Control
<1>6. Newest'  BY <1>2 DEF Newest
<1>7. Reported'  BY <1>1, <1>2 DEF Reported
<1>8. BeginsClean'  BY <1>2 DEF BeginsClean
<1> QED  BY <1>2, <1>5, <1>6, <1>7, <1>8, <1>4 DEF IndInv, EventsOK

\* A turn that succeeds and posts nothing, one event, or what FirstChunk does.
LEMMA TurnTypes ==
  ASSUME IndInv, Others, UNCHANGED <<ota_q, action>>, EventsOK',
         polling' \in BOOLEAN, validated' \in BOOLEAN, got' \in 0..Chunks,
         ms' \in {"begin", "transfer", "downloaded", "finished", "verified"},
         {https', decrypt'} \subseteq {"null", "live", "freed"},
         image' \in Versions \cup {None},
         aborted' \in {"no", "double_free"}
  PROVE  TypeOK' /\ BeginsClean'
<1>1. OtaTypeOK'  BY DEF IndInv, TypeOK, OtaTypeOK, EventsOK
<1>2. TypeOK'  BY <1>1, OthersKeepTypes DEF IndInv
<1>3. BeginsClean'  BY DEF BeginsClean
<1> QED  BY <1>2, <1>3

LEMMA BeginStep ==
  ASSUME IndInv, Begin(url), Others
  PROVE  IndInv'
<1>1. /\ Running /\ ota_q = <<>> /\ polling /\ action = "start" /\ ms = "begin"
      /\ UNCHANGED <<ota_q, action, state, starting, apply_timer, seen, starts>>
      /\ validated' = FALSE /\ got' = 0
  BY DEF Begin, Turn, Others
<1>2. CASE Fails /\ UNCHANGED image
  <2>1. 0 \in 0..Chunks  BY HttpOtaAssumption
  <2> QED  BY <1>1, <1>2, <2>1, FailsStep
<1>3. CASE /\ https' = "live" /\ decrypt' = "live"
           /\ image' \in {url, Installed}
           /\ Post(<<Evt("begin")>>)
           /\ ms' = "transfer"
           /\ UNCHANGED <<polling, aborted>>
  <2>1. /\ LastEvent.type \in {"none", "finished", "abort"}
        /\ url \in Versions \cup {None} /\ aborted = "no"
    BY <1>1 DEF IndInv, Reported, TypeOK, Running
  <2>2. Evt("begin") \in Event /\ Evt("begin").type = "begin" /\ Evt("begin").got = 0
    BY EventTypes
  <2>3. Succeeds(LastEvent, Evt("begin"))  BY <2>1, <2>2 DEF Succeeds
  <2>4. EventsOK' /\ LastEvent' = Evt("begin")
    BY <1>1, <1>3, <2>2, <2>3, PostOne DEF IndInv, EventsOK
  <2>5. /\ polling' \in BOOLEAN /\ validated' \in BOOLEAN /\ got' \in 0..Chunks
        /\ image' \in Versions \cup {None} /\ aborted' = "no"
    <3>1. polling \in BOOLEAN  BY DEF IndInv, TypeOK, OtaTypeOK
    <3>2. validated' \in BOOLEAN /\ got' \in 0..Chunks
      <4>1. 0 \in 0..Chunks  BY HttpOtaAssumption
      <4> QED  BY <1>1, <4>1
    <3>3. image' \in Versions \cup {None}  BY <1>3, <2>1, HttpOtaAssumption
    <3> QED  BY <1>3, <2>1, <3>1, <3>2, <3>3
  <2>6. TypeOK' /\ BeginsClean'
    <3>1. UNCHANGED <<ota_q, action>>  BY <1>1
    <3> QED  BY <1>3, <2>4, <2>5, <3>1, TurnTypes
  <2>7. Control'  BY <1>1, <1>3 DEF Control
  <2>8. Newest'  BY <1>1, <1>3 DEF Newest, state
  <2>9. Reported'  BY <1>1, <1>3, <2>2, <2>4 DEF Reported
  <2> QED  BY <2>4, <2>6, <2>7, <2>8, <2>9 DEF IndInv, EventsOK
<1> QED  BY <1>2, <1>3 DEF Begin

\* What Control and Reported say of a turn with a download.
LEMMA InTransfer ==
  ASSUME IndInv, Turn("transfer"), Others
  PROVE  /\ Running /\ aborted = "no" /\ polling /\ action = "start" /\ ms = "transfer"
         /\ ota_q = <<>> /\ https = "live" /\ decrypt = "live"
         /\ UNCHANGED <<ota_q, action, state, starting, apply_timer, seen, starts>>
         /\ image \in Versions \cup {None} /\ validated \in BOOLEAN /\ got \in 0..Chunks
         /\ ~validated => LastEvent.type = "begin" /\ got = 0
         /\ validated => LastEvent.type \in {"validated", "transfer"} /\ LastEvent.got <= got
  BY DEF IndInv, Turn, Others, Control, Reported, TypeOK, OtaTypeOK, Running

LEMMA FirstChunkStep ==
  ASSUME IndInv, FirstChunk, Others
  PROVE  IndInv'
<1>1. /\ Turn("transfer") /\ ~validated /\ validated' = TRUE
      /\ UNCHANGED <<polling, ms, handles, image, got, aborted>>
  BY DEF FirstChunk
<1>2. PICK p \in Progress(got) : Post(<<ValidatedEvt(image)>> \o p)  BY DEF FirstChunk
<1>3. /\ ValidatedEvt(image) \in Event /\ ValidatedEvt(image).type = "validated"
      /\ ValidatedEvt(image).got = 0
      /\ TransferEvt(got) \in Event /\ TransferEvt(got).type = "transfer"
      /\ TransferEvt(got).got = got /\ got = 0
  BY <1>1, InTransfer, EventTypes
<1>4. Succeeds(LastEvent, ValidatedEvt(image))  BY <1>1, <1>3, InTransfer DEF Succeeds
<1>5. UNCHANGED seen  BY DEF Others
<1>6. /\ EventsOK'
      /\ LastEvent'.type \in {"validated", "transfer"} /\ LastEvent'.got <= got
  <2>1. CASE p = <<>>
    <3>1. Post(<<ValidatedEvt(image)>>)  BY <1>2, <1>3, <2>1, ConcatEmptySeq
    <3>2. EventsOK' /\ LastEvent' = ValidatedEvt(image)
      BY <1>3, <1>4, <1>5, <3>1, PostOne DEF IndInv, EventsOK
    <3> QED  BY <1>3, <3>2
  <2>2. CASE p = <<TransferEvt(got)>>
    <3>1. Post(<<ValidatedEvt(image)>> \o <<TransferEvt(got)>>)  BY <1>2, <2>2
    <3>2. Succeeds(ValidatedEvt(image), TransferEvt(got))  BY <1>3 DEF Succeeds
    <3>3. EventsOK' /\ LastEvent' = TransferEvt(got)
      BY <1>3, <1>4, <1>5, <3>1, <3>2, PostTwo DEF IndInv, EventsOK
    <3> QED  BY <1>3, <3>3
  <2> QED  BY <1>2, <2>1, <2>2 DEF Progress
<1>7. TypeOK' /\ BeginsClean'
  BY <1>1, <1>6, InTransfer, TurnTypes DEF handles
<1>8. Control' /\ Reported'  BY <1>1, <1>6, InTransfer DEF Control, Reported, handles
<1>9. Newest'  BY <1>1, InTransfer DEF IndInv, Newest, handles, state, Running
<1> QED  BY <1>6, <1>7, <1>8, <1>9 DEF IndInv, EventsOK

LEMMA ChunkStep ==
  ASSUME IndInv, Chunk, Others
  PROVE  IndInv'
<1>1. /\ Turn("transfer") /\ validated /\ got < Chunks /\ got' = got + 1
      /\ UNCHANGED <<polling, ms, handles, image, validated, aborted>>
  BY DEF Chunk
<1>2. PICK p \in Progress(got') : Post(p)  BY DEF Chunk
<1>3. got' \in 0..Chunks /\ LastEvent.got <= got
  BY <1>1, InTransfer, HttpOtaAssumption
<1>4. /\ TransferEvt(got') \in Event /\ TransferEvt(got').type = "transfer"
      /\ TransferEvt(got').got = got'
  BY <1>3, EventTypes
<1>5. UNCHANGED seen /\ LastEvent.got \in Nat
  <2>1. LastEvent \in Event \cup {Evt("none")}
    BY LenProperties, EmptySeq, ElementOfSeq DEF IndInv, TypeOK, OtaTypeOK, LastEvent, LastOf
  <2> QED  BY <2>1, HttpOtaAssumption DEF Others, Event, Evt
<1>6. /\ EventsOK'
      /\ LastEvent'.type \in {"validated", "transfer"} /\ LastEvent'.got <= got'
  <2>1. CASE p = <<>>
    <3>1. events' = events  BY <1>2, <2>1, PostNothing DEF IndInv
    <3>2. EventsOK' /\ LastEvent' = LastEvent  BY <1>5, <3>1, EventsUnchanged
    <3> QED  BY <1>1, <1>5, <3>2, InTransfer
  <2>2. CASE p = <<TransferEvt(got')>>
    <3>1. LastEvent.type \in {"validated", "transfer"} /\ got' > LastEvent.got
      BY <1>1, <1>3, <1>5, InTransfer
    <3>2. Succeeds(LastEvent, TransferEvt(got'))  BY <1>4, <3>1 DEF Succeeds
    <3>3. EventsOK' /\ LastEvent' = TransferEvt(got')
      BY <1>2, <1>4, <1>5, <2>2, <3>2, PostOne DEF IndInv, EventsOK
    <3> QED  BY <1>3, <1>4, <3>3
  <2> QED  BY <1>2, <2>1, <2>2 DEF Progress
<1>7. TypeOK' /\ BeginsClean'
  BY <1>1, <1>3, <1>6, InTransfer, TurnTypes DEF handles
<1>8. Control' /\ Reported'  BY <1>1, <1>6, InTransfer DEF Control, Reported, handles
<1>9. Newest'  BY <1>1, InTransfer DEF IndInv, Newest, handles, state, Running
<1> QED  BY <1>6, <1>7, <1>8, <1>9 DEF IndInv, EventsOK

LEMMA AllReceivedStep ==
  ASSUME IndInv, AllReceived, Others
  PROVE  IndInv'
<1>1. /\ Turn("transfer") /\ validated /\ ms' = "downloaded"
      /\ UNCHANGED <<polling, handles, download, events, aborted>>
  BY DEF AllReceived
<1>2. EventsOK' /\ LastEvent' = LastEvent  BY <1>1, EventsUnchanged DEF Others
<1>3. TypeOK' /\ BeginsClean'
  BY <1>1, <1>2, InTransfer, TurnTypes DEF handles, download
<1>4. Control' /\ Reported'
  BY <1>1, <1>2, InTransfer DEF Control, Reported, handles, download
<1>5. Newest'  BY <1>1, InTransfer DEF IndInv, Newest, handles, download, state, Running
<1> QED  BY <1>2, <1>3, <1>4, <1>5 DEF IndInv, EventsOK

LEMMA TransferFailsStep ==
  ASSUME IndInv, TransferFails, Others
  PROVE  IndInv'
<1>1. Turn("transfer") /\ Fails /\ UNCHANGED download  BY DEF TransferFails
<1> QED  BY <1>1, InTransfer, FailsStep DEF download

LEMMA DownloadedStep ==
  ASSUME IndInv, Downloaded, Others
  PROVE  IndInv'
<1>1. /\ Turn("downloaded") /\ UNCHANGED <<image, validated, got>>  BY DEF Downloaded, download
<1>2. /\ Running /\ polling /\ action = "start" /\ ms = "downloaded" /\ ota_q = <<>>
      /\ https = "live" /\ decrypt = "live" /\ LastEvent.type \in {"validated", "transfer"}
      /\ UNCHANGED <<ota_q, action, state, starting, apply_timer, seen, starts>>
  BY <1>1 DEF Turn, Others, IndInv, Control, Reported
<1>3. /\ validated' \in BOOLEAN /\ got' \in 0..Chunks /\ image' \in Versions \cup {None}
      /\ polling \in BOOLEAN /\ aborted = "no"
  BY <1>1, <1>2 DEF IndInv, TypeOK, OtaTypeOK, Running
<1>4. CASE got = Chunks
  <2>1. /\ Post(<<Evt("downloaded")>>) /\ ms' = "finished"
        /\ UNCHANGED <<polling, https, decrypt, aborted>>
    BY <1>4 DEF Downloaded, handles
  <2>2. /\ Evt("downloaded") \in Event /\ Evt("downloaded").type = "downloaded"
        /\ Evt("downloaded").got = 0
    BY EventTypes
  <2>3. Succeeds(LastEvent, Evt("downloaded"))  BY <1>2, <2>2 DEF Succeeds
  <2>4. EventsOK' /\ LastEvent' = Evt("downloaded")
    BY <1>2, <2>1, <2>2, <2>3, PostOne DEF IndInv, EventsOK
  <2>5. TypeOK' /\ BeginsClean'  BY <1>2, <1>3, <2>1, <2>4, TurnTypes
  <2>6. Control' /\ Reported'  BY <1>2, <2>1, <2>2, <2>4 DEF Control, Reported
  <2>7. Newest'  BY <1>1, <1>2, <2>1 DEF IndInv, Newest, state, Running
  <2> QED  BY <2>4, <2>5, <2>6, <2>7 DEF IndInv, EventsOK
<1>5. CASE got # Chunks
  <2>1. Fails  BY <1>5 DEF Downloaded
  <2> QED  BY <1>1, <1>2, <1>3, <2>1, FailsStep
<1> QED  BY <1>4, <1>5

LEMMA VerifyStep ==
  ASSUME IndInv, Verify, Others
  PROVE  IndInv'
<1>1. /\ Running /\ polling /\ action = "start" /\ ms = "finished" /\ ota_q = <<>>
      /\ https = "live" /\ LastEvent.type = "downloaded"
      /\ UNCHANGED <<ota_q, action, state, starting, apply_timer, seen, starts>>
  BY DEF Verify, Turn, Others, IndInv, Control, Reported
<1>2. /\ decrypt' = "freed" /\ Post(<<Evt("verified")>>) /\ ms' = "verified"
      /\ UNCHANGED <<polling, https, image, validated, got, aborted>>
  BY DEF Verify, download
<1>3. /\ validated' \in BOOLEAN /\ got' \in 0..Chunks /\ image' \in Versions \cup {None}
      /\ polling' \in BOOLEAN /\ aborted' = "no"
  BY <1>1, <1>2 DEF IndInv, TypeOK, OtaTypeOK, Running
<1>4. /\ Evt("verified") \in Event /\ Evt("verified").type = "verified"
      /\ Evt("verified").got = 0
  BY EventTypes
<1>5. Succeeds(LastEvent, Evt("verified"))  BY <1>1, <1>4 DEF Succeeds
<1>6. EventsOK' /\ LastEvent' = Evt("verified")
  BY <1>1, <1>2, <1>4, <1>5, PostOne DEF IndInv, EventsOK
<1>7. TypeOK' /\ BeginsClean'  BY <1>1, <1>2, <1>3, <1>6, TurnTypes
<1>8. Control' /\ Reported'  BY <1>1, <1>2, <1>4, <1>6 DEF Control, Reported
<1>9. Newest'  BY <1>1, <1>2 DEF IndInv, Newest, state, Running
<1> QED  BY <1>6, <1>7, <1>8, <1>9 DEF IndInv, EventsOK

LEMMA FinishStep ==
  ASSUME IndInv, Finish, Others
  PROVE  IndInv'
<1>1. /\ Running /\ ms = "verified" /\ decrypt = "freed" /\ LastEvent.type = "verified"
      /\ UNCHANGED <<ota_q, action, state, starting, apply_timer, seen, starts>>
  BY DEF Finish, Others, IndInv, Control, Reported
<1>2. /\ https' = "freed" /\ Post(<<Evt("finished")>>) /\ ms' = "begin" /\ polling' = FALSE
      /\ UNCHANGED <<decrypt, image, validated, got, aborted>>
  BY DEF Finish, download
<1>3. /\ validated' \in BOOLEAN /\ got' \in 0..Chunks /\ image' \in Versions \cup {None}
      /\ aborted' = "no"
  BY <1>1, <1>2 DEF IndInv, TypeOK, OtaTypeOK, Running
<1>4. /\ Evt("finished") \in Event /\ Evt("finished").type = "finished"
      /\ Evt("finished").got = 0
  BY EventTypes
<1>5. Succeeds(LastEvent, Evt("finished"))  BY <1>1, <1>4 DEF Succeeds
<1>6. EventsOK' /\ LastEvent' = Evt("finished")
  BY <1>1, <1>2, <1>4, <1>5, PostOne DEF IndInv, EventsOK
<1>7. TypeOK' /\ BeginsClean'  BY <1>1, <1>2, <1>3, <1>6, TurnTypes
<1>8. Control' /\ Reported'  BY <1>1, <1>2, <1>4, <1>6 DEF Control, Reported
<1>9. Newest'  BY <1>2 DEF Newest
<1> QED  BY <1>6, <1>7, <1>8, <1>9 DEF IndInv, EventsOK

\* A step that stops the program because a handle is freed again.
LEMMA DoubleFreeStep ==
  ASSUME IndInv, VerifyFails \/ FinishFails, Others
  PROVE  IndInv'
<1>1. /\ aborted' = "double_free" /\ ~Running'
      /\ UNCHANGED <<ota_q, action, polling, ms, https, decrypt, image, validated, got,
                     events, state, starting, apply_timer, seen, starts>>
  BY DEF VerifyFails, FinishFails, Turn, Others, handles, download, Running
<1>2. EventsOK'  BY <1>1, EventsUnchanged
<1>3. OtaTypeOK'  BY <1>1 DEF IndInv, TypeOK, OtaTypeOK
<1>4. TypeOK'  BY <1>3, OthersKeepTypes DEF IndInv
<1>5. Control' /\ Newest' /\ Reported' /\ BeginsClean'
  BY <1>1 DEF Control, Newest, Reported, BeginsClean
<1> QED  BY <1>2, <1>4, <1>5 DEF IndInv, EventsOK

LEMMA DownloadStep ==
  ASSUME IndInv, Download
  PROVE  IndInv'
<1>1. Others  BY DEF Download, Others
<1>2. ~BeginAsserts
  BY DEF BeginAsserts, Turn, IndInv, Control, Running
<1>3. \/ TakeStart \/ TakeAbort \/ Begin(url) \/ FirstChunk \/ Chunk \/ AllReceived
      \/ TransferFails \/ Downloaded \/ Verify \/ VerifyFails \/ Finish \/ FinishFails
  BY <1>2 DEF Download, OtaTask
<1> QED
  BY <1>1, <1>3, TakeStartStep, TakeAbortStep, BeginStep, FirstChunkStep, ChunkStep,
     AllReceivedStep, TransferFailsStep, DownloadedStep, VerifyStep, FinishStep,
     DoubleFreeStep

-----------------------------------------------------------------------------
(* The steps of the server's messages and of the event loop                *)

FieldTypes ==
  /\ phase \in {"idle", "started", "transfer", "downloaded", "ready", "apply"}
  /\ progress \in 0..Chunks
  /\ error \in {"none", "refused", "sw_fault", "ota"}
  /\ policy \in {"immediate", "delayed"}
  /\ starting \in {"no", "submits", "returns"}
  /\ apply_timer \in BOOLEAN
  /\ starts \in 0..MaxStarts
  /\ new_fw_ver \in Versions \cup {None} /\ url \in Versions \cup {None}

QueueTypes == ota_q \in Seq({"start", "abort"}) /\ Len(ota_q) <= OtaQueueLength

LEMMA IndInvTypes ==
  ASSUME IndInv
  PROVE  FieldTypes /\ QueueTypes /\ EventsOK
  BY DEF IndInv, TypeOK, OtaTypeOK, FieldTypes, QueueTypes, EventsOK

\* A step in which the task does nothing.
LEMMA TaskRests ==
  ASSUME IndInv, Running, UNCHANGED task, aborted' \in {"no", "restart"},
         FieldTypes', QueueTypes', EventsOK', seen' \in Event \cup {Evt("none")},
         LastEvent' = LastEvent, Newest'
  PROVE  IndInv'
<1>1. UNCHANGED <<action, polling, ms, https, decrypt, image, validated, got>>  BY DEF task
<1>2. OtaTypeOK'  BY <1>1 DEF IndInv, TypeOK, OtaTypeOK, QueueTypes, EventsOK
<1>3. TypeOK'  BY <1>2 DEF TypeOK, FieldTypes
<1>4. Control' /\ Reported'  BY <1>1 DEF IndInv, Control, Reported, Running
<1>5. BeginsClean'  BY DEF BeginsClean
<1> QED  BY <1>3, <1>4, <1>5 DEF IndInv, EventsOK

LEMMA SendMessage ==
  ASSUME IndInv, NEW msg \in {"start", "abort"}, Len(ota_q) < OtaQueueLength,
         ota_q' = Append(ota_q, msg)
  PROVE  QueueTypes' /\ ota_q' # <<>>
<1>1. ota_q \in Seq({"start", "abort"})  BY DEF IndInv, TypeOK, OtaTypeOK
<1>2. /\ ota_q' \in Seq({"start", "abort"}) /\ Len(ota_q') = Len(ota_q) + 1
      /\ Len(ota_q) \in Nat
  BY <1>1, LenProperties
<1> QED  BY <1>2, EmptySeq, HttpOtaAssumption DEF QueueTypes

LEMMA ServerStep ==
  ASSUME IndInv,
         \/ StartRefused \/ (\E v \in Versions, p \in Policies : Start(v, p))
         \/ Submit \/ StartReturns \/ SubmitAbort
         \/ (\E delay \in BOOLEAN : Install(delay))
         \/ ApplyTimer
  PROVE  IndInv'
<1>1. FieldTypes /\ QueueTypes /\ seen \in Event \cup {Evt("none")}
  BY IndInvTypes DEF IndInv, TypeOK
<1>2. /\ Running /\ UNCHANGED <<task, events, seen>>
  BY DEF StartRefused, Start, Submit, StartReturns, SubmitAbort, Install, ApplyTimer
<1>3. EventsOK' /\ LastEvent' = LastEvent  BY <1>2, EventsUnchanged
<1>4. https' = https /\ image' = image  BY <1>2 DEF task
<1>5. CASE StartRefused
  <2>1. FieldTypes' /\ QueueTypes' /\ aborted' \in {"no", "restart"}
    BY <1>1, <1>2, <1>5 DEF StartRefused, FieldTypes, QueueTypes, Running
  <2>2. Newest'  BY <1>4, <1>5 DEF StartRefused, IndInv, Newest, Running
  <2> QED  BY <1>1, <1>2, <1>3, <2>1, <2>2, TaskRests
<1>6. CASE \E v \in Versions, p \in Policies : Start(v, p)
  <2>1. PICK v \in Versions, p \in Policies : Start(v, p)  BY <1>6
  <2>2. p \in {"immediate", "delayed"} /\ starts' \in 0..MaxStarts
    BY <1>1, <2>1, UpdateAssumption DEF Start, FieldTypes
  <2>3. FieldTypes' /\ QueueTypes' /\ aborted' \in {"no", "restart"}
    BY <1>1, <1>2, <2>1, <2>2 DEF Start, FieldTypes, QueueTypes, Running
  <2>4. Newest'  BY <2>1 DEF Start, Newest
  <2> QED  BY <1>1, <1>2, <1>3, <2>3, <2>4, TaskRests
<1>7. CASE Submit
  <2>1. FieldTypes' /\ aborted' \in {"no", "restart"} /\ url' = url
    BY <1>1, <1>2, <1>7 DEF Submit, FieldTypes, Running
  <2>2. CASE Len(ota_q) < OtaQueueLength
    <3>1. ota_q' = Append(ota_q, "start")  BY <1>7, <2>2 DEF Submit
    <3>2. QueueTypes' /\ ota_q' # <<>>  BY <2>2, <3>1, SendMessage
    <3>3. Newest'  BY <3>2 DEF Newest
    <3> QED  BY <1>1, <1>2, <1>3, <2>1, <3>2, <3>3, TaskRests
  <2>3. CASE ~(Len(ota_q) < OtaQueueLength)
    <3>1. ota_q' = ota_q  BY <1>7, <2>3 DEF Submit
    <3>2. QueueTypes'  BY <1>1, <3>1 DEF QueueTypes
    <3>3. Len(ota_q) # 0  BY <2>3, HttpOtaAssumption
    <3>4. ota_q' # <<>>  BY <3>1, <3>3, EmptySeq
    <3>5. Newest'  BY <3>4 DEF Newest
    <3> QED  BY <1>1, <1>2, <1>3, <2>1, <3>2, <3>5, TaskRests
  <2> QED  BY <2>2, <2>3
<1>8. CASE StartReturns
  <2>1. FieldTypes' /\ QueueTypes' /\ aborted' \in {"no", "restart"}
    BY <1>1, <1>2, <1>8 DEF StartReturns, FieldTypes, QueueTypes, Running
  <2>2. Newest'  BY <1>4, <1>8 DEF StartReturns, IndInv, Newest, Running
  <2> QED  BY <1>1, <1>2, <1>3, <2>1, <2>2, TaskRests
<1>9. CASE SubmitAbort
  <2>1. starts' \in 0..MaxStarts
    BY <1>1, <1>9, UpdateAssumption DEF SubmitAbort, FieldTypes
  <2>2. FieldTypes' /\ aborted' \in {"no", "restart"}
    BY <1>1, <1>2, <1>9, <2>1 DEF SubmitAbort, FieldTypes, Running, state
  <2>3. QueueTypes' /\ ota_q' # <<>>  BY <1>9, SendMessage DEF SubmitAbort
  <2>4. Newest'  BY <2>3 DEF Newest
  <2> QED  BY <1>1, <1>2, <1>3, <2>2, <2>3, <2>4, TaskRests
<1>10. CASE \E delay \in BOOLEAN : Install(delay)
  <2>1. PICK delay \in BOOLEAN : Install(delay)  BY <1>10
  <2>2. FieldTypes' /\ QueueTypes' /\ aborted' \in {"no", "restart"}
    BY <1>1, <1>2, <2>1 DEF Install, Apply, FieldTypes, QueueTypes, Running
  <2>3. Newest'  BY <1>2, <1>4, <2>1 DEF Install, IndInv, Newest, Running
  <2> QED  BY <1>1, <1>2, <1>3, <2>2, <2>3, TaskRests
<1>11. CASE ApplyTimer
  <2>1. FieldTypes' /\ QueueTypes' /\ aborted' = "restart"
    BY <1>1, <1>11 DEF ApplyTimer, FieldTypes, QueueTypes, state
  <2>2. Newest'  BY <2>1 DEF Newest, Running
  <2> QED  BY <1>1, <1>2, <1>3, <2>1, <2>2, TaskRests
<1> QED  BY <1>5, <1>6, <1>7, <1>8, <1>9, <1>10, <1>11

LEMMA HandleEventStep ==
  ASSUME IndInv, HandleEvent
  PROVE  IndInv' /\ Succeeds(seen, seen')
<1>1. FieldTypes /\ QueueTypes  BY IndInvTypes
<1>2. /\ Running /\ events # <<>> /\ events' = Tail(events) /\ seen' = Head(events)
      /\ UNCHANGED <<task, ota_q, starting, starts>> /\ url' = url
  BY DEF HandleEvent, OnBegin, Started, NewProgress, OnDownloaded, OnVerified, OnFinished,
         OnAbort, Handles, state
<1>3. events \in Seq(Event) /\ Len(events) <= EventQueueLength /\ Ordered(seen, events)
  BY DEF IndInv, TypeOK, OtaTypeOK, InOrder
<1>4. /\ seen' \in Event /\ events' \in Seq(Event) /\ Len(events') = Len(events) - 1
      /\ Succeeds(seen, seen')
      /\ Ordered(seen', events')
      /\ LastOf(seen', events') = LastOf(seen, events)
  BY <1>2, <1>3, OneLess
<1>5. EventsOK'
  <2>1. Len(events) \in Nat /\ EventQueueLength \in Nat
    BY <1>3, LenProperties, HttpOtaAssumption
  <2> QED  BY <1>3, <1>4, <2>1 DEF EventsOK, InOrder
<1>6. LastEvent' = LastEvent  BY <1>4 DEF LastEvent
<1>7. Head(events) \in Event /\ Chunks \in 0..Chunks /\ 0 \in 0..Chunks
  BY <1>2, <1>4, HttpOtaAssumption
<1>8. FieldTypes' /\ aborted' \in {"no", "restart"}
  <2>1. Head(events).ver \in Versions \cup {None} /\ Head(events).got \in 0..Chunks
    BY <1>7 DEF Event
  <2>2. CASE OnBegin  BY <1>1, <1>2, <2>2 DEF OnBegin, FieldTypes, state, Running
  <2>3. CASE Started  BY <1>1, <1>2, <1>7, <2>1, <2>3 DEF Started, FieldTypes, Running
  <2>4. CASE NewProgress  BY <1>1, <1>2, <2>1, <2>4 DEF NewProgress, FieldTypes, Running
  <2>5. CASE OnDownloaded  BY <1>1, <1>2, <1>7, <2>5 DEF OnDownloaded, FieldTypes, Running
  <2>6. CASE OnVerified  BY <1>1, <1>2, <2>6 DEF OnVerified, FieldTypes, Running
  <2>7. CASE OnFinished  BY <1>1, <1>2, <2>7 DEF OnFinished, Apply, FieldTypes, Running
  <2>8. CASE OnAbort  BY <1>1, <1>2, <2>8 DEF OnAbort, FieldTypes, Running
  <2> QED  BY <2>2, <2>3, <2>4, <2>5, <2>6, <2>7, <2>8 DEF HandleEvent
<1>9. QueueTypes'  BY <1>1, <1>2 DEF QueueTypes
<1>10. Newest'  BY <1>2 DEF IndInv, Newest, Running, task
<1> QED  BY <1>2, <1>4, <1>5, <1>6, <1>8, <1>9, <1>10, TaskRests

-----------------------------------------------------------------------------
(* The theorems                                                            *)

LEMMA IndInvInit ==
  ASSUME Init
  PROVE  IndInv
<1>1. 0 \in 0..Chunks /\ 0 \in 0..MaxStarts  BY HttpOtaAssumption, UpdateAssumption
<1>2. ota_q = <<>> /\ events = <<>> /\ ~polling /\ polling \in BOOLEAN /\ seen = Evt("none")
  BY DEF Init, OtaInit
<1>3. /\ <<>> \in Seq({"start", "abort"}) /\ <<>> \in Seq(Event) /\ Len(<<>>) = 0
      /\ 0 <= OtaQueueLength /\ 0 <= EventQueueLength
  BY EmptySeq, HttpOtaAssumption
<1>4. /\ ota_q \in Seq({"start", "abort"}) /\ Len(ota_q) <= OtaQueueLength
      /\ events \in Seq(Event) /\ Len(events) <= EventQueueLength
  BY <1>2, <1>3
<1>5. OtaTypeOK  BY <1>1, <1>4 DEF Init, OtaInit, OtaTypeOK
<1>6. TypeOK  BY <1>1, <1>5 DEF Init, TypeOK
<1>7. Control /\ Newest /\ BeginsClean  BY DEF Init, OtaInit, Control, Newest, BeginsClean
<1>8. LastEvent.type = "none"  BY <1>2 DEF LastEvent, LastOf, Evt
<1>9. Reported  BY <1>8 DEF Init, OtaInit, Reported
<1>10. InOrder
  <2>1. 1..Len(<<>>)-1 = {}  BY <1>3
  <2> QED  BY <1>2, <2>1 DEF InOrder, Ordered
<1> QED  BY <1>6, <1>7, <1>9, <1>10 DEF IndInv

LEMMA IndInvStep ==
  ASSUME IndInv, [Next]_vars
  PROVE  IndInv' /\ (seen' = seen \/ Succeeds(seen, seen'))
<1>1. CASE Download
  <2>1. IndInv'  BY <1>1, DownloadStep
  <2>2. seen' = seen  BY <1>1 DEF Download
  <2> QED  BY <2>1, <2>2
<1>2. CASE HandleEvent  BY <1>2, HandleEventStep
<1>3. CASE \/ StartRefused \/ (\E v \in Versions, p \in Policies : Start(v, p))
           \/ Submit \/ StartReturns \/ SubmitAbort
           \/ (\E delay \in BOOLEAN : Install(delay))
           \/ ApplyTimer
  <2>1. IndInv'  BY <1>3, ServerStep
  <2>2. seen' = seen
    BY <1>3 DEF StartRefused, Start, Submit, StartReturns, SubmitAbort, Install, ApplyTimer
  <2> QED  BY <2>1, <2>2
<1>4. CASE UNCHANGED vars
  <2>1. UNCHANGED <<ota_q, action, polling, ms, https, decrypt, image, validated, got, events,
                    aborted, new_fw_ver, phase, progress, error, policy, url, starting,
                    apply_timer, seen, starts>>
    BY <1>4 DEF vars
  <2>2. EventsOK' /\ LastEvent' = LastEvent  BY <2>1, EventsUnchanged
  <2>3. OtaTypeOK'  BY <2>1 DEF IndInv, TypeOK, OtaTypeOK
  <2>4. TypeOK'  BY <2>1, <2>3 DEF IndInv, TypeOK, Evt
  <2>5. Control' /\ Newest' /\ Reported' /\ BeginsClean'
    BY <2>1, <2>2 DEF IndInv, Control, Newest, Reported, BeginsClean, Running
  <2> QED  BY <2>1, <2>2, <2>4, <2>5 DEF IndInv, EventsOK
<1> QED  BY <1>1, <1>2, <1>3, <1>4 DEF Next

(***************************************************************************)
(* The inductive invariant of the download task and of update.c.           *)
(***************************************************************************)
THEOREM Invariance == Spec => []IndInv
<1>1. Init => IndInv  BY IndInvInit
<1>2. IndInv /\ [Next]_vars => IndInv'  BY IndInvStep
<1> QED  BY <1>1, <1>2, PTL DEF Spec

(***************************************************************************)
(* The types, and with them the bounds of the two queues.                  *)
(***************************************************************************)
THEOREM TypeCorrect == Spec => []TypeOK
<1>1. IndInv => TypeOK  BY DEF IndInv
<1> QED  BY <1>1, Invariance, PTL

(***************************************************************************)
(* The assertions of http_ota.c:215-216 never fail.                        *)
(***************************************************************************)
THEOREM CleanBegins == Spec => []BeginsClean
<1>1. IndInv => BeginsClean  BY DEF IndInv
<1> QED  BY <1>1, Invariance, PTL

(***************************************************************************)
(* A download task that waits (http_ota.c:318-331, 355-360) holds nothing. *)
(***************************************************************************)
THEOREM NoLeftovers == Spec => []NothingLeftOpen
<1>1. IndInv => NothingLeftOpen  BY DEF IndInv, Control, NothingLeftOpen
<1> QED  BY <1>1, Invariance, PTL

(***************************************************************************)
(* The newest start wins (update.c:218-226, http_ota.c:188-198).           *)
(***************************************************************************)
THEOREM NewestWins == Spec => []NewestDownloaded
<1>1. IndInv => NewestDownloaded  BY DEF IndInv, Newest, NewestDownloaded
<1> QED  BY <1>1, Invariance, PTL

(***************************************************************************)
(* The listeners of EM_HTTP_OTA_EVENT (http_ota.c:150-365, sys_evt.c) see  *)
(* one download after the other, each with its events in order.            *)
(***************************************************************************)
THEOREM OrderKept == Spec => KeepsOrder
<1>1. Init => Session!Init  BY DEF Init, Session!Init, Evt
<1>2. IndInv /\ IndInv' /\ [Next]_vars => [Session!Next]_(Session!vars)
  <2> SUFFICES ASSUME IndInv, IndInv', [Next]_vars
               PROVE  [Session!Next]_(Session!vars)
    OBVIOUS
  <2>1. CASE seen' = seen  BY <2>1 DEF Session!vars
  <2>2. CASE Succeeds(seen, seen')
    <3>1. seen'.got \in 0..Chunks
      <4>1. seen' \in Event \cup {Evt("none")}  BY DEF IndInv, TypeOK
      <4> QED  BY <4>1, HttpOtaAssumption DEF Event, Evt
    <3>2. Session!Next
      BY <2>2, <3>1 DEF Succeeds, Session!Next, Session!Begin, Session!AtRest,
         Session!Validated, Session!Transfer, Session!Downloaded, Session!Verified,
         Session!Finished, Session!Abort
    <3> QED  BY <3>2
  <2> QED  BY <2>1, <2>2, IndInvStep
<1> QED  BY <1>1, <1>2, Invariance, PTL DEF Spec, KeepsOrder, Session!Spec
=============================================================================

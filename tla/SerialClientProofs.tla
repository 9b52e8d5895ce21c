------------------------- MODULE SerialClientProofs -------------------------
(***************************************************************************)
(* The serial client's safety properties, for any requests, timeouts,      *)
(* retries and periods, and any lengths of the table and the queues.       *)
(*                                                                         *)
(* PayloadsOwned and PollingGoesOn are inductive together with the types   *)
(* and with what is known of a timer that was deleted: every command       *)
(* leaves the table sound and, if requests are left in it, the timer about *)
(* to run, or created in the memory of one that runs.  The types need that the scheduler's minimum    *)
(* over the table is one of the times it is taken over, that is, that a    *)
(* finite set of numbers has a least element.                              *)
(***************************************************************************)
EXTENDS SerialClient, SequenceTheorems, FunctionTheorems, FiniteSetTheorems, TLAPS

-----------------------------------------------------------------------------
(* The minimum of a finite set of numbers                                  *)

\* The elements of S are compared by how many others are below them.
LEMMA LeastElement ==
  ASSUME NEW S \in SUBSET Int, IsFiniteSet(S), S # {}
  PROVE  \E x \in S : \A y \in S : x <= y
<1> DEFINE Below(x) == {y \in S : y < x}
           T == {Cardinality(Below(x)) : x \in S}
           R == OpToRel(<, Nat)
<1>1. \A x \in S : IsFiniteSet(Below(x)) /\ Cardinality(Below(x)) \in Nat
  <2> TAKE x \in S
  <2>1. Below(x) \in SUBSET S  OBVIOUS
  <2>2. IsFiniteSet(Below(x))  BY <2>1, FS_Subset
  <2> QED  BY <2>2, FS_CardinalityType
<1>2. T \subseteq Nat /\ T # {}  BY <1>1
<1>3. \E m \in T : \A n \in T : ~(<<n, m>> \in R)
  <2> HIDE DEF T, R
  <2>1. IsWellFoundedOn(R, Nat)  BY NatLessThanWellFounded DEF R
  <2> QED  BY <1>2, <2>1, WFMin
<1>4. PICK m \in T : \A n \in T : ~(n < m)  BY <1>2, <1>3 DEF OpToRel
<1>5. PICK x \in S : m = Cardinality(Below(x))  BY <1>4
<1>6. \A y \in S : x <= y
  <2> SUFFICES ASSUME NEW y \in S, ~(x <= y)  PROVE FALSE  OBVIOUS
  <2>1. y < x  OBVIOUS
  <2>2. Below(y) \in SUBSET Below(x) /\ y \in Below(x) /\ y \notin Below(y)
    <3>1. \A z \in S : z < y => z < x  BY <2>1
    <3>2. ~(y < y)  OBVIOUS
    <3> QED  BY <2>1, <3>1, <3>2
  <2> HIDE DEF Below
  <2>3. /\ Cardinality(Below(y)) <= Cardinality(Below(x))
        /\ Cardinality(Below(x)) = Cardinality(Below(y)) => Below(x) = Below(y)
    BY <1>1, <2>2, FS_Subset
  <2>4. Cardinality(Below(y)) < Cardinality(Below(x))  BY <1>1, <2>2, <2>3
  <2> QED  BY <1>4, <1>5, <2>4
<1> QED  BY <1>6

LEMMA MinLeast ==
  ASSUME NEW S \in SUBSET Int, IsFiniteSet(S), S # {}
  PROVE  Min(S) \in S /\ \A y \in S : Min(S) <= y
BY LeastElement DEF Min

\* The image of a finite set of slots under a function of the slots
LEMMA ImageFinite ==
  ASSUME NEW S, IsFiniteSet(S), NEW f, DOMAIN f = S
  PROVE  IsFiniteSet({f[i] : i \in S})
<1> DEFINE T == {f[i] : i \in S}
           g == [i \in S |-> f[i]]
<1>1. g \in [S -> T] /\ \A t \in T : \E s \in S : g[s] = t  OBVIOUS
<1>2. g \in Surjection(S, T)  BY <1>1, Fun_IsSurj
<1> HIDE DEF g
<1> QED  BY <1>2, FS_Surjection

-----------------------------------------------------------------------------
(* Types                                                                   *)

Request ==
  [id : Ids \cup {None}, timeout : Nat, since : Int, retries : 0..255, max : 0..255,
   payload : BOOLEAN, active : BOOLEAN, periodic : BOOLEAN]

\* A table in which every active request, and no other, owns its payload
Sound(r) ==
  /\ r \in [Slots -> Request]
  /\ \A i \in Slots : r[i].active <=> r[i].payload
  /\ \A i \in Slots : r[i].active => r[i].id \in Ids

TimerCommands == {"period", "start", "stop", "delete"}

Reasons == {"no", "payload_not_null", "timer_relinked"}

SerialTypeOK ==
  /\ rq \in [Slots -> Request]
  /\ \A i \in Slots : rq[i].active => rq[i].id \in Ids
  /\ last_rq_id \in Ids \cup {None}
  /\ timer \in BOOLEAN
  /\ cmd_queue \in Seq(Command) /\ Len(cmd_queue) <= CmdQueueLength
  /\ todo \in Seq(TimerCommands)
  /\ removing \in Ids \cup {None}
  /\ timerq \in Seq(TimerCommands) /\ Len(timerq) <= TimerQueueLength
  /\ armed \in BOOLEAN
  /\ dpc \in {"idle", "sending"}
  /\ ring \in Seq(Frame) /\ Len(ring) <= RingFrames
  /\ unanswered \in [Ids -> Nat]
  /\ calls \in Nat
  /\ aborted \in Reasons

\* What the task and the daemon have yet to do with a timer that was deleted
\* ends with its deletion.
Deleted ==
  ~timer => LET q == timerq \o todo IN IF q = <<>> THEN ~armed ELSE Last(q) = "delete"

SerialInv == SerialTypeOK /\ PayloadsOwned /\ PollingGoesOn /\ Deleted

LEMMA Numbers ==
  /\ MaxRqs \in Nat /\ CmdQueueLength \in Nat /\ TimerQueueLength \in Nat
  /\ RingFrames \in Nat /\ RingFrames > 0 /\ PeekFrames \in Nat /\ PeekFrames > 0
  /\ Slots \subseteq Nat /\ Slots \subseteq Int /\ IsFiniteSet(Slots)
<1>1. MaxRqs \in Nat /\ CmdQueueLength \in Nat /\ TimerQueueLength \in Nat
      /\ RingFrames \in Nat /\ RingFrames # 0
  BY SerialClientAssumption
<1>2. PeekFrames \in 1..RingFrames  BY SerialClientAssumption
<1>3. Slots \subseteq Nat /\ Slots \subseteq Int /\ IsFiniteSet(Slots)
  BY <1>1, FS_Interval DEF Slots
<1> QED  BY <1>1, <1>2, <1>3

-----------------------------------------------------------------------------
(* The table                                                               *)

\* The least of some slots is one of them.
LEMMA MinSlot ==
  ASSUME NEW S \in SUBSET Slots, S # {}
  PROVE  Min(S) \in S /\ \A i \in S : Min(S) <= i
<1>1. IsFiniteSet(S) /\ S \in SUBSET Int  BY Numbers, FS_Subset
<1> QED  BY <1>1, MinLeast

\* The next event is due at a time at which some request is.
LEMMA EarliestType ==
  ASSUME NEW r, Sound(r), Active(r) # {}
  PROVE  Earliest(r) \in Int
<1> DEFINE f == [i \in Active(r) |-> Due(r, i)]
<1>1. IsFiniteSet(Active(r))  BY Numbers, FS_Subset DEF Active
<1>2. \A i \in Active(r) : Due(r, i) \in Int
  BY DEF Sound, Request, Due, Active
<1>3. {Due(r, i) : i \in Active(r)} = {f[i] : i \in Active(r)}  OBVIOUS
<1>4. IsFiniteSet({f[i] : i \in Active(r)})  BY <1>1, ImageFinite
<1>5. {Due(r, i) : i \in Active(r)} \in SUBSET Int
      /\ {Due(r, i) : i \in Active(r)} # {}
  BY <1>2
<1>6. Earliest(r) \in {Due(r, i) : i \in Active(r)}
  BY <1>3, <1>4, <1>5, MinLeast DEF Earliest
<1> QED  BY <1>5, <1>6

LEMMA Since_Request ==
  ASSUME NEW q \in Request, NEW d \in Int  PROVE [q EXCEPT !.since = d] \in Request
BY DEF Request

LEMMA Retries_Request ==
  ASSUME NEW q \in Request, NEW n \in 0..255  PROVE [q EXCEPT !.retries = n] \in Request
BY DEF Request

LEMMA Inactive_Request ==
  ASSUME NEW q \in Request
  PROVE  [[q EXCEPT !.active = FALSE] EXCEPT !.payload = FALSE] \in Request
BY DEF Request

LEMMA EntryType ==
  ASSUME NEW r \in [Slots -> Request], NEW i \in Slots, NEW q \in Request
  PROVE  [r EXCEPT ![i] = q] \in [Slots -> Request]
OBVIOUS

\* Writing the times and tries of a request leaves the table sound.
Timed(r, i, d, n) == [r EXCEPT ![i].since = d, ![i].retries = n]

LEMMA Timed_Sound ==
  ASSUME NEW r, Sound(r), NEW i \in Slots, NEW d \in Int, NEW n \in 0..255
  PROVE  Sound(Timed(r, i, d, n)) /\ Active(Timed(r, i, d, n)) = Active(r)
<1> USE DEF Timed
<1> DEFINE s == Timed(r, i, d, n)
           q == [r[i] EXCEPT !.since = d]
<1>1. s \in [Slots -> Request]
  <2> DEFINE u == [q EXCEPT !.retries = n]
  <2>1. r \in [Slots -> Request] /\ u \in Request
    BY Since_Request, Retries_Request DEF Sound
  <2>2. s = [r EXCEPT ![i] = u]  BY DEF Sound
  <2> HIDE DEF s, u
  <2> QED  BY <2>1, <2>2, EntryType
<1>2. \A j \in Slots : /\ s[j].active = r[j].active /\ s[j].payload = r[j].payload
                       /\ s[j].id = r[j].id
  BY DEF Sound, Request
<1> HIDE DEF s
<1>3. Sound(s)  BY <1>1, <1>2 DEF Sound
<1>4. Active(s) = Active(r)  BY <1>2 DEF Active
<1> QED  BY <1>3, <1>4 DEF s

\* deactivate_rq
LEMMA Deactivate_Sound ==
  ASSUME NEW r, Sound(r), NEW i \in Slots
  PROVE  Sound(Deactivate(r, i)) /\ Active(Deactivate(r, i)) \subseteq Active(r)
<1> DEFINE s == Deactivate(r, i)
<1>1. s \in [Slots -> Request]
  <2> DEFINE u == [[r[i] EXCEPT !.active = FALSE] EXCEPT !.payload = FALSE]
  <2>1. r \in [Slots -> Request] /\ u \in Request
    BY Inactive_Request DEF Sound
  <2>2. s = [r EXCEPT ![i] = u]  BY DEF Sound, Deactivate
  <2> HIDE DEF s, u
  <2> QED  BY <2>1, <2>2, EntryType
<1>2. \A j \in Slots \ {i} : s[j] = r[j]  BY DEF Sound, Deactivate
<1>3. ~s[i].active /\ ~s[i].payload  BY DEF Sound, Request, Deactivate
<1> HIDE DEF s
<1>4. Sound(s) /\ Active(s) \subseteq Active(r)
  BY <1>1, <1>2, <1>3 DEF Sound, Active
<1> QED  BY <1>4 DEF s

LEMMA Elapse_Sound ==
  ASSUME NEW r, Sound(r), NEW d \in Int
  PROVE  Sound(Elapse(r, d)) /\ Active(Elapse(r, d)) = Active(r)
<1> DEFINE s == Elapse(r, d)
<1>1. s \in [Slots -> Request]
  <2>1. \A j \in Slots : [r[j] EXCEPT !.since = @ + d] \in Request
    <3> TAKE j \in Slots
    <3>1. r[j] \in Request /\ r[j].since + d \in Int  BY DEF Sound, Request
    <3> QED  BY <3>1, Since_Request
  <2> QED  BY <2>1 DEF Sound, Elapse
<1>2. \A j \in Slots : /\ s[j].active = r[j].active /\ s[j].payload = r[j].payload
                       /\ s[j].id = r[j].id
  BY DEF Sound, Request, Elapse
<1> HIDE DEF s
<1>3. Sound(s)  BY <1>1, <1>2 DEF Sound
<1>4. Active(s) = Active(r)  BY <1>2 DEF Active
<1> QED  BY <1>3, <1>4 DEF s

LEMMA AckTable_Sound ==
  ASSUME NEW r, Sound(r), NEW id
  PROVE  Sound(AckTable(r, id)) /\ Active(AckTable(r, id)) \subseteq Active(r)
<1> DEFINE S == {i \in Active(r) : r[i].id = id}
           s == Timed(r, Min(S), 0, 0)
<1>1. CASE S = {}  BY <1>1 DEF AckTable
<1>2. CASE S # {}
  <2>1. Min(S) \in Slots
    <3>1. S \in SUBSET Slots  BY DEF Active
    <3> QED  BY <1>2, <3>1, MinSlot
  <2>2. Sound(s) /\ Active(s) = Active(r)  BY <2>1, Timed_Sound
  <2>3. AckTable(r, id) = IF r[Min(S)].max > 0 THEN Deactivate(s, Min(S)) ELSE s
    BY <1>2 DEF AckTable, Timed
  <2> HIDE DEF s
  <2> QED  BY <2>1, <2>2, <2>3, Deactivate_Sound
<1> QED  BY <1>1, <1>2

\* The order in which the fields are written does not matter, nor does what
\* was there before.
LEMMA Rewritten ==
  ASSUME NEW q \in Request, NEW d, NEW n, NEW m
  PROVE  /\ [q EXCEPT !.retries = n, !.since = d] = [q EXCEPT !.since = d, !.retries = n]
         /\ [q EXCEPT !.retries = n, !.since = d, !.retries = m]
              = [q EXCEPT !.since = d, !.retries = m]
BY DEF Request

Tried(r, i, n) == [r EXCEPT ![i].retries = n]

LEMMA Timed_Tried ==
  ASSUME NEW r \in [Slots -> Request], NEW i \in Slots, NEW d, NEW n
  PROVE  [Tried(r, i, n) EXCEPT ![i].since = d] = Timed(r, i, d, n)
<1> DEFINE q1 == [r[i] EXCEPT !.retries = n, !.since = d]
           q2 == [r[i] EXCEPT !.since = d, !.retries = n]
<1>1. q1 = q2  BY Rewritten
<1>2. [Tried(r, i, n) EXCEPT ![i].since = d] = [r EXCEPT ![i] = q1]  BY DEF Tried
<1>3. Timed(r, i, d, n) = [r EXCEPT ![i] = q2]  BY DEF Timed
<1> HIDE DEF q1, q2
<1> QED  BY <1>1, <1>2, <1>3

LEMMA Timed_Again ==
  ASSUME NEW r \in [Slots -> Request], NEW i \in Slots, NEW d, NEW n, NEW m
  PROVE  Timed(Tried(r, i, n), i, d, m) = Timed(r, i, d, m)
<1> DEFINE q1 == [r[i] EXCEPT !.retries = n, !.since = d, !.retries = m]
           q2 == [r[i] EXCEPT !.since = d, !.retries = m]
<1>1. q1 = q2  BY Rewritten
<1>2. Timed(Tried(r, i, n), i, d, m) = [r EXCEPT ![i] = q1]  BY DEF Tried, Timed
<1>3. Timed(r, i, d, m) = [r EXCEPT ![i] = q2]  BY DEF Timed
<1> HIDE DEF q1, q2
<1> QED  BY <1>1, <1>2, <1>3

\* What sending the request does to the table
LEMMA SentTable_Sound ==
  ASSUME Sound(rq), NEW i \in Slots
  PROVE  Sound(SentTable(i)) /\ Active(SentTable(i)) \subseteq Active(rq)
<1> DEFINE n == (rq[i].retries + 1) % 256
           r == Tried(rq, i, n)
           d == r[i].since - 100
<1>1. n \in 0..255 /\ 0 \in 0..255 /\ 0 \in Int /\ d \in Int /\ rq \in [Slots -> Request]
  BY DEF Sound, Request, Tried
<1>2. SentTable(i) = IF ~rq[i].periodic
                     THEN IF n > rq[i].max
                          THEN Deactivate([r EXCEPT ![i].since = 0, ![i].retries = 0], i)
                          ELSE [r EXCEPT ![i].since = 0]
                     ELSE IF n > 2
                          THEN [r EXCEPT ![i].since = 0, ![i].retries = 0]
                          ELSE [r EXCEPT ![i].since = d]
  BY <1>1 DEF SentTable, Tried
<1> HIDE DEF d, n
<1>3. /\ [r EXCEPT ![i].since = 0, ![i].retries = 0] = Timed(rq, i, 0, 0)
      /\ [r EXCEPT ![i].since = 0] = Timed(rq, i, 0, n)
      /\ [r EXCEPT ![i].since = d] = Timed(rq, i, d, n)
  <2>1. Timed(r, i, 0, 0) = Timed(rq, i, 0, 0)
    BY <1>1, Timed_Again
  <2>2. \A e : [Tried(rq, i, n) EXCEPT ![i].since = e] = Timed(rq, i, e, n)
    BY <1>1, Timed_Tried
  <2> QED  BY <2>1, <2>2 DEF Timed
<1> HIDE DEF r
<1>4. Sound(Timed(rq, i, 0, 0)) /\ Active(Timed(rq, i, 0, 0)) = Active(rq)
  BY <1>1, Timed_Sound
<1>5. Sound(Timed(rq, i, 0, n)) /\ Active(Timed(rq, i, 0, n)) = Active(rq)
  BY <1>1, Timed_Sound
<1>6. Sound(Timed(rq, i, d, n)) /\ Active(Timed(rq, i, d, n)) = Active(rq)
  BY <1>1, Timed_Sound
<1>7. LET s == Deactivate(Timed(rq, i, 0, 0), i) IN Sound(s) /\ Active(s) \subseteq Active(rq)
  BY <1>4, Deactivate_Sound
<1> QED  BY <1>2, <1>3, <1>4, <1>5, <1>6, <1>7

\* A free slot takes a request that owns its payload.
LEMMA Entered_Sound ==
  ASSUME NEW r, Sound(r), NEW i \in Slots, NEW q \in Request,
         q.active, q.payload, q.id \in Ids
  PROVE  Sound([r EXCEPT ![i] = q])
BY DEF Sound

-----------------------------------------------------------------------------
(* Queues                                                                  *)

\* What else the type invariant says of a queue whose head is taken
LEMMA TailType ==
  ASSUME NEW S, NEW q \in Seq(S), q # <<>>
  PROVE  Tail(q) \in Seq(S) /\ Len(Tail(q)) = Len(q) - 1 /\ Len(q) \in Nat \ {0}
         /\ Head(q) \in S
BY HeadTailProperties, EmptySeq, LenProperties

LEMMA CommandFields ==
  ASSUME NEW c \in Command
  PROVE  /\ c.type = "add" => c.id \in Ids /\ c.timeout \in Timeouts /\ c.retries \in Retries
         /\ c.type = "periodic" => c.id \in Ids /\ c.period \in Periods
         /\ c.type = "remove" => c.id \in Ids
         /\ c.type = "data" => c.frame \in Frame
<1>1. CASE c \in [type : {"add"}, id : Ids, timeout : Timeouts, retries : Retries]
  BY <1>1
<1>2. CASE c \in [type : {"periodic"}, id : Ids, period : Periods]  BY <1>2
<1>3. CASE c \in [type : {"remove"}, id : Ids]  BY <1>3
<1>4. CASE c \in [type : {"data"}, frame : Frame]  BY <1>4
<1>5. CASE c \in [type : {"timer"}]  BY <1>5
<1> QED  BY <1>1, <1>2, <1>3, <1>4, <1>5 DEF Command, AppCommand

LEMMA CommandsMade ==
  /\ AppCommand \subseteq Command
  /\ \A f \in Frame : [type |-> "data", frame |-> f] \in Command
  /\ [type |-> "timer"] \in Command
  /\ \A id \in Ids : [type |-> "remove", id |-> id] \in Command
BY DEF Command, AppCommand

LEMMA Stored_Type ==
  ASSUME ring \in Seq(Frame), Len(ring) <= RingFrames, NEW f \in Frame
  PROVE  Stored(f) \in Seq(Frame) /\ Len(Stored(f)) <= RingFrames
<1> DEFINE s == Append(ring, f)
<1>1. s \in Seq(Frame) /\ Len(s) = Len(ring) + 1 /\ Len(ring) \in Nat /\ s # <<>>
  BY AppendProperties, LenProperties
<1>2. Tail(s) \in Seq(Frame) /\ Len(Tail(s)) = Len(s) - 1
  BY <1>1, TailType
<1>3. Stored(f) = IF Len(s) > RingFrames THEN Tail(s) ELSE s  BY DEF Stored
<1> HIDE DEF s
<1> QED  BY <1>1, <1>2, <1>3, Numbers

LEMMA Rest_Type ==
  ASSUME NEW s \in Seq(Frame), Len(s) <= RingFrames
  PROVE  Rest(s) \in Seq(Frame) /\ Len(Rest(s)) <= RingFrames
<1> DEFINE n == IF Len(s) < PeekFrames THEN Len(s) ELSE PeekFrames
<1>1. Len(s) \in Nat /\ n \in Nat /\ n <= Len(s)
  BY Numbers, LenProperties
<1> HIDE DEF n
<1>2. \A i \in 1..Len(s) : s[i] \in Frame  BY ElementOfSeq
<1>3. Len(SubSeq(s, 1, n)) = n  BY <1>1, <1>2, SubSeqProperties
<1>4. Rest(s) = SubSeq(s, n + 1, Len(s))  BY <1>3 DEF Rest, Peeked, n
<1>5. n + 1 \in Int /\ Len(s) \in Int /\ \A i \in (n + 1)..Len(s) : s[i] \in Frame
  BY <1>1, <1>2
<1>6. /\ SubSeq(s, n + 1, Len(s)) \in Seq(Frame)
      /\ Len(SubSeq(s, n + 1, Len(s))) = IF n + 1 <= Len(s) THEN Len(s) - (n + 1) + 1 ELSE 0
  BY <1>5, SubSeqProperties
<1> QED  BY <1>1, <1>4, <1>6, Numbers

-----------------------------------------------------------------------------
(* What handling a command leaves behind                                   *)

\* A sound table, and the timer left alone with no new request in the table,
\* deleted with none at all, or started; started in the memory of one that runs
\* only if that one was deleted.
Starts == todo' # <<>> /\ Last(todo') = "start"
Leaves ==
  /\ Sound(rq')
  /\ timer' \in BOOLEAN
  /\ todo' \in Seq(TimerCommands)
  /\ aborted' \in Reasons \ {"payload_not_null"}
  /\ \/ Active(rq') \subseteq Active(rq) /\ UNCHANGED <<todo, timer, aborted>>
     \/ /\ Active(rq') = {}
        /\ ~timer' /\ todo' # <<>> /\ Last(todo') = "delete" /\ aborted' = aborted
     \/ Starts /\ timer' /\ (aborted' = aborted \/ (~timer /\ armed))

LEMMA InvSound == ASSUME SerialTypeOK, PayloadsOwned  PROVE Sound(rq)
BY DEF SerialTypeOK, PayloadsOwned, Sound

LEMMA StartTimer_Leaves ==
  ASSUME SerialTypeOK, PayloadsOwned, StartTimer
  PROVE  /\ timer' \in BOOLEAN /\ todo' \in Seq(TimerCommands) /\ Starts
         /\ timer' /\ (aborted' = aborted \/ (~timer /\ armed))
         /\ aborted' \in Reasons \ {"payload_not_null"}
<1>1. <<"period", "start">> \in Seq(TimerCommands) /\ <<"start">> \in Seq(TimerCommands)
  BY DEF TimerCommands
<1>2. /\ Last(<<"period", "start">>) = "start" /\ Last(<<"start">>) = "start"
      /\ <<"period", "start">> # <<>> /\ <<"start">> # <<>>
  BY DEF Last
<1>3. aborted \in Reasons \ {"payload_not_null"}
  BY DEF SerialTypeOK, PayloadsOwned, Reasons
<1>4. aborted' \in Reasons \ {"payload_not_null"}
  BY <1>3 DEF StartTimer, Reasons
<1>5. timer' \in BOOLEAN /\ timer'  BY DEF StartTimer
<1>6. todo' \in {<<"period", "start">>, <<"start">>}  BY DEF StartTimer
<1>7. aborted' = aborted \/ (~timer /\ armed)  BY DEF StartTimer
<1>8. todo' \in Seq(TimerCommands) /\ Starts  BY <1>1, <1>2, <1>6 DEF Starts
<1> QED  BY <1>4, <1>5, <1>7, <1>8

LEMMA NoTimer_Leaves ==
  ASSUME SerialTypeOK, PayloadsOwned, NoTimer
  PROVE  /\ timer' \in BOOLEAN /\ todo' \in Seq(TimerCommands)
         /\ UNCHANGED <<todo, timer, aborted>>
         /\ aborted' \in Reasons \ {"payload_not_null"}
BY DEF SerialTypeOK, PayloadsOwned, NoTimer, Reasons

LEMMA Insert_Leaves ==
  ASSUME SerialTypeOK, PayloadsOwned, NEW request, Insert(request),
         \A i \in Slots : /\ request[i] \in Request
                         /\ request[i].active /\ request[i].payload /\ request[i].id \in Ids
  PROVE  Leaves
<1>1. Sound(rq)  BY InvSound
<1>2. CASE Free(rq) = {}
  BY <1>1, <1>2, NoTimer_Leaves DEF Insert, Leaves
<1>3. CASE Free(rq) # {}
  <2> DEFINE i == Min(Free(rq))
  <2>1. i \in Free(rq) /\ i \in Slots
    <3>1. Free(rq) \in SUBSET Slots  BY DEF Free
    <3> QED  BY <1>3, <3>1, MinSlot
  <2>2. ~rq[i].payload  BY <1>1, <2>1 DEF Sound, Free, Active
  <2>3. rq' = [rq EXCEPT ![i] = request[i]] /\ StartTimer
    BY <1>3, <2>2 DEF Insert
  <2> HIDE DEF i
  <2>4. Sound([rq EXCEPT ![i] = request[i]])  BY <1>1, <2>1, Entered_Sound
  <2> QED  BY <2>3, <2>4, StartTimer_Leaves DEF Leaves
<1> QED  BY <1>2, <1>3

LEMMA ScheduleNext_Leaves ==
  ASSUME SerialTypeOK, PayloadsOwned, NEW r, Sound(r),
         NEW d, Active(r) # {} => d \in Int, ScheduleNext(r, d)
  PROVE  Leaves /\ (Active(rq') = {} \/ Starts)
<1>1. CASE Active(r) = {}
  BY <1>1, NoTimer_Leaves DEF ScheduleNext, Leaves
<1>2. CASE Active(r) # {}
  <2>1. rq' = Elapse(r, d) /\ StartTimer  BY <1>2 DEF ScheduleNext
  <2> QED  BY <1>2, <2>1, Elapse_Sound, StartTimer_Leaves DEF Leaves
<1> QED  BY <1>1, <1>2

\* The commands to come end with the task's last.
LEMMA Ends ==
  ASSUME SerialTypeOK, todo' \in Seq(TimerCommands), todo' # <<>>, timerq' = timerq
  PROVE  timerq' \o todo' # <<>> /\ Last(timerq' \o todo') = Last(todo')
<1>1. timerq \in Seq(TimerCommands) /\ Len(timerq) \in Nat /\ Len(todo') \in Nat \ {0}
  BY LenProperties, EmptySeq DEF SerialTypeOK
<1>2. /\ timerq \o todo' \in Seq(TimerCommands)
      /\ Len(timerq \o todo') = Len(timerq) + Len(todo')
      /\ (timerq \o todo')[Len(timerq) + Len(todo')] = todo'[Len(todo')]
  BY <1>1, ConcatProperties
<1> QED  BY <1>1, <1>2, EmptySeq DEF Last

\* The timer is last told to start.
LEMMA Starts_Run ==
  ASSUME SerialTypeOK, todo' \in Seq(TimerCommands), Starts, timerq' = timerq,
         ~TimerRelinked'
  PROVE  WillRun'
<1>1. timerq' \o todo' # <<>> /\ Last(timerq' \o todo') = "start"
  BY Ends DEF Starts
<1> QED  BY <1>1 DEF WillRun

\* A timer that runs although it was deleted: its deletion is under way.
LEMMA DeletedRuns ==
  ASSUME SerialTypeOK, Deleted, AtQueue, ~timer, armed
  PROVE  DeletionQueued
<1>1. timerq \in Seq(TimerCommands) /\ todo = <<>>  BY DEF SerialTypeOK, AtQueue
<1>2. timerq \o todo = timerq  BY <1>1, ConcatEmptySeq
<1> QED  BY <1>2 DEF Deleted, DeletionQueued

\* A timer command that is not the one taken is still in the queue.
LEMMA Tail_Timer ==
  ASSUME cmd_queue \in Seq(Command), cmd_queue # <<>>, Head(cmd_queue).type # "timer",
         NEW k \in DOMAIN cmd_queue, cmd_queue[k].type = "timer"
  PROVE  \E j \in DOMAIN Tail(cmd_queue) : Tail(cmd_queue)[j].type = "timer"
<1>1. /\ Tail(cmd_queue) \in Seq(Command) /\ Len(cmd_queue) \in Nat
      /\ Len(Tail(cmd_queue)) = Len(cmd_queue) - 1
      /\ \A i \in 1..Len(Tail(cmd_queue)) : Tail(cmd_queue)[i] = cmd_queue[i + 1]
  BY HeadTailProperties, LenProperties
<1>2. k \in 2..Len(cmd_queue)  BY <1>1
<1>3. k - 1 \in DOMAIN Tail(cmd_queue) /\ Tail(cmd_queue)[k - 1] = cmd_queue[k]
  BY <1>1, <1>2
<1> QED  BY <1>3

LEMMA Handled_Polls ==
  ASSUME SerialTypeOK, PollingGoesOn, Deleted, Leaves, NEW type, Takes(type),
         type = "timer" => Active(rq') = {} \/ Starts,
         timerq' = timerq, armed' = armed, dpc' = dpc
  PROVE  PollingGoesOn'
<1>1. AtQueue /\ ~TimerRelinked  BY DEF Takes, Running, TimerRelinked
<1>2. TimerRelinked' => armed' /\ DeletionQueued'
  <2>1. TimerRelinked' => ~timer /\ armed  BY <1>1 DEF Leaves, TimerRelinked
  <2> QED  BY <1>1, <2>1, DeletedRuns DEF DeletionQueued
<1>3. CASE Active(rq') = {}  BY <1>2, <1>3 DEF PollingGoesOn, Active
<1>4. CASE Starts  BY <1>2, <1>4, Starts_Run DEF Leaves, PollingGoesOn
<1>5. CASE /\ Active(rq') \subseteq Active(rq) /\ UNCHANGED <<todo, timer, aborted>>
           /\ type # "timer" /\ Active(rq') # {}
  <2>1. Active(rq) # {}  BY <1>5
  <2>2. WillRun' = WillRun  BY <1>5 DEF WillRun, TimerRelinked
  <2>3. CASE \E k \in DOMAIN cmd_queue : cmd_queue[k].type = "timer"
    BY <1>2, <1>5, <2>3, Tail_Timer DEF Takes, SerialTypeOK, PollingGoesOn
  <2> QED  BY <1>1, <1>2, <2>1, <2>2, <2>3 DEF PollingGoesOn
<1> QED  BY <1>3, <1>4, <1>5 DEF Leaves

LEMMA Handled_Deleted ==
  ASSUME SerialTypeOK, Deleted, Leaves, timerq' = timerq, armed' = armed
  PROVE  Deleted'
<1>1. CASE UNCHANGED <<todo, timer>>  BY <1>1 DEF Deleted
<1>2. CASE todo' # <<>> /\ Last(todo') = "delete"
  BY <1>2, Ends DEF Leaves, Deleted
<1>3. CASE timer'  BY <1>3 DEF Deleted
<1> QED  BY <1>1, <1>2, <1>3 DEF Leaves

-----------------------------------------------------------------------------
(* The task's steps                                                        *)

\* What taking a command does to the queue
LEMMA Taken ==
  ASSUME SerialTypeOK, NEW type, Takes(type)
  PROVE  /\ cmd_queue' \in Seq(Command) /\ Len(cmd_queue') <= CmdQueueLength
         /\ Cmd \in Command /\ Cmd.type = type
<1>1. cmd_queue \in Seq(Command) /\ cmd_queue # <<>> /\ Len(cmd_queue) <= CmdQueueLength
      /\ cmd_queue' = Tail(cmd_queue) /\ Head(cmd_queue).type = type
  BY DEF SerialTypeOK, Takes
<1>2. Tail(cmd_queue) \in Seq(Command) /\ Len(Tail(cmd_queue)) = Len(cmd_queue) - 1
      /\ Len(cmd_queue) \in Nat /\ Head(cmd_queue) \in Command
  BY <1>1, TailType
<1> QED  BY <1>1, <1>2, Numbers DEF Cmd

\* A command that leaves the daemon, the line and the application alone
LEMMA Handled ==
  ASSUME SerialInv, NEW type, Takes(type), Leaves,
         type = "timer" => Active(rq') = {} \/ Starts,
         UNCHANGED <<daemon, calls>>,
         last_rq_id' \in Ids \cup {None}, removing' \in Ids \cup {None},
         ring' \in Seq(Frame), Len(ring') <= RingFrames, unanswered' \in [Ids -> Nat]
  PROVE  SerialInv'
<1>1. PollingGoesOn'  BY Handled_Polls DEF SerialInv, daemon
<1>2. PayloadsOwned'  BY DEF Leaves, Sound, PayloadsOwned
<1>3. SerialTypeOK'
  BY Taken DEF SerialInv, SerialTypeOK, Leaves, Sound, Reasons, daemon
<1>4. Deleted'  BY Handled_Deleted DEF SerialInv, daemon
<1> QED  BY <1>1, <1>2, <1>3, <1>4 DEF SerialInv

LEMMA Modulo == \A n \in Nat : n % 65536 \in Nat
OBVIOUS

LEMMA AddRq_Inv == ASSUME SerialInv, AddRq  PROVE SerialInv'
<1> DEFINE request ==
      [i \in Slots |->
         [id |-> Cmd.id, timeout |-> Cmd.timeout % 65536,
          since |-> Cmd.timeout - (i - 1) * 100, retries |-> 0, max |-> Cmd.retries,
          payload |-> TRUE, active |-> TRUE, periodic |-> FALSE]]
<1>1. Takes("add") /\ Insert(request)
      /\ UNCHANGED <<last_rq_id, removing, daemon, ring, unanswered, calls>>
  BY DEF AddRq
<1>2. Cmd.id \in Ids /\ Cmd.timeout \in Nat /\ Cmd.retries \in 0..255
  <2>1. Cmd \in Command /\ Cmd.type = "add"  BY <1>1, Taken DEF SerialInv
  <2>2. Cmd.id \in Ids /\ Cmd.timeout \in Timeouts /\ Cmd.retries \in Retries
    BY <2>1, CommandFields
  <2>3. Timeouts \subseteq Nat /\ Retries \subseteq 0..255  BY SerialClientAssumption
  <2> QED  BY <2>2, <2>3
<1>3. \A i \in Slots : /\ request[i] \in Request
                       /\ request[i].active /\ request[i].payload /\ request[i].id \in Ids
  <2> TAKE i \in Slots
  <2>1. Cmd.timeout % 65536 \in Nat /\ Cmd.timeout - (i - 1) * 100 \in Int /\ 0 \in 0..255
    BY <1>2, Modulo, Numbers
  <2> QED  BY <1>2, <2>1 DEF Request
<1> HIDE DEF request
<1>4. Leaves  BY <1>1, <1>3, Insert_Leaves DEF SerialInv
<1> QED  BY <1>1, <1>4, Handled DEF SerialInv, SerialTypeOK

LEMMA AddPeriodicRq_Inv == ASSUME SerialInv, AddPeriodicRq  PROVE SerialInv'
<1> DEFINE request ==
      [i \in Slots |->
         [id |-> Cmd.id, timeout |-> Cmd.period % 65536,
          since |-> Cmd.period - i * 500, retries |-> 0, max |-> 0,
          payload |-> TRUE, active |-> TRUE, periodic |-> TRUE]]
<1>1. Takes("periodic") /\ Insert(request)
      /\ UNCHANGED <<last_rq_id, removing, daemon, ring, unanswered, calls>>
  BY DEF AddPeriodicRq
<1>2. Cmd.id \in Ids /\ Cmd.period \in Nat
  <2>1. Cmd \in Command /\ Cmd.type = "periodic"  BY <1>1, Taken DEF SerialInv
  <2>2. Cmd.id \in Ids /\ Cmd.period \in Periods  BY <2>1, CommandFields
  <2>3. Periods \subseteq Nat  BY SerialClientAssumption
  <2> QED  BY <2>2, <2>3
<1>3. \A i \in Slots : /\ request[i] \in Request
                       /\ request[i].active /\ request[i].payload /\ request[i].id \in Ids
  <2> TAKE i \in Slots
  <2>1. Cmd.period % 65536 \in Nat /\ Cmd.period - i * 500 \in Int /\ 0 \in 0..255
    BY <1>2, Modulo, Numbers
  <2> QED  BY <1>2, <2>1 DEF Request
<1> HIDE DEF request
<1>4. Leaves  BY <1>1, <1>3, Insert_Leaves DEF SerialInv
<1> QED  BY <1>1, <1>4, Handled DEF SerialInv, SerialTypeOK

LEMMA RemovePeriodicRq_Inv == ASSUME SerialInv, RemovePeriodicRq  PROVE SerialInv'
<1>1. Takes("remove") /\ UNCHANGED <<last_rq_id, removing, daemon, ring, unanswered, calls>>
  BY DEF RemovePeriodicRq
<1>2. Sound(rq)  BY InvSound DEF SerialInv
<1>3. Leaves
  <2>1. CASE Periodic(Cmd.id) = {}
    BY <1>2, <2>1, NoTimer_Leaves DEF RemovePeriodicRq, Leaves, SerialInv
  <2>2. CASE Periodic(Cmd.id) # {}
    <3>1. Min(Periodic(Cmd.id)) \in Slots
      <4>1. Periodic(Cmd.id) \in SUBSET Slots  BY DEF Periodic
      <4> QED  BY <2>2, <4>1, MinSlot
    <3>2. rq' = Deactivate(rq, Min(Periodic(Cmd.id))) /\ aborted' = aborted
      BY <2>2 DEF RemovePeriodicRq
    <3>3. Sound(rq') /\ Active(rq') \subseteq Active(rq)
      BY <1>2, <3>1, <3>2, Deactivate_Sound
    <3>4. \/ Active(rq') = {} /\ timer' = FALSE /\ todo' = <<"stop", "delete">>
          \/ timer' = timer /\ todo' = todo
      BY <2>2, <3>2 DEF RemovePeriodicRq
    <3>5. /\ <<"stop", "delete">> \in Seq(TimerCommands) /\ <<"stop", "delete">> # <<>>
          /\ Last(<<"stop", "delete">>) = "delete"
      BY DEF TimerCommands, Last
    <3>6. aborted' \in Reasons \ {"payload_not_null"}
      BY <3>2 DEF SerialInv, SerialTypeOK, PayloadsOwned, Reasons
    <3>7. timer' \in BOOLEAN /\ todo' \in Seq(TimerCommands)
      BY <3>4, <3>5 DEF SerialInv, SerialTypeOK
    <3> QED  BY <3>2, <3>3, <3>4, <3>5, <3>6, <3>7 DEF Leaves
  <2> QED  BY <2>1, <2>2
<1> QED  BY <1>1, <1>3, Handled DEF SerialInv, SerialTypeOK

LEMMA NothingDue_Inv == ASSUME SerialInv, NothingDue  PROVE SerialInv'
<1>1. Takes("timer") /\ UNCHANGED <<last_rq_id, removing, daemon, ring, unanswered, calls>>
  BY DEF NothingDue
<1>2. Sound(rq)  BY InvSound DEF SerialInv
<1>3. PICK d : ScheduleNext(rq, d) /\ (Active(rq) # {} => d \in Int)
  BY <1>2, EarliestType DEF NothingDue
<1>4. Leaves /\ (Active(rq') = {} \/ Starts)
  BY <1>2, <1>3, ScheduleNext_Leaves DEF SerialInv
<1> QED  BY <1>1, <1>4, Handled DEF SerialInv, SerialTypeOK

LEMMA SendFails_Inv == ASSUME SerialInv, SendFails  PROVE SerialInv'
<1>1. Takes("timer") /\ ScheduleNext(rq, 500)
      /\ UNCHANGED <<removing, daemon, ring, unanswered, calls>>
  BY DEF SendFails
<1>2. Sound(rq)  BY InvSound DEF SerialInv
<1>3. last_rq_id' \in Ids \cup {None}
  BY <1>2 DEF SendFails, DueFirst, Active, Sound
<1>4. Leaves /\ (Active(rq') = {} \/ Starts)
  BY <1>1, <1>2, ScheduleNext_Leaves DEF SerialInv
<1> QED  BY <1>1, <1>3, <1>4, Handled DEF SerialInv, SerialTypeOK

LEMMA SendRq_Inv == ASSUME SerialInv, SendRq  PROVE SerialInv'
<1>1. Takes("timer") /\ UNCHANGED <<removing, daemon, ring, calls>>  BY DEF SendRq
<1>2. Sound(rq)  BY InvSound DEF SerialInv
<1>3. PICK i \in Slots :
        /\ DueFirst(i)
        /\ last_rq_id' = rq[i].id
        /\ unanswered' = [unanswered EXCEPT ![rq[i].id] =
                            IF @ < MaxUnanswered THEN @ + 1 ELSE @]
        /\ ScheduleNext(SentTable(i), IF Active(SentTable(i)) = {} THEN 0
                                      ELSE NextDelay(SentTable(i)))
  BY DEF SendRq
<1>4. rq[i].id \in Ids  BY <1>2, <1>3 DEF DueFirst, Active, Sound
<1>5. unanswered' \in [Ids -> Nat]
  BY <1>3, <1>4 DEF SerialInv, SerialTypeOK
<1>6. Sound(SentTable(i))  BY <1>2, SentTable_Sound
<1>7. Active(SentTable(i)) # {} => NextDelay(SentTable(i)) \in Int
  BY <1>6, EarliestType DEF NextDelay
<1>8. Leaves /\ (Active(rq') = {} \/ Starts)
  BY <1>3, <1>6, <1>7, ScheduleNext_Leaves DEF SerialInv
<1> QED  BY <1>1, <1>3, <1>4, <1>5, <1>8, Handled DEF SerialInv, SerialTypeOK

-----------------------------------------------------------------------------
(* Responses                                                               *)

LEMMA Response_Ring ==
  ASSUME SerialInv, Takes("data"),
         ring' \in {Stored(Cmd.frame), Rest(Stored(Cmd.frame))}
  PROVE  ring' \in Seq(Frame) /\ Len(ring') <= RingFrames
<1>1. Cmd.frame \in Frame  BY Taken, CommandFields DEF SerialInv
<1>2. Stored(Cmd.frame) \in Seq(Frame) /\ Len(Stored(Cmd.frame)) <= RingFrames
  BY <1>1, Stored_Type DEF SerialInv, SerialTypeOK
<1> QED  BY <1>2, Rest_Type

LEMMA Response_Inv ==
  ASSUME SerialInv, Unexpected \/ Discarded \/ Refused \/ Answered
  PROVE  SerialInv'
<1>1. Takes("data") /\ UNCHANGED <<timer, todo, daemon, unanswered, calls, aborted>>
  BY DEF Unexpected, Discarded, Refused, Answered, Parses, table
<1>2. ring' \in Seq(Frame) /\ Len(ring') <= RingFrames
  BY <1>1, Response_Ring DEF Unexpected, Discarded, Refused, Answered, Parses
<1>3. last_rq_id' \in Ids \cup {None} /\ removing' \in Ids \cup {None}
  BY DEF Unexpected, Discarded, Refused, Answered, table, SerialInv, SerialTypeOK
<1>4. Sound(rq) /\ rq' \in {rq, AckTable(rq, last_rq_id)}
  BY InvSound DEF Unexpected, Discarded, Refused, Answered, table, SerialInv
<1>5. Sound(rq') /\ Active(rq') \subseteq Active(rq)
  BY <1>4, AckTable_Sound
<1>6. Leaves
  BY <1>1, <1>5 DEF Leaves, SerialInv, SerialTypeOK, PayloadsOwned, Reasons
<1> QED  BY <1>1, <1>2, <1>3, <1>6, Handled DEF SerialInv, SerialTypeOK

-----------------------------------------------------------------------------
(* The callers of the queue and the daemon                                 *)

\* A command joins the queue: the table, the timer and its commands stay.
LEMMA Enqueued ==
  ASSUME SerialInv, NEW c \in Command, Enqueue(c)
  PROVE  /\ cmd_queue' \in Seq(Command) /\ Len(cmd_queue') <= CmdQueueLength
         /\ \A k \in DOMAIN cmd_queue : k \in DOMAIN cmd_queue' /\ cmd_queue'[k] = cmd_queue[k]
         /\ \E k \in DOMAIN cmd_queue' : cmd_queue'[k] = c
<1>1. /\ cmd_queue \in Seq(Command) /\ Len(cmd_queue) \in Nat
      /\ Len(cmd_queue) < CmdQueueLength /\ cmd_queue' = Append(cmd_queue, c)
  BY LenProperties DEF SerialInv, SerialTypeOK, Enqueue, Room
<1>2. /\ cmd_queue' \in Seq(Command) /\ Len(cmd_queue') = Len(cmd_queue) + 1
      /\ \A k \in 1..Len(cmd_queue) : cmd_queue'[k] = cmd_queue[k]
      /\ cmd_queue'[Len(cmd_queue) + 1] = c
  BY <1>1, AppendProperties
<1> QED  BY <1>1, <1>2, Numbers

LEMMA Caller_Inv ==
  ASSUME SerialInv, NEW c \in Command, Enqueue(c), UNCHANGED <<table, todo, daemon, aborted>>,
         removing' \in Ids \cup {None}, ring' = ring, unanswered' \in [Ids -> Nat],
         calls' \in Nat
  PROVE  SerialInv'
<1>1. PollingGoesOn'
  <2>1. WillRun' = WillRun  BY DEF WillRun, TimerRelinked, daemon
  <2>2. Active(rq') = Active(rq)  BY DEF table
  <2>3. TimerRelinked' = TimerRelinked /\ DeletionQueued' = DeletionQueued
    BY DEF TimerRelinked, DeletionQueued, daemon
  <2> QED  BY <2>1, <2>2, <2>3, Enqueued DEF SerialInv, PollingGoesOn, daemon
<1>2. PayloadsOwned'  BY DEF SerialInv, PayloadsOwned, table
<1>3. SerialTypeOK'  BY Enqueued DEF SerialInv, SerialTypeOK, table, daemon
<1>4. Deleted'  BY DEF SerialInv, Deleted, table, daemon
<1> QED  BY <1>1, <1>2, <1>3, <1>4 DEF SerialInv

LEMMA AppCalls_Inv ==
  ASSUME SerialInv, NEW c \in AppCommand, AppCalls(c)  PROVE SerialInv'
<1>1. Enqueue(c) /\ UNCHANGED <<table, todo, removing, daemon, ring, unanswered, aborted>>
      /\ calls' = calls + 1
  BY DEF AppCalls
<1> QED  BY <1>1, Caller_Inv, CommandsMade DEF SerialInv, SerialTypeOK

LEMMA FrameArrives_Inv ==
  ASSUME SerialInv, NEW id \in Ids, NEW f \in Frame, FrameArrives(id, f)
  PROVE  SerialInv'
<1>1. /\ Enqueue([type |-> "data", frame |-> f])
      /\ UNCHANGED <<table, todo, removing, daemon, ring, calls, aborted>>
      /\ unanswered[id] > 0 /\ unanswered' = [unanswered EXCEPT ![id] = @ - 1]
  BY DEF FrameArrives
<1>2. unanswered' \in [Ids -> Nat]  BY <1>1 DEF SerialInv, SerialTypeOK
<1> QED  BY <1>1, <1>2, Caller_Inv, CommandsMade DEF SerialInv, SerialTypeOK

LEMMA HandlerRemoves_Inv == ASSUME SerialInv, HandlerRemoves  PROVE SerialInv'
<1>1. /\ removing \in Ids /\ removing' = None
      /\ Enqueue([type |-> "remove", id |-> removing])
      /\ UNCHANGED <<table, todo, daemon, ring, unanswered, calls, aborted>>
  BY DEF HandlerRemoves, SerialInv, SerialTypeOK
<1> QED  BY <1>1, Caller_Inv, CommandsMade DEF SerialInv, SerialTypeOK

\* A step that leaves the requests and the queue alone
LEMMA Timer_Inv ==
  ASSUME SerialInv, UNCHANGED <<table, removing, ring, unanswered, calls, aborted>>,
         cmd_queue' \in Seq(Command), Len(cmd_queue') <= CmdQueueLength,
         todo' \in Seq(TimerCommands),
         timerq' \in Seq(TimerCommands), Len(timerq') <= TimerQueueLength,
         armed' \in BOOLEAN, dpc' \in {"idle", "sending"}, PollingGoesOn', Deleted'
  PROVE  SerialInv'
<1>1. PayloadsOwned'  BY DEF SerialInv, PayloadsOwned, table
<1>2. SerialTypeOK'  BY DEF SerialInv, SerialTypeOK, table
<1> QED  BY <1>1, <1>2 DEF SerialInv

LEMMA TimerExpires_Inv == ASSUME SerialInv, TimerExpires  PROVE SerialInv'
<1>1. PollingGoesOn'  BY DEF TimerExpires, PollingGoesOn, Running, TimerRelinked
<1>2. Deleted'  BY DEF TimerExpires, SerialInv, Deleted, table
<1> QED  BY <1>1, <1>2, Timer_Inv DEF TimerExpires, SerialInv, SerialTypeOK

LEMMA TimerSends_Inv == ASSUME SerialInv, TimerSends  PROVE SerialInv'
<1>1. Enqueue([type |-> "timer"]) /\ [type |-> "timer"] \in Command
  BY CommandsMade DEF TimerSends
<1>2. PollingGoesOn'
  BY <1>1, Enqueued DEF PollingGoesOn, TimerSends, Running, TimerRelinked
<1>3. Deleted'  BY DEF TimerSends, SerialInv, Deleted, table
<1> QED  BY <1>1, <1>2, <1>3, Enqueued, Timer_Inv DEF TimerSends, SerialInv, SerialTypeOK

\* The task hands over the first of its commands: the last of all is the same.
LEMMA SendTimerCommand_Inv == ASSUME SerialInv, SendTimerCommand  PROVE SerialInv'
<1> DEFINE c == Head(todo)
<1>1. /\ timerq \in Seq(TimerCommands) /\ Len(timerq) \in Nat /\ todo \in Seq(TimerCommands)
      /\ todo # <<>> /\ c \in TimerCommands /\ Tail(todo) \in Seq(TimerCommands)
      /\ Len(timerq) < TimerQueueLength
  BY TailType, LenProperties DEF SerialInv, SerialTypeOK, SendTimerCommand
<1>2. timerq' = Append(timerq, c) /\ todo' = Tail(todo)  BY DEF SendTimerCommand
<1>3. timerq' \o todo' = timerq \o todo
  <2>1. todo = <<c>> \o Tail(todo)  BY <1>1
  <2>2. Append(timerq, c) = timerq \o <<c>>  BY <1>1, AppendIsConcat
  <2>3. <<c>> \in Seq(TimerCommands)  BY <1>1
  <2> HIDE DEF c
  <2>4. (timerq \o <<c>>) \o Tail(todo) = timerq \o (<<c>> \o Tail(todo))
    BY <1>1, <2>3, ConcatAssociative
  <2> QED  BY <1>2, <2>1, <2>2, <2>4
<1> HIDE DEF c
<1>4. timerq' \in Seq(TimerCommands) /\ Len(timerq') <= TimerQueueLength
  BY <1>1, <1>2, Numbers, AppendProperties
<1>5. PollingGoesOn'
  <2>1. ~TimerRelinked /\ ~TimerRelinked'
    BY DEF SendTimerCommand, Running, TimerRelinked
  <2>2. WillRun' = WillRun  BY <1>3, <2>1 DEF WillRun, SendTimerCommand
  <2>3. Active(rq') = Active(rq)  BY DEF SendTimerCommand, table
  <2> QED
    BY <2>1, <2>2, <2>3 DEF SendTimerCommand, SerialInv, PollingGoesOn
<1>6. Deleted'  BY <1>3 DEF SendTimerCommand, SerialInv, Deleted, table
<1> QED  BY <1>1, <1>2, <1>4, <1>5, <1>6, Timer_Inv DEF SendTimerCommand, SerialInv, SerialTypeOK

\* The daemon's first command takes effect, and counts if it was the last.
LEMMA TimerCommand_Inv == ASSUME SerialInv, TimerCommand  PROVE SerialInv'
<1>1. /\ timerq \in Seq(TimerCommands) /\ timerq # <<>> /\ timerq' = Tail(timerq)
      /\ Tail(timerq) \in Seq(TimerCommands) /\ Len(Tail(timerq)) = Len(timerq) - 1
      /\ Len(timerq) \in Nat \ {0} /\ Len(timerq) <= TimerQueueLength
      /\ todo \in Seq(TimerCommands) /\ Len(todo) \in Nat
  BY TailType, LenProperties DEF SerialInv, SerialTypeOK, TimerCommand
<1>2. UNCHANGED <<table, cmd_queue, todo, removing, ring, unanswered, calls, aborted>>
      /\ dpc = "idle"
  BY DEF TimerCommand
<1>3. armed' \in BOOLEAN /\ dpc' \in {"idle", "sending"}
  BY DEF TimerCommand
<1>4. /\ WillRun => WillRun' \/ dpc' = "sending"
      /\ Deleted'
  <2> DEFINE q == timerq \o todo
             p == Tail(timerq) \o todo
  <2>1. /\ Len(q) = Len(timerq) + Len(todo) /\ q \in Seq(TimerCommands)
        /\ Len(p) = Len(timerq) - 1 + Len(todo) /\ p \in Seq(TimerCommands)
        /\ \A i \in 1..Len(p) : p[i] = q[i + 1]
        /\ q[1] = Head(timerq)
    BY <1>1, ConcatProperties, HeadTailProperties
  <2>2. q # <<>>  BY <1>1, <2>1, EmptySeq
  <2>3. ~TimerRelinked /\ ~TimerRelinked'
    BY DEF TimerCommand, Running, TimerRelinked
  <2>4. WillRun <=> Last(q) \in {"period", "start"}  BY <2>2, <2>3 DEF WillRun
  <2>5. WillRun' <=> IF p = <<>> THEN armed' ELSE Last(p) \in {"period", "start"}
    BY <1>1, <1>2, <2>3 DEF WillRun
  <2>6. ~timer => Last(q) = "delete"  BY <2>2 DEF SerialInv, Deleted
  <2>7. Deleted' <=> (~timer => IF p = <<>> THEN ~armed' ELSE Last(p) = "delete")
    BY <1>1, <1>2 DEF Deleted, table
  <2> HIDE DEF q, p
  <2>8. CASE p = <<>>
    <3>1. Last(q) = Head(timerq)  BY <1>1, <2>1, <2>8, EmptySeq DEF Last
    <3>2. Head(timerq) = "delete" => armed' = FALSE  BY DEF TimerCommand
    <3>3. Head(timerq) \in {"period", "start"} => armed' \/ dpc' = "sending"
      BY DEF TimerCommand
    <3> QED  BY <2>4, <2>5, <2>6, <2>7, <2>8, <3>1, <3>2, <3>3
  <2>9. CASE p # <<>>
    <3>1. Last(p) = Last(q)  BY <1>1, <2>1, <2>9, EmptySeq DEF Last
    <3> QED  BY <2>4, <2>5, <2>6, <2>7, <2>9, <3>1
  <2> QED  BY <2>8, <2>9
<1>5. PollingGoesOn'
  <2>1. ~TimerRelinked /\ ~TimerRelinked'
    BY DEF TimerCommand, Running, TimerRelinked
  <2> QED  BY <1>2, <1>4, <2>1 DEF SerialInv, PollingGoesOn, table, Active
<1>6. Len(timerq') <= TimerQueueLength  BY <1>1, Numbers
<1> QED  BY <1>1, <1>2, <1>3, <1>4, <1>5, <1>6, Timer_Inv DEF SerialInv, SerialTypeOK

-----------------------------------------------------------------------------
(* The theorems                                                            *)

LEMMA Init_Inv == Init => SerialInv
<1> SUFFICES ASSUME Init  PROVE SerialInv  OBVIOUS
<1>1. \A i \in Slots : rq[i] \in Request /\ ~rq[i].active /\ ~rq[i].payload
  BY DEF Init, Request
<1>2. rq \in [Slots -> Request]  BY <1>1 DEF Init
<1>3. /\ <<>> \in Seq(Command) /\ <<>> \in Seq(TimerCommands) /\ <<>> \in Seq(Frame)
      /\ Len(<<>>) = 0
  OBVIOUS
<1>4. SerialTypeOK
  <2>1. /\ cmd_queue \in Seq(Command) /\ Len(cmd_queue) <= CmdQueueLength
        /\ timerq \in Seq(TimerCommands) /\ Len(timerq) <= TimerQueueLength
        /\ ring \in Seq(Frame) /\ Len(ring) <= RingFrames
        /\ todo \in Seq(TimerCommands)
    BY <1>3, Numbers DEF Init
  <2>2. unanswered \in [Ids -> Nat] /\ timer \in BOOLEAN /\ armed \in BOOLEAN
    BY DEF Init
  <2> QED  BY <1>1, <1>2, <2>1, <2>2 DEF Init, SerialTypeOK, Reasons
<1>5. PayloadsOwned /\ PollingGoesOn
  BY <1>1 DEF Init, PayloadsOwned, PollingGoesOn, TimerRelinked, Active
<1>6. Deleted  BY DEF Init, Deleted
<1> QED  BY <1>4, <1>5, <1>6 DEF SerialInv

LEMMA Next_Inv == ASSUME SerialInv, [Next]_vars  PROVE SerialInv'
<1>1. CASE UNCHANGED vars
  <2>1. SerialTypeOK'  BY <1>1 DEF vars, SerialInv, SerialTypeOK
  <2>2. PayloadsOwned' /\ PollingGoesOn'
    BY <1>1 DEF vars, SerialInv, PayloadsOwned, PollingGoesOn, WillRun, TimerRelinked,
                DeletionQueued, Active
  <2>3. Deleted'  BY <1>1 DEF vars, SerialInv, Deleted
  <2> QED  BY <2>1, <2>2, <2>3 DEF SerialInv
<1>2. CASE \E c \in AppCommand : AppCalls(c)  BY <1>2, AppCalls_Inv
<1>3. CASE \E id \in Ids, f \in Frame : FrameArrives(id, f)  BY <1>3, FrameArrives_Inv
<1>4. CASE Daemon
  BY <1>4, TimerExpires_Inv, TimerSends_Inv, TimerCommand_Inv DEF Daemon
<1>5. CASE Handle
  BY <1>5, AddRq_Inv, AddPeriodicRq_Inv, RemovePeriodicRq_Inv, NothingDue_Inv,
     SendFails_Inv, SendRq_Inv, Response_Inv, HandlerRemoves_Inv, SendTimerCommand_Inv
  DEF Handle
<1> QED  BY <1>1, <1>2, <1>3, <1>4, <1>5 DEF Next

(***************************************************************************)
(* The inductive invariant of em_serial_client.                            *)
(***************************************************************************)
THEOREM SerialInvariance == Spec => []SerialInv
<1> QED  BY Init_Inv, Next_Inv, PTL DEF Spec

(***************************************************************************)
(* The types of the client's state, and with them the bounds of its table, *)
(* its queues and its ring buffer (serial_client_priv_impl.h:52,           *)
(* task.c:28-40).                                                          *)
(***************************************************************************)
THEOREM SerialTypeCorrect == Spec => []SerialTypeOK
<1>1. SerialInv => SerialTypeOK  BY DEF SerialInv
<1> QED  BY <1>1, SerialInvariance, PTL

(***************************************************************************)
(* Every payload belongs to one active request (tx.c:44, 101, task.c:83),  *)
(* whatever is added, answered, given up or removed, in any order.         *)
(***************************************************************************)
THEOREM PayloadsAreOwned == Spec => []PayloadsOwned
<1>1. SerialInv => PayloadsOwned  BY DEF SerialInv
<1> QED  BY <1>1, SerialInvariance, PTL

(***************************************************************************)
(* Polling never dies quietly (task.c:83-194, tx.c:125-208), for every     *)
(* interleaving of the task with the timer daemon, with one exception: the *)
(* timer is created again (tx.c:179-183) while its predecessor in the same *)
(* memory runs.  That happens only between the sending of the deletion     *)
(* (tx.c:205) and its being carried out.                                   *)
(***************************************************************************)
THEOREM PollingNeverDies == Spec => []PollingGoesOn
<1>1. SerialInv => PollingGoesOn  BY DEF SerialInv
<1> QED  BY <1>1, SerialInvariance, PTL
=============================================================================

-------------------------- MODULE TcpClientProofs --------------------------
(***************************************************************************)
(* The TCP client's safety properties, for any number of senders and any   *)
(* lengths of the queues.                                                  *)
(*                                                                         *)
(* SendsHaveBuffers and ReconnectPending are inductive once the variables  *)
(* have their types: every step keeps them by itself.  DeadLinkNoticed is  *)
(* not, because the link may break at any time: RxWillLook says the same   *)
(* of every connection, broken or not, from the moment it is opened, and   *)
(* StateOfTask says what the TX task takes the connection for meanwhile.   *)
(***************************************************************************)
EXTENDS TcpClient, SequenceTheorems, FunctionTheorems, FiniteSetTheorems, TLAPS

Commands == {"connect", "disconnect", "send", "long_delay"}
Requests == {"connect", "disconnect"}
Reasons == {"no", "cmd_q_full", "rx_q_full", "double_free", "use_after_free"}

TcpTypeOK ==
  /\ conn_state \in {"disconnected", "connecting", "connected"}
  /\ link \in {"closed", "open", "broken"}
  /\ cmd_q \in Seq(Commands) /\ Len(cmd_q) <= CmdQueueLength
  /\ send_q \in Seq(Senders \cup {"freed"}) /\ Len(send_q) <= SendQueueLength
  /\ rx_q \in 0..RxQueueLength
  /\ submit \in [Submitters -> Requests \cup {"none"}]
  /\ tx \in {"idle", "connecting", "opened", "closing"}
  /\ rx \in {"forever", "sleeps", "polls"}
  /\ sender \in [Senders -> {"idle", "pushed", "popped"}]
  /\ {long_delay, timer, wifi, got_ip, registered} \subseteq BOOLEAN
  /\ events \in Seq({"online", "offline"}) /\ Len(events) <= MaxEvents
  /\ aborted \in Reasons

\* Senders are counted, so there must be finitely many of them at work.
SendsInv == IsFiniteSet(Sending) /\ SendsHaveBuffers

\* What the TX task takes the connection for between its steps.
StateOfTask ==
  /\ tx \in {"connecting", "opened"} => conn_state = "connecting"
  /\ tx = "closing" => conn_state = "disconnected"

\* A command is queued, or about to be, that connects or disconnects.
Asked ==
  \/ \E k \in DOMAIN cmd_q : cmd_q[k] \in Requests
  \/ \E s \in Submitters : submit[s] # "none"

\* Every connection has the RX task's attention, or is about to be ended.
RxWillLook ==
  (tx = "opened" \/ conn_state = "connected") /\ Running
    => rx # "forever" \/ rx_q > 0 \/ Asked

LinkInv == StateOfTask /\ RxWillLook

TcpInv == TcpTypeOK /\ SendsInv /\ ReconnectPending /\ LinkInv

-----------------------------------------------------------------------------
(* Counting the places of a value in a queue                               *)

Places(q, x) == {k \in DOMAIN q : q[k] = x}

LEMMA PlacesFinite ==
  ASSUME NEW S, NEW q \in Seq(S), NEW x
  PROVE  IsFiniteSet(Places(q, x)) /\ Cardinality(Places(q, x)) \in Nat
<1>1. IsFiniteSet(1..Len(q))  BY FS_Interval
<1>2. Places(q, x) \in SUBSET (1..Len(q))  BY DEF Places
<1> QED  BY <1>1, <1>2, FS_Subset, FS_CardinalityType

LEMMA PlacesEmpty == ASSUME NEW x  PROVE  Cardinality(Places(<<>>, x)) = 0
<1>1. Places(<<>>, x) = {}  BY DEF Places
<1> QED  BY <1>1, FS_EmptySet

LEMMA PlacesAppend ==
  ASSUME NEW S, NEW q \in Seq(S), NEW y \in S, NEW x
  PROVE  Cardinality(Places(Append(q, y), x)) =
           Cardinality(Places(q, x)) + (IF y = x THEN 1 ELSE 0)
<1>1. /\ DOMAIN Append(q, y) = 1..(Len(q) + 1)  /\ DOMAIN q = 1..Len(q)
      /\ \A i \in 1..Len(q) : Append(q, y)[i] = q[i]
      /\ Append(q, y)[Len(q) + 1] = y
  BY AppendProperties
<1>2. IsFiniteSet(Places(q, x)) /\ Cardinality(Places(q, x)) \in Nat  BY PlacesFinite
<1>3. CASE y = x
  <2>1. Places(Append(q, y), x) = Places(q, x) \cup {Len(q) + 1}
    BY <1>1, <1>3 DEF Places
  <2>2. Len(q) + 1 \notin Places(q, x)  BY <1>1 DEF Places
  <2> QED  BY <1>2, <1>3, <2>1, <2>2, FS_AddElement
<1>4. CASE y # x
  <2>1. Places(Append(q, y), x) = Places(q, x)  BY <1>1, <1>4 DEF Places
  <2> QED  BY <1>2, <1>4, <2>1
<1> QED  BY <1>3, <1>4

LEMMA PlacesTail ==
  ASSUME NEW S, NEW q \in Seq(S), q # <<>>, NEW x
  PROVE  Cardinality(Places(q, x)) =
           Cardinality(Places(Tail(q), x)) + (IF Head(q) = x THEN 1 ELSE 0)
<1> DEFINE P == Places(Tail(q), x)
           R == Places(q, x) \ {1}
           f == [k \in P |-> k + 1]
<1>1. /\ Tail(q) \in Seq(S) /\ Len(Tail(q)) = Len(q) - 1 /\ Len(q) \in Nat \ {0}
      /\ \A i \in 1..Len(Tail(q)) : Tail(q)[i] = q[i + 1]
      /\ DOMAIN Tail(q) = 1..(Len(q) - 1) /\ DOMAIN q = 1..Len(q)
      /\ Head(q) = q[1]
  BY HeadTailProperties, EmptySeq, LenProperties
<1>2. IsFiniteSet(P) /\ Cardinality(P) \in Nat  BY <1>1, PlacesFinite
<1>3. IsFiniteSet(Places(q, x)) /\ Cardinality(Places(q, x)) \in Nat  BY PlacesFinite
<1>4. f \in Bijection(P, R)
  <2>1. P \subseteq Nat /\ f \in [P -> R]
    BY <1>1 DEF Places
  <2>2. \A a, b \in P : f[a] = f[b] => a = b  BY <2>1
  <2>3. \A r \in R : \E p \in P : f[p] = r
    <3> TAKE r \in R
    <3>1. r \in 2..Len(q) /\ q[r] = x  BY <1>1 DEF Places
    <3>2. r - 1 \in P  BY <1>1, <3>1 DEF Places
    <3> QED  BY <3>1, <3>2
  <2> QED  BY <2>1, <2>2, <2>3, Fun_IsBij
<1>5. Cardinality(R) = Cardinality(P)
  BY <1>2, <1>4, FS_Bijection DEF ExistsBijection
<1>6. 1 \in Places(q, x) <=> Head(q) = x  BY <1>1 DEF Places
<1> HIDE DEF P, R
<1>7. Cardinality(R) = IF Head(q) = x THEN Cardinality(Places(q, x)) - 1
                       ELSE Cardinality(Places(q, x))
  BY <1>3, <1>6, FS_RemoveElement DEF R
<1> QED  BY <1>2, <1>3, <1>5, <1>7 DEF P

LEMMA QueuedPlaces == ASSUME NEW c  PROVE Queued(c) = Places(cmd_q, c)
BY DEF Queued, Places

-----------------------------------------------------------------------------
(* Types                                                                   *)

LEMMA Lengths ==
  CmdQueueLength \in Nat \ {0} /\ SendQueueLength \in Nat \ {0}
    /\ RxQueueLength \in Nat \ {0} /\ MaxEvents \in Nat \ {0}
BY TcpClientAssumption

\* What the type invariant needs to know of a queue whose head is taken
LEMMA TailType ==
  ASSUME NEW S, NEW q \in Seq(S), q # <<>>
  PROVE  Tail(q) \in Seq(S) /\ Len(Tail(q)) = Len(q) - 1 /\ Len(q) \in Nat \ {0}
         /\ Head(q) \in S
BY HeadTailProperties, EmptySeq, LenProperties

LEMMA EmptyType == ASSUME NEW S  PROVE <<>> \in Seq(S) /\ Len(<<>>) = 0
OBVIOUS

LEMMA Init_Types == Init => TcpTypeOK
<1> SUFFICES ASSUME Init  PROVE TcpTypeOK  OBVIOUS
<1>1. /\ cmd_q \in Seq(Commands) /\ Len(cmd_q) <= CmdQueueLength
      /\ send_q \in Seq(Senders \cup {"freed"}) /\ Len(send_q) <= SendQueueLength
      /\ rx_q \in 0..RxQueueLength
      /\ events \in Seq({"online", "offline"}) /\ Len(events) <= MaxEvents
  BY EmptyType, Lengths DEF Init
<1> QED  BY <1>1 DEF Init, TcpTypeOK, Requests, Reasons

LEMMA ResetTypes ==
  ASSUME submit \in [Submitters -> Requests \cup {"none"}],
         NEW s \in Submitters, NEW c \in Requests, ResetFor(s, c)
  PROVE  /\ cmd_q' \in Seq(Commands) /\ Len(cmd_q') <= CmdQueueLength
         /\ submit' \in [Submitters -> Requests \cup {"none"}]
<1>1. cmd_q' = <<>>  BY DEF ResetFor
<1>2. submit' \in [Submitters -> Requests \cup {"none"}]  BY DEF ResetFor
<1> QED  BY <1>1, <1>2, EmptyType, Lengths

LEMMA Submit_Types ==
  ASSUME TcpTypeOK, NEW s \in Submitters, Submit(s)  PROVE TcpTypeOK'
<1>1. submit' \in [Submitters -> Requests \cup {"none"}] /\ aborted' \in Reasons
  BY DEF TcpTypeOK, Submit, Reasons
<1>2. cmd_q' \in Seq(Commands) /\ Len(cmd_q') <= CmdQueueLength
  <2>1. cmd_q \in Seq(Commands) /\ Len(cmd_q) <= CmdQueueLength
    BY DEF TcpTypeOK
  <2>2. submit[s] \in Commands  BY DEF TcpTypeOK, Submit, Commands, Requests
  <2>3. Append(cmd_q, submit[s]) \in Seq(Commands)
        /\ Len(Append(cmd_q, submit[s])) = Len(cmd_q) + 1
    BY <2>1, <2>2, AppendProperties
  <2>4. \/ Len(cmd_q) < CmdQueueLength /\ cmd_q' = Append(cmd_q, submit[s])
        \/ cmd_q' = cmd_q
    BY DEF Submit
  <2> QED  BY <2>1, <2>3, <2>4, Lengths
<1> QED  BY <1>1, <1>2 DEF TcpTypeOK, Submit, outside

LEMMA Senders_Types ==
  ASSUME TcpTypeOK, NEW s \in Senders, Push(s) \/ PushCommand(s) \/ PushTimesOut(s)
  PROVE  TcpTypeOK'
<1> USE Lengths DEF TcpTypeOK, outside
<1>1. CASE Push(s)  BY <1>1 DEF Push
<1>2. CASE PushCommand(s)  BY <1>2 DEF PushCommand, Commands
<1>3. CASE PushTimesOut(s)
  <2>1. ASSUME NEW k \in DOMAIN send_q
        PROVE  /\ [send_q EXCEPT ![k] = "freed"] \in Seq(Senders \cup {"freed"})
               /\ Len([send_q EXCEPT ![k] = "freed"]) = Len(send_q)
    OBVIOUS
  <2>2. send_q' \in Seq(Senders \cup {"freed"}) /\ Len(send_q') = Len(send_q)
    BY <1>3, <2>1 DEF PushTimesOut
  <2> QED  BY <1>3, <2>2 DEF PushTimesOut, Reasons
<1> QED  BY <1>1, <1>2, <1>3

LEMMA TxTask_Types ==
  ASSUME TcpTypeOK,
         \/ TakeConnect \/ ConnectFails \/ ConnectSucceeds \/ Opened
         \/ TakeDisconnect \/ Close \/ TakeSend \/ TakeLongDelay
  PROVE  TcpTypeOK'
<1> USE Lengths DEF TcpTypeOK, outside
<1>1. /\ cmd_q # <<>> => Tail(cmd_q) \in Seq(Commands) /\ Len(Tail(cmd_q)) <= CmdQueueLength
      /\ send_q # <<>> => /\ Tail(send_q) \in Seq(Senders \cup {"freed"})
                          /\ Len(Tail(send_q)) <= SendQueueLength
  <2>1. CmdQueueLength \in Nat /\ SendQueueLength \in Nat  BY Lengths
  <2>2. cmd_q # <<>> => Tail(cmd_q) \in Seq(Commands) /\ Len(Tail(cmd_q)) <= CmdQueueLength
    BY <2>1, TailType
  <2>3. send_q # <<>> => /\ Tail(send_q) \in Seq(Senders \cup {"freed"})
                         /\ Len(Tail(send_q)) <= SendQueueLength
    BY <2>1, TailType
  <2> QED  BY <2>2, <2>3
<1>2. ResetFor("tx", "disconnect") =>
        /\ cmd_q' \in Seq(Commands) /\ Len(cmd_q') <= CmdQueueLength
        /\ submit' \in [Submitters -> Requests \cup {"none"}]
  BY ResetTypes DEF Submitters, Requests
<1>3. CASE TakeConnect  BY <1>1, <1>3 DEF TakeConnect, Takes
<1>4. CASE ConnectFails  BY <1>2, <1>4 DEF ConnectFails
<1>5. CASE ConnectSucceeds  BY <1>5 DEF ConnectSucceeds, Reasons
<1>6. CASE Opened
  <2>1. events' \in Seq({"online", "offline"}) /\ Len(events') <= MaxEvents
    BY <1>6 DEF Opened
  <2> QED  BY <1>6, <2>1 DEF Opened
<1>7. CASE TakeDisconnect  BY <1>1, <1>7 DEF TakeDisconnect, Takes
<1>8. CASE Close
  <2>1. events' \in Seq({"online", "offline"}) /\ Len(events') <= MaxEvents
    BY <1>8 DEF Close
  <2>2. timer' \in BOOLEAN  BY <1>8 DEF Close
  <2> QED  BY <1>8, <2>1, <2>2 DEF Close
<1>9. CASE TakeSend
  <2>1. Popped \in [Senders -> {"idle", "pushed", "popped"}]  BY DEF Popped
  <2> QED  BY <1>1, <1>2, <1>9, <2>1 DEF TakeSend, Takes, Reasons
<1>10. CASE TakeLongDelay  BY <1>1, <1>10 DEF TakeLongDelay, Takes
<1> QED  BY <1>3, <1>4, <1>5, <1>6, <1>7, <1>8, <1>9, <1>10

LEMMA Rest_Types ==
  ASSUME TcpTypeOK,
         \/ RxWakes \/ RxPolls \/ RxError \/ SetLongDelay \/ TimerFires \/ GotIp
         \/ IpAssigned \/ WifiLost \/ LinkBreaks \/ HandleEvent
  PROVE  TcpTypeOK'
<1> USE Lengths DEF TcpTypeOK, outside
<1>1. \A s \in Submitters, c \in Requests : ResetFor(s, c) =>
        /\ cmd_q' \in Seq(Commands) /\ Len(cmd_q') <= CmdQueueLength
        /\ submit' \in [Submitters -> Requests \cup {"none"}]
  BY ResetTypes
<1>2. CASE RxWakes  BY <1>2 DEF RxWakes
<1>3. CASE RxPolls  BY <1>3 DEF RxPolls
<1>4. CASE RxError  BY <1>1, <1>4 DEF RxError, Submitters, Requests
<1>5. CASE SetLongDelay  BY <1>5 DEF SetLongDelay, Commands
<1>6. CASE TimerFires  BY <1>1, <1>6 DEF TimerFires, Submitters, Requests
<1>7. CASE GotIp \/ IpAssigned \/ WifiLost \/ LinkBreaks
  BY <1>7 DEF GotIp, IpAssigned, WifiLost, LinkBreaks
<1>8. CASE HandleEvent
  <2>1. Tail(events) \in Seq({"online", "offline"}) /\ Len(Tail(events)) <= MaxEvents
    BY <1>8, TailType DEF HandleEvent
  <2> QED  BY <1>8, <2>1 DEF HandleEvent
<1> QED  BY <1>2, <1>3, <1>4, <1>5, <1>6, <1>7, <1>8

LEMMA Next_Types == ASSUME TcpTypeOK, [Next]_vars  PROVE TcpTypeOK'
<1>1. CASE UNCHANGED vars  BY <1>1 DEF vars, TcpTypeOK
<1>2. CASE TxTask  BY <1>2, TxTask_Types, Submit_Types DEF TxTask, Submitters
<1>3. CASE RxTask  BY <1>3, Rest_Types, Submit_Types DEF RxTask, Submitters
<1>4. CASE \E s \in Senders : Push(s) \/ PushCommand(s) \/ PushTimesOut(s)
  BY <1>4, Senders_Types
<1>5. CASE Submit("timer")  BY <1>5, Submit_Types DEF Submitters
<1> QED  BY <1>1, <1>2, <1>3, <1>4, <1>5, Rest_Types DEF Next

-----------------------------------------------------------------------------
(* Every command to send has a buffer                                      *)

\* The counts of SendsHaveBuffers as numbers
LEMMA Counted ==
  ASSUME TcpTypeOK, SendsInv
  PROVE  /\ Cardinality(Queued("send")) \in Nat /\ Cardinality(Sending) \in Nat
         /\ Len(send_q) \in Nat /\ Len(cmd_q) \in Nat
         /\ Running => Cardinality(Queued("send")) + Cardinality(Sending) <= Len(send_q)
<1>1. Cardinality(Queued("send")) \in Nat
  BY PlacesFinite, QueuedPlaces DEF TcpTypeOK
<1>2. Cardinality(Sending) \in Nat  BY FS_CardinalityType DEF SendsInv
<1> QED  BY <1>1, <1>2, LenProperties DEF TcpTypeOK, SendsInv, SendsHaveBuffers

\* A step that does not touch the senders keeps the property if it takes no
\* buffer and queues no CMD_SEND.
LEMMA Untouched_Sends ==
  ASSUME TcpTypeOK, SendsInv, Running,
         sender' = sender, Len(send_q') = Len(send_q),
         Cardinality(Queued("send"))' \in Nat,
         Cardinality(Queued("send"))' <= Cardinality(Queued("send"))
  PROVE  SendsInv'
<1>1. Sending' = Sending  BY DEF Sending
<1> QED  BY <1>1, Counted DEF SendsInv, SendsHaveBuffers

LEMMA Reset_Sends ==
  ASSUME TcpTypeOK, SendsInv, Running, sender' = sender, send_q' = send_q, cmd_q' = <<>>
  PROVE  SendsInv'
<1>1. Cardinality(Queued("send"))' = 0
  <2>1. Queued("send")' = Places(<<>>, "send")  BY DEF Queued, Places
  <2> QED  BY <2>1, PlacesEmpty
<1> QED  BY <1>1, Counted, Untouched_Sends

LEMMA Tail_Sends ==
  ASSUME TcpTypeOK, SendsInv, Running, sender' = sender, send_q' = send_q,
         cmd_q # <<>>, cmd_q' = Tail(cmd_q)
  PROVE  SendsInv'
<1>1. Queued("send")' = Places(Tail(cmd_q), "send")  BY DEF Queued, Places
<1>2. cmd_q \in Seq(Commands) /\ Tail(cmd_q) \in Seq(Commands)
  BY TailType DEF TcpTypeOK
<1>3. Cardinality(Queued("send"))' \in Nat  BY <1>1, <1>2, PlacesFinite
<1>4. Cardinality(Queued("send"))' <= Cardinality(Queued("send"))
  BY <1>1, <1>2, <1>3, PlacesTail, QueuedPlaces
<1> QED  BY <1>3, <1>4, Untouched_Sends

\* A command other than CMD_SEND joins the queue.
LEMMA Append_Sends ==
  ASSUME TcpTypeOK, SendsInv, Running, sender' = sender, send_q' = send_q,
         NEW c \in Commands \ {"send"}, cmd_q' = Append(cmd_q, c)
  PROVE  SendsInv'
<1>1. Queued("send")' = Places(Append(cmd_q, c), "send")  BY DEF Queued, Places
<1>2. cmd_q \in Seq(Commands)  BY DEF TcpTypeOK
<1>3. Cardinality(Queued("send"))' = Cardinality(Queued("send"))
  BY <1>1, <1>2, Counted, PlacesAppend, QueuedPlaces
<1> QED  BY <1>3, Counted, Untouched_Sends

LEMMA Submit_Sends ==
  ASSUME TcpTypeOK, SendsInv, NEW s \in Submitters, Submit(s)  PROVE SendsInv'
<1>1. submit[s] \in Commands \ {"send"}
  BY DEF TcpTypeOK, Submit, Commands, Requests
<1>2. Running /\ sender' = sender /\ send_q' = send_q  BY DEF Submit
<1>3. CASE cmd_q' = Append(cmd_q, submit[s])  BY <1>1, <1>2, <1>3, Append_Sends
<1>4. CASE cmd_q' = cmd_q
  <2>1. Queued("send")' = Queued("send")  BY <1>4 DEF Queued
  <2> QED  BY <1>2, <2>1, Counted, Untouched_Sends
<1> QED  BY <1>3, <1>4 DEF Submit

LEMMA Push_Sends ==
  ASSUME TcpTypeOK, SendsInv, NEW s \in Senders, Push(s)  PROVE SendsInv'
<1>1. Sending' = Sending \cup {s} /\ s \notin Sending
  BY DEF Push, Sending, TcpTypeOK
<1>2. IsFiniteSet(Sending') /\ Cardinality(Sending') = Cardinality(Sending) + 1
  BY <1>1, FS_AddElement DEF SendsInv
<1>3. Len(send_q') = Len(send_q) + 1
  BY AppendProperties DEF Push, TcpTypeOK
<1>4. Queued("send")' = Queued("send") /\ Running  BY DEF Push, Queued
<1> QED  BY <1>2, <1>3, <1>4, Counted DEF SendsInv, SendsHaveBuffers

\* A sender is done, with or without having sent its command.
LEMMA SenderDone ==
  ASSUME TcpTypeOK, SendsInv, NEW s \in Senders, sender[s] # "idle",
         sender' = [sender EXCEPT ![s] = "idle"]
  PROVE  IsFiniteSet(Sending') /\ Cardinality(Sending') = Cardinality(Sending) - 1
<1>1. Sending' = Sending \ {s} /\ s \in Sending  BY DEF Sending, TcpTypeOK
<1> QED  BY <1>1, FS_RemoveElement DEF SendsInv

LEMMA PushCommand_Sends ==
  ASSUME TcpTypeOK, SendsInv, NEW s \in Senders, PushCommand(s)  PROVE SendsInv'
<1>1. Queued("send")' = Places(Append(cmd_q, "send"), "send")
  BY DEF Queued, Places, PushCommand
<1>2. cmd_q \in Seq(Commands) /\ "send" \in Commands  BY DEF TcpTypeOK, Commands
<1>3. Cardinality(Queued("send"))' = Cardinality(Queued("send")) + 1
  BY <1>1, <1>2, PlacesAppend, QueuedPlaces
<1>4. IsFiniteSet(Sending') /\ Cardinality(Sending') = Cardinality(Sending) - 1
  BY SenderDone DEF PushCommand
<1>5. send_q' = send_q /\ Running  BY DEF PushCommand
<1> QED  BY <1>3, <1>4, <1>5, Counted DEF SendsInv, SendsHaveBuffers

LEMMA PushTimesOut_Sends ==
  ASSUME TcpTypeOK, SendsInv, NEW s \in Senders, PushTimesOut(s)  PROVE SendsInv'
<1>1. IsFiniteSet(Sending') /\ Cardinality(Sending') = Cardinality(Sending) - 1
  BY SenderDone DEF PushTimesOut
<1>2. Queued("send")' = Queued("send") /\ Running  BY DEF PushTimesOut, Queued
<1>3. Len(send_q') = Len(send_q)  BY DEF PushTimesOut, TcpTypeOK
<1> QED  BY <1>1, <1>2, <1>3, Counted DEF SendsInv, SendsHaveBuffers

\* A CMD_SEND is taken and a buffer with it: the senders still count the same.
LEMMA TakeSend_Sends == ASSUME TcpTypeOK, SendsInv, TakeSend  PROVE SendsInv'
<1>1. Running /\ cmd_q # <<>> /\ Head(cmd_q) = "send"  BY DEF TakeSend, Takes
<1>2. CASE send_q = <<>>
  <2>1. sender' = sender /\ send_q' = send_q /\ cmd_q' = Tail(cmd_q)
    BY <1>2 DEF TakeSend
  <2> QED  BY <1>1, <2>1, Tail_Sends
<1>3. CASE send_q # <<>>
  <2>1. Sending' = Sending  BY <1>3 DEF TakeSend, Popped, Sending
  <2>2. Len(send_q') = Len(send_q) - 1
    BY <1>3, TailType DEF TakeSend, TcpTypeOK
  <2>3. cmd_q \in Seq(Commands) /\ Tail(cmd_q) \in Seq(Commands)
    BY <1>1, TailType DEF TcpTypeOK
  <2>4. /\ Cardinality(Places(Tail(cmd_q), "send")) \in Nat
        /\ Cardinality(Queued("send")) = Cardinality(Places(Tail(cmd_q), "send")) + 1
    BY <1>1, <2>3, PlacesFinite, PlacesTail, QueuedPlaces
  <2>5. \/ Queued("send")' = Places(Tail(cmd_q), "send")
        \/ Queued("send")' = Places(<<>>, "send")
    BY <1>3 DEF TakeSend, ResetFor, Queued, Places
  <2>6. /\ Cardinality(Queued("send"))' \in Nat
        /\ Cardinality(Queued("send"))' <= Cardinality(Queued("send")) - 1
    BY <2>4, <2>5, PlacesEmpty
  <2> QED  BY <1>1, <2>1, <2>2, <2>6, Counted DEF SendsInv, SendsHaveBuffers
<1> QED  BY <1>2, <1>3

LEMMA Init_Sends == Init => SendsInv
<1> SUFFICES ASSUME Init  PROVE SendsInv  OBVIOUS
<1>1. Sending = {}  BY DEF Init, Sending
<1>2. Queued("send") = {} /\ Len(send_q) = 0  BY DEF Init, Queued
<1> QED  BY <1>1, <1>2, FS_EmptySet DEF SendsInv, SendsHaveBuffers

LEMMA Next_Sends == ASSUME TcpTypeOK, SendsInv, [Next]_vars  PROVE SendsInv'
<1>1. CASE UNCHANGED vars
  <2>1. Sending' = Sending /\ Queued("send")' = Queued("send")
        /\ send_q' = send_q /\ Running' = Running
    BY <1>1 DEF vars, Sending, Queued, Running
  <2> QED  BY <2>1 DEF SendsInv, SendsHaveBuffers
<1>2. CASE TakeConnect \/ TakeDisconnect \/ TakeLongDelay
  BY <1>2, Tail_Sends DEF TakeConnect, TakeDisconnect, TakeLongDelay, Takes
<1>3. CASE ConnectFails \/ RxError \/ TimerFires
  BY <1>3, Reset_Sends DEF ConnectFails, RxError, TimerFires, ResetFor
<1>4. CASE \/ ConnectSucceeds \/ Opened \/ Close \/ RxWakes \/ RxPolls
           \/ GotIp \/ IpAssigned \/ WifiLost \/ LinkBreaks \/ HandleEvent
  <2>1. Running /\ sender' = sender /\ send_q' = send_q /\ cmd_q' = cmd_q
    BY <1>4 DEF ConnectSucceeds, Opened, Close, RxWakes, RxPolls, GotIp, IpAssigned,
                WifiLost, LinkBreaks, HandleEvent
  <2>2. Queued("send")' = Queued("send")  BY <2>1 DEF Queued
  <2> QED  BY <2>1, <2>2, Counted, Untouched_Sends
<1>5. CASE SetLongDelay  BY <1>5, Append_Sends DEF SetLongDelay, Commands
<1> QED
  BY <1>1, <1>2, <1>3, <1>4, <1>5, TakeSend_Sends, Submit_Sends, Push_Sends,
     PushCommand_Sends, PushTimesOut_Sends DEF Next, TxTask, RxTask, Submitters

-----------------------------------------------------------------------------
(* Requests to connect or disconnect, and what becomes of them             *)

LEMMA MovingAsked == Moving <=> Asked \/ tx # "idle"
BY DEF Moving, Asked, Queued, Requests

\* Whoever empties cmd_q is about to send a request itself.
LEMMA Reset_Asks ==
  ASSUME TcpTypeOK, NEW s \in Submitters, NEW c \in Requests, ResetFor(s, c)
  PROVE  Asked'
<1>1. submit'[s] = c /\ c # "none"  BY DEF TcpTypeOK, ResetFor, Requests
<1> QED  BY <1>1 DEF Asked

LEMMA Append_Asks ==
  ASSUME TcpTypeOK, Asked, submit' = submit, NEW c \in Commands, cmd_q' = Append(cmd_q, c)
  PROVE  Asked'
<1>1. CASE \E s \in Submitters : submit[s] # "none"  BY <1>1 DEF Asked
<1>2. CASE \E k \in DOMAIN cmd_q : cmd_q[k] \in Requests
  <2>1. PICK k \in DOMAIN cmd_q : cmd_q[k] \in Requests  BY <1>2
  <2>2. k \in DOMAIN cmd_q' /\ cmd_q'[k] = cmd_q[k]
    BY AppendProperties DEF TcpTypeOK
  <2> QED  BY <2>1, <2>2 DEF Asked
<1> QED  BY <1>1, <1>2 DEF Asked

\* Taking another command leaves the request in the queue.
LEMMA Tail_Asks ==
  ASSUME TcpTypeOK, Asked, submit' = submit, cmd_q # <<>>, Head(cmd_q) \notin Requests,
         cmd_q' = Tail(cmd_q)
  PROVE  Asked'
<1>1. CASE \E s \in Submitters : submit[s] # "none"  BY <1>1 DEF Asked
<1>2. CASE \E k \in DOMAIN cmd_q : cmd_q[k] \in Requests
  <2>1. PICK k \in DOMAIN cmd_q : cmd_q[k] \in Requests  BY <1>2
  <2>2. /\ cmd_q \in Seq(Commands) /\ Tail(cmd_q) \in Seq(Commands)
        /\ Len(cmd_q) \in Nat /\ Len(Tail(cmd_q)) = Len(cmd_q) - 1
        /\ \A i \in 1..Len(Tail(cmd_q)) : Tail(cmd_q)[i] = cmd_q[i + 1]
    BY HeadTailProperties, LenProperties DEF TcpTypeOK
  <2>3. k \in 2..Len(cmd_q)  BY <2>1, <2>2
  <2>4. k - 1 \in DOMAIN cmd_q' /\ cmd_q'[k - 1] = cmd_q[k]  BY <2>2, <2>3
  <2> QED  BY <2>1, <2>4 DEF Asked
<1> QED  BY <1>1, <1>2 DEF Asked

\* A submitted command is in the queue, unless the program stops.
LEMMA Submit_Asks ==
  ASSUME TcpTypeOK, NEW s \in Submitters, Submit(s), Running'
  PROVE  Asked'
<1>1. submit[s] \in Requests  BY DEF TcpTypeOK, Submit
<1>2. cmd_q' = Append(cmd_q, submit[s])  BY DEF Submit, Running
<1>3. Len(cmd_q) + 1 \in DOMAIN cmd_q' /\ cmd_q'[Len(cmd_q) + 1] = submit[s]
  <2>1. cmd_q \in Seq(Commands) /\ submit[s] \in Commands
    BY <1>1 DEF TcpTypeOK, Commands, Requests
  <2>2. cmd_q' \in Seq(Commands) /\ Len(cmd_q') = Len(cmd_q) + 1
    BY <1>2, <2>1, AppendProperties
  <2> QED  BY <1>2, <2>1, <2>2, AppendProperties, LenProperties
<1> QED  BY <1>1, <1>3 DEF Asked

\* A step that asks for nothing and takes no request leaves what was asked.
LEMMA Kept_Asks ==
  ASSUME Asked, submit' = submit, cmd_q' = cmd_q  PROVE Asked'
BY DEF Asked

LEMMA Init_Reconnect == Init => ReconnectPending
BY DEF Init, ReconnectPending

LEMMA Next_Reconnect ==
  ASSUME TcpTypeOK, ReconnectPending, [Next]_vars  PROVE ReconnectPending'
<1>0. /\ Moving <=> Asked \/ tx # "idle"
      /\ Moving' <=> Asked' \/ tx' # "idle"
  BY DEF Moving, Asked, Queued, Requests
<1> USE <1>0 DEF ReconnectPending, Running
<1>1. CASE UNCHANGED vars  BY <1>1, Kept_Asks DEF vars
<1>2. CASE TakeConnect \/ TakeDisconnect
  BY <1>2 DEF TakeConnect, TakeDisconnect
<1>3. CASE ConnectFails \/ RxError \/ TimerFires
  BY <1>3, Reset_Asks DEF ConnectFails, RxError, TimerFires, Submitters, Requests
<1>4. CASE Opened  BY <1>4 DEF Opened
<1>5. CASE Close  BY <1>5 DEF Close, outside
<1>6. CASE TakeSend
  <2>1. CASE ResetFor("tx", "disconnect")
    BY <2>1, Reset_Asks DEF Submitters, Requests
  <2>2. CASE conn_state = "connected"  BY <1>6, <2>2 DEF TakeSend
  <2>3. CASE send_q = <<>> /\ conn_state # "connected"
    BY <1>6, <2>3, Tail_Asks DEF TakeSend, Takes, outside, Requests
  <2> QED  BY <1>6, <2>1, <2>2, <2>3 DEF TakeSend
<1>7. CASE TakeLongDelay
  BY <1>7, Tail_Asks DEF TakeLongDelay, Takes, outside, Requests
<1>8. CASE \E s \in Submitters : Submit(s)  BY <1>8, Submit_Asks
<1>9. CASE SetLongDelay \/ \E s \in Senders : PushCommand(s)
  BY <1>9, Append_Asks DEF SetLongDelay, PushCommand, outside, Commands
<1>10. CASE GotIp \/ IpAssigned  BY <1>10 DEF GotIp, IpAssigned
<1>11. CASE \/ ConnectSucceeds \/ RxWakes \/ RxPolls \/ WifiLost \/ LinkBreaks
            \/ HandleEvent \/ \E s \in Senders : Push(s) \/ PushTimesOut(s)
  <2>1. /\ submit' = submit /\ cmd_q' = cmd_q /\ Running
        /\ conn_state' = conn_state /\ timer' = timer /\ got_ip' = got_ip
        /\ wifi' => wifi
    BY <1>11 DEF ConnectSucceeds, RxWakes, RxPolls, WifiLost, LinkBreaks, HandleEvent,
                 Push, PushTimesOut, outside
  <2>2. tx' = "idle" => tx = "idle"
    BY <1>11 DEF ConnectSucceeds, RxWakes, RxPolls, WifiLost, LinkBreaks, HandleEvent,
                 Push, PushTimesOut, outside
  <2> QED  BY <2>1, <2>2, Kept_Asks
<1> QED
  BY <1>1, <1>2, <1>3, <1>4, <1>5, <1>6, <1>7, <1>8, <1>9, <1>10, <1>11
  DEF Next, TxTask, RxTask, Submitters

-----------------------------------------------------------------------------
(* Every connection has the RX task's attention                            *)

LEMMA Init_Link == Init => LinkInv
BY DEF Init, LinkInv, StateOfTask, RxWillLook

LEMMA Next_Link == ASSUME TcpTypeOK, LinkInv, [Next]_vars  PROVE LinkInv'
<1> USE DEF LinkInv, StateOfTask, RxWillLook, Running
<1>1. CASE UNCHANGED vars  BY <1>1, Kept_Asks DEF vars
<1>2. CASE TakeConnect \/ TakeDisconnect
  BY <1>2 DEF TakeConnect, TakeDisconnect
<1>3. CASE ConnectFails  BY <1>3 DEF ConnectFails
<1>4. CASE RxError \/ TimerFires
  BY <1>4, Reset_Asks DEF RxError, TimerFires, Submitters, Requests
<1>5. CASE ConnectSucceeds
  BY <1>5 DEF ConnectSucceeds, TcpTypeOK
<1>6. CASE Opened  BY <1>6, Kept_Asks DEF Opened
<1>7. CASE Close  BY <1>7 DEF Close
<1>8. CASE TakeSend
  <2>1. CASE ResetFor("tx", "disconnect")
    BY <1>8, <2>1, Reset_Asks DEF TakeSend, Takes, Submitters, Requests
  <2>2. CASE cmd_q' = Tail(cmd_q) /\ UNCHANGED submit
    BY <1>8, <2>2, Tail_Asks DEF TakeSend, Takes, Requests
  <2> QED  BY <1>8, <2>1, <2>2 DEF TakeSend
<1>9. CASE TakeLongDelay
  BY <1>9, Tail_Asks DEF TakeLongDelay, Takes, Requests
<1>10. CASE \E s \in Submitters : Submit(s)  BY <1>10, Submit_Asks DEF Submit
<1>11. CASE SetLongDelay \/ \E s \in Senders : PushCommand(s)
  BY <1>11, Append_Asks DEF SetLongDelay, PushCommand, Commands
<1>12. CASE RxWakes \/ RxPolls  BY <1>12 DEF RxWakes, RxPolls
<1>13. CASE \/ GotIp \/ IpAssigned \/ WifiLost \/ LinkBreaks \/ HandleEvent
            \/ \E s \in Senders : Push(s) \/ PushTimesOut(s)
  <2>1. /\ submit' = submit /\ cmd_q' = cmd_q /\ Running /\ conn_state' = conn_state
        /\ tx' = tx /\ rx' = rx /\ rx_q' = rx_q
    BY <1>13 DEF GotIp, IpAssigned, WifiLost, LinkBreaks, HandleEvent, Push, PushTimesOut
  <2> QED  BY <2>1, Kept_Asks
<1> QED
  BY <1>1, <1>2, <1>3, <1>4, <1>5, <1>6, <1>7, <1>8, <1>9, <1>10, <1>11, <1>12, <1>13
  DEF Next, TxTask, RxTask, Submitters

LEMMA LinkInv_Noticed == LinkInv => DeadLinkNoticed
BY MovingAsked DEF LinkInv, RxWillLook, DeadLinkNoticed

-----------------------------------------------------------------------------
(* The theorems                                                            *)

(***************************************************************************)
(* The inductive invariant of tcp_client.c, sender.c's use of it included. *)
(***************************************************************************)
THEOREM TcpInvariance == Spec => []TcpInv
<1>1. Init => TcpInv
  BY Init_Types, Init_Sends, Init_Reconnect, Init_Link DEF TcpInv
<1>2. TcpInv /\ [Next]_vars => TcpInv'
  BY Next_Types, Next_Sends, Next_Reconnect, Next_Link DEF TcpInv
<1> QED  BY <1>1, <1>2, PTL DEF Spec

(***************************************************************************)
(* The types of the client's state, and with them the bounds of its three  *)
(* queues (tcp_client.c:426-440).                                          *)
(***************************************************************************)
THEOREM TcpTypeCorrect == Spec => []TcpTypeOK
<1>1. TcpInv => TcpTypeOK  BY DEF TcpInv
<1> QED  BY <1>1, TcpInvariance, PTL

(***************************************************************************)
(* The TX task never finds send_q empty when it is told to send            *)
(* (tcp_client.c:240-243, 463-472), for any number of senders.             *)
(***************************************************************************)
THEOREM CommandsHaveBuffers == Spec => []SendsHaveBuffers
<1>1. TcpInv => SendsHaveBuffers  BY DEF TcpInv, SendsInv
<1> QED  BY <1>1, TcpInvariance, PTL

(***************************************************************************)
(* The device is never left offline (tcp_client.c:307-334, 369-380): no    *)
(* reset of cmd_q wipes out the last request without making another.       *)
(***************************************************************************)
THEOREM NeverLeftOffline == Spec => []ReconnectPending
<1>1. TcpInv => ReconnectPending  BY DEF TcpInv
<1> QED  BY <1>1, TcpInvariance, PTL

(***************************************************************************)
(* A dead connection is not taken for a live one for good                  *)
(* (tcp_client.c:87-160, 228-232).                                         *)
(***************************************************************************)
THEOREM DeadLinkIsNoticed == Spec => []DeadLinkNoticed
<1>1. TcpInv => DeadLinkNoticed  BY LinkInv_Noticed DEF TcpInv
<1> QED  BY <1>1, TcpInvariance, PTL
=============================================================================
